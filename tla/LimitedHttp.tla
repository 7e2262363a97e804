---------------------------- MODULE LimitedHttp ----------------------------
(***************************************************************************)
(* LimitedHTTPClient.Do: all goroutines that ask the site for something    *)
(* share one token bucket of golang.org/x/time/rate.  Each reserves a      *)
(* token, waits until it is due, and sends.  A goroutine whose context is  *)
(* cancelled goes away without giving its reservation back.                *)
(*                                                                         *)
(* Time passes in the periods of the bucket (a second); a delay is counted *)
(* down, and the timer may fire up to Late periods after it is due.        *)
(***************************************************************************)
EXTENDS Integers, FiniteSets, FiniteSetsExt

CONSTANTS
    Callers,     \* the goroutines that send requests
    Cancellable, \* those on a connection's context: the receive loops
    Burst,       \* tokens that the bucket holds (5 in the code)
    Late,        \* bound: how late a timer fires
    MaxLeft      \* bound: the requests that are given up

ASSUME LimiterAssumption ==
    /\ Cancellable \subseteq Callers /\ IsFiniteSet(Callers)
    /\ Burst \in Nat \ {0} /\ Late \in Nat /\ MaxLeft \in Nat

VARIABLES
    tokens,  \* of the limiter; fewer than none: reserved ahead
    waiting, \* callers that wait in Do
    due,     \* periods until their timers are due
    left,    \* requests given up
    level    \* history: a bucket that fills by 1 with each request that is
             \* sent, and leaks 1 in each period
limiterVars == <<tokens, waiting, due, left, level>>

LimiterInit ==
    /\ tokens = Burst /\ waiting = {} /\ due = [c \in Callers |-> 0]
    /\ left = 0 /\ level = 0

\* Mutant: Reserve without the reservation.
AskUnreserved(c) ==
    /\ c \notin waiting /\ waiting' = waiting \cup {c}
    /\ due' = [due EXCEPT ![c] = IF tokens > 0 THEN 0 ELSE 1 - tokens]
    /\ UNCHANGED <<tokens, left, level>>

\* Reserve takes a token at once, and the delay is what it lacks.
Ask(c) ==
    /\ c \notin waiting /\ waiting' = waiting \cup {c}
    /\ tokens' = tokens - 1
    /\ due' = [due EXCEPT ![c] = IF tokens > 0 THEN 0 ELSE 1 - tokens]
    /\ UNCHANGED <<left, level>>

\* Mutant: asks the limiter again whether there is a token.
SendIfAllowed(c) ==
    /\ c \in waiting /\ due[c] <= 0 /\ tokens >= 0
    /\ waiting' = waiting \ {c}
    /\ level' = level + 1
    /\ UNCHANGED <<tokens, due, left>>

\* time.After fires, and the request is sent.
Send(c) ==
    /\ c \in waiting /\ due[c] <= 0
    /\ waiting' = waiting \ {c}
    /\ level' = level + 1
    /\ UNCHANGED <<tokens, due, left>>

\* Context().Done(): the token stays reserved.
GiveUp(c) ==
    /\ c \in waiting \cap Cancellable /\ left < MaxLeft
    /\ waiting' = waiting \ {c} /\ left' = left + 1
    /\ UNCHANGED <<tokens, due, level>>

PeriodPasses ==
    /\ \A c \in waiting : due[c] > -Late
    /\ tokens' = Min({Burst, tokens + 1})
    /\ due' = [c \in Callers |-> IF c \in waiting THEN due[c] - 1 ELSE due[c]]
    /\ level' = Max({0, level - 1})
    /\ UNCHANGED <<waiting, left>>

LimiterNext ==
    \/ PeriodPasses
    \/ \E c \in Callers : Ask(c) \/ Send(c) \/ GiveUp(c)

LimiterSpec == LimiterInit /\ [][LimiterNext]_limiterVars

\* Time passes, and a timer that is due fires.
LimiterFairness ==
    /\ WF_limiterVars(PeriodPasses)
    /\ \A c \in Callers : WF_limiterVars(Send(c))
-----------------------------------------------------------------------------
\* "Do waits until the client is within rate limits": in any stretch of time the
\* site is sent no more requests than there are periods in it and a burst, and
\* as many as timers may be late by, however the goroutines take turns.
WithinRate == level <= Burst + Late

\* No request waits longer than for those that are waiting as well and for the
\* reservations of requests that were given up.
WaitIsBounded ==
    \A c \in waiting : due[c] <= Cardinality(waiting) + left

\* The site is spared, and the callers are not made to wait for it in vain.
RateKept == WithinRate /\ WaitIsBounded

\* "... and then performs the request", unless it is given up.
EveryRequestSent ==
    \A c \in Callers : c \in waiting ~> c \notin waiting
=============================================================================
