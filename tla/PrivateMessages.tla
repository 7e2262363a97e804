-------------------------- MODULE PrivateMessages --------------------------
(***************************************************************************)
(* Private messages: the polling goroutine repeatUpdatingPrivateMessages,  *)
(* the accept loop that adds a connection to server.connections, and the   *)
(* dump of the known messages that every connection starts with.  The      *)
(* three meet under server.lock, which the first and the last hold while   *)
(* they enqueue.  LIST enqueues too, holding the lock for reading.         *)
(*                                                                         *)
(* Messages are numbered in the order they reach the inbox of the site.    *)
(***************************************************************************)
EXTENDS ClientQueue, Sequences, SequencesExt

CONSTANTS
    MaxPms,    \* bound: the private messages that arrive
    Senders, SenderOf, \* who sent each of them
    Listers,   \* bound: connections that send a LIST, each of them once
    Poller,    \* the poller as holder of server.lock
    None       \* no connection, nobody

Pms == 1..MaxPms

ASSUME ConstAssumption ==
    /\ MaxPms \in Nat /\ SenderOf \in [Pms -> Senders]
    /\ Listers \subseteq Conns
    /\ Poller \notin Conns /\ None \notin Conns \cup {Poller}

VARIABLES
    inbox,       \* number of messages on the site
    \* the server
    slock,       \* who holds server.lock for writing
    seenPms,     \* seenPrivateMessages
    stored,      \* privateMessages: the messages by author
    connections, \* connections that new messages are fanned out to
    accepting,   \* connection the accept loop is about to add
    \* the poller's locals
    ppc, todo,   \* where it is, and what is left of the list of this poll
    left,        \* connections the fan-out must still serve
    \* each connection
    cpc, pending,\* where run is, and what is left of the dump
    lpc,         \* LIST on the receive loop
    \* history
    copies,      \* how many copies of each message were put in the queue
    missed,      \* messages that a poll did not get, for want of their row in the
                 \* list or of their body
    early        \* the connection was in connections when its dump began

siteVars   == <<inbox, missed>>
serverVars == <<slock, seenPms, stored, connections, accepting>>
pollVars   == <<ppc, todo, left>>
connVars   == <<cpc, pending, lpc, early>>
vars == <<siteVars, serverVars, pollVars, connVars, copies, queueVars>>

PollPoints == {"list", "next", "store", "fan", "sleep"}
ConnPoints == {"absent", "run", "dump", "running"}
ListPoints == {"unlisted", "listing", "listed"}
Free == slock = None /\ \A c \in Conns : lpc[c] # "listing" \* for a writer
StoredSet == {p \in Pms : \E s \in Senders :
                             \E i \in 1..Len(stored[s]) : stored[s][i] = p}

Init ==
    /\ inbox = 0 /\ missed = {}
    /\ slock = None /\ seenPms = {} /\ stored = [s \in Senders |-> <<>>]
    /\ connections = {} /\ accepting = None
    /\ ppc = "list" /\ todo = <<>> /\ left = {}
    /\ cpc = [c \in Conns |-> "absent"] /\ pending = [c \in Conns |-> {}]
    /\ early = [c \in Conns |-> FALSE] /\ lpc = [c \in Conns |-> "unlisted"]
    /\ copies = [c \in Conns |-> [p \in Pms |-> 0]]
    /\ QueueInit

Message(c, p) == copies' = [copies EXCEPT ![c][p] = @ + 1]
SendMessage(c, p) == Enqueue(c, Message(c, p), UNCHANGED copies)
-----------------------------------------------------------------------------
(* The poller.                                                              *)
PmArrives ==
    /\ inbox < MaxPms /\ inbox' = inbox + 1
    /\ UNCHANGED <<missed, serverVars, pollVars, connVars, copies, queueVars>>

Poll(from, to) ==
    /\ ppc = from /\ ppc' = to
    /\ UNCHANGED <<inbox, connections, accepting, connVars>>
Quiet == UNCHANGED <<copies, queueVars>>
Walk(from, to) == Poll(from, to) /\ Quiet /\ UNCHANGED <<slock, stored, left>>

\* Lists of some of the messages, in the order of the inbox.
InOrder == {list \in UNION {[1..n -> 1..inbox] : n \in 0..inbox} :
               \A i, j \in DOMAIN list : i < j => list[i] < list[j]}
Miss(p) == missed' = missed \cup (p \ seenPms)

\* Mutant: the list is walked as the site gives it, newest first.
ListPmsAsGiven ==
    /\ Walk("list", "next")
    /\ \E list \in InOrder : /\ todo' = Reverse(list)
                             /\ Miss((1..inbox) \ ToSet(list))
    /\ UNCHANGED seenPms

\* The site lists the messages newest first; slices.Backward walks them in
\* chronological order.  A row with an unreadable part is left out.
ListPms ==
    /\ Walk("list", "next") /\ todo' \in InOrder
    /\ Miss((1..inbox) \ ToSet(todo'))
    /\ UNCHANGED seenPms
ListFails == Walk("list", "sleep") /\ UNCHANGED <<seenPms, missed, todo>>
Wake == Walk("sleep", "list") /\ UNCHANGED <<seenPms, missed, todo>>

SkipSeen ==
    /\ Walk("next", "next")
    /\ todo # <<>> /\ Head(todo) \in seenPms
    /\ todo' = Tail(todo)
    /\ UNCHANGED <<seenPms, missed>>

\* Mutant: a message is seen even if its body cannot be had.
BodyFailsSeen ==
    /\ Walk("next", "next")
    /\ todo # <<>> /\ Head(todo) \notin seenPms
    /\ todo' = Tail(todo) /\ missed' = missed \cup {Head(todo)}
    /\ seenPms' = seenPms \cup {Head(todo)}

\* A message whose body cannot be had is left for the next poll.
BodyFails ==
    /\ Walk("next", "next")
    /\ todo # <<>> /\ Head(todo) \notin seenPms
    /\ todo' = Tail(todo) /\ missed' = missed \cup {Head(todo)}
    /\ UNCHANGED seenPms

\* Mutant: the message is not marked as seen.
BodyUnmarked ==
    /\ Walk("next", "store")
    /\ todo # <<>> /\ Head(todo) \notin seenPms
    /\ UNCHANGED <<seenPms, missed, todo>>

Body ==
    /\ Walk("next", "store")
    /\ todo # <<>> /\ Head(todo) \notin seenPms
    /\ seenPms' = seenPms \cup {Head(todo)}
    /\ UNCHANGED <<missed, todo>>

Store ==
    /\ Poll("store", "fan") /\ Quiet
    /\ Free /\ slock' = Poller
    /\ LET s == SenderOf[Head(todo)]
       IN stored' = [stored EXCEPT ![s] = Append(@, Head(todo))]
    /\ left' = connections
    /\ UNCHANGED <<seenPms, missed, todo>>

\* Mutant: a full queue is not waited for.
FanOutDrops(c) ==
    /\ Poll("fan", "fan")
    /\ c \in left /\ left' = left \ {c}
    /\ SendMessage(c, Head(todo)) \/ (qlen[c] = QueueCap /\ Quiet)
    /\ UNCHANGED <<slock, seenPms, stored, missed, todo>>

FanOut(c) ==
    /\ Poll("fan", "fan")
    /\ c \in left /\ left' = left \ {c}
    /\ SendMessage(c, Head(todo))
    /\ UNCHANGED <<slock, seenPms, stored, missed, todo>>

FannedOut ==
    /\ Poll("fan", "next") /\ Quiet
    /\ left = {}
    /\ slock' = None /\ todo' = Tail(todo)
    /\ UNCHANGED <<seenPms, stored, missed, left>>

ListDone ==
    todo = <<>> /\ Walk("next", "sleep") /\ UNCHANGED <<seenPms, missed, todo>>
-----------------------------------------------------------------------------
(* The accept loop, and run on the connection's own goroutine.              *)
Accept(c) ==
    /\ accepting = None /\ accepting' = c
    /\ cpc[c] = "absent" /\ cpc' = [cpc EXCEPT ![c] = "run"]
    /\ UNCHANGED <<siteVars, slock, seenPms, stored, connections, pollVars,
                   pending, lpc, early, copies, queueVars>>

Register(c) ==
    /\ accepting = c /\ accepting' = None
    /\ Free
    /\ connections' = connections \cup {c}
    /\ UNCHANGED <<siteVars, slock, seenPms, stored, pollVars, connVars, copies,
                   queueVars>>

Run(c, from, to) ==
    /\ cpc[c] = from /\ cpc' = [cpc EXCEPT ![c] = to]
    /\ UNCHANGED <<siteVars, seenPms, stored, connections, accepting, pollVars, lpc>>

\* updatePrivateMessages.  The authors come in the order of a Go map: any.
StartDump(c) ==
    /\ Run(c, "run", "dump") /\ UNCHANGED <<copies, queueVars>>
    /\ Free /\ slock' = c
    /\ pending' = [pending EXCEPT ![c] = StoredSet]
    /\ early' = [early EXCEPT ![c] = c \in connections]

SendDump(c) ==
    /\ Run(c, "dump", "dump")
    /\ \E p \in pending[c] : /\ SendMessage(c, p)
                             /\ pending' = [pending EXCEPT ![c] = @ \ {p}]
    /\ UNCHANGED <<slock, early>>

\* Mutant: the lock is kept.
DumpDoneLocked(c) ==
    /\ Run(c, "dump", "running") /\ UNCHANGED <<copies, queueVars>>
    /\ pending[c] = {} /\ UNCHANGED <<slock, pending, early>>

DumpDone(c) ==
    /\ Run(c, "dump", "running") /\ UNCHANGED <<copies, queueVars>>
    /\ pending[c] = {}
    /\ slock' = None
    /\ UNCHANGED <<pending, early>>

(* LIST, on the receive loop.                                               *)
List(c, from, to) ==
    /\ cpc[c] # "absent"
    /\ lpc[c] = from /\ lpc' = [lpc EXCEPT ![c] = to]
    /\ UNCHANGED <<siteVars, serverVars, pollVars, cpc, pending, early, copies>>

\* The read lock is not had while a writer has the lock.
StartList(c) ==
    /\ List(c, "unlisted", "listing") /\ UNCHANGED queueVars
    /\ c \in Listers /\ slock = None

\* One line for each channel; the lock is released after the last.
ListLine(c) == List(c, "listing", "listing") /\ OtherTraffic(c)
ListLast(c) == List(c, "listing", "listed") /\ OtherTraffic(c)
-----------------------------------------------------------------------------
Net(c, A) ==
    /\ cpc[c] # "absent" /\ A
    /\ UNCHANGED <<siteVars, serverVars, pollVars, connVars, copies>>

PollerWork ==
    \/ SkipSeen \/ Store \/ FannedOut \/ ListDone
    \/ \E c \in Conns : FanOut(c)
PollerStep == ListPms \/ ListFails \/ BodyFails \/ Body \/ Wake \/ PollerWork
RunStep(c) == StartDump(c) \/ SendDump(c) \/ DumpDone(c)
ListStep(c) == StartList(c) \/ ListLine(c) \/ ListLast(c)

Next ==
    \/ PmArrives \/ PollerStep
    \/ \E c \in Conns :
          \/ Accept(c) \/ Register(c) \/ RunStep(c) \/ ListStep(c)
          \/ Net(c, SendLoop(c)) \/ Net(c, OtherTraffic(c)) \/ Net(c, ClientLeaves(c))

Spec == Init /\ [][Next]_vars

(* Fairness.  Goroutines that can step do, and a mutex serves the longest   *)
(* waiter, hence SF; a LIST has finitely many lines.  A client outside      *)
(* Stalled reads or fails.  A site that is asked for ever gives each        *)
(* message for ever, its row in the list and its body.                      *)
Fairness ==
    /\ SF_vars(PollerWork) /\ WF_vars(Wake)
    /\ \A c \in Conns : SF_vars(Register(c)) /\ SF_vars(RunStep(c))
    /\ \A c \in Conns : SF_vars(ListLast(c))
    /\ \A c \in Conns \ Stalled : WF_vars(Net(c, SendLoop(c)))
SiteAnswers ==
    \A p \in Pms : /\ SF_vars(ListPms /\ p \in ToSet(todo'))
                   /\ SF_vars(Body /\ Head(todo) = p)
FairSpec == Spec /\ Fairness /\ SiteAnswers
-----------------------------------------------------------------------------
\* Every variable keeps its type.
TypeOK ==
    /\ inbox \in 0..MaxPms /\ missed \subseteq Pms
    /\ slock \in Conns \cup {Poller, None}
    /\ seenPms \subseteq Pms /\ stored \in [Senders -> Seq(Pms)]
    /\ connections \subseteq Conns /\ accepting \in Conns \cup {None}
    /\ ppc \in PollPoints /\ todo \in Seq(Pms) /\ left \subseteq Conns
    /\ cpc \in [Conns -> ConnPoints] /\ pending \in [Conns -> SUBSET Pms]
    /\ lpc \in [Conns -> ListPoints] /\ early \in [Conns -> BOOLEAN]
    /\ copies \in [Conns -> [Pms -> Nat]]
    /\ QueueTypes

\* A message is stored once, under its author, although it is listed again by
\* every poll and its body may fail several times first.
StoredOnce ==
    \A s \in Senders : \A i, j \in 1..Len(stored[s]) :
        /\ SenderOf[stored[s][i]] = s
        /\ stored[s][i] = stored[s][j] => i = j

\* "Form the list in chronological order": of one author, a message is stored
\* after a later one only if an earlier poll missed it: its row was unreadable or
\* the site refused its body.
ChronologicalUnlessMissed ==
    \A s \in Senders : \A i, j \in 1..Len(stored[s]) :
        i < j /\ stored[s][i] > stored[s][j] => stored[s][j] \in missed

\* A connection added to connections before its dump began has every stored
\* message as soon as nobody holds the lock.
EarlyGetsAll ==
    \A c \in Conns :
        early[c] /\ cpc[c] = "running" /\ slock = None /\ ~cancelled[c] =>
            \A p \in StoredSet : copies[c][p] > 0

\* "sending those to connected clients": once a connection is added and its
\* dump is over, and nobody holds the lock, it has every stored message.
NoPmLost ==
    \A c \in connections :
        cpc[c] = "running" /\ slock = None /\ ~cancelled[c] =>
            \A p \in StoredSet : copies[c][p] > 0

\* "the main blocking server loop that accepts new clients": a client that was
\* accepted is added to connections.
AcceptedIsAdded == \A c \in Conns : accepting = c ~> c \in connections

\* A message in the inbox reaches every connection that gets the fan-out.
EveryPmArrives ==
    \A c \in Conns \ Stalled, p \in Pms :
        inbox >= p /\ c \in connections /\ p \notin seenPms
            ~> copies[c][p] > 0 \/ cancelled[c]
=============================================================================
