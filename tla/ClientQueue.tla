---------------------------- MODULE ClientQueue ----------------------------
(***************************************************************************)
(* What every component shares of a serverConnection: the bounded queue of *)
(* lines, the context, and the socket behind them.  A line is one call of  *)
(* enqueueLines; of the queue only the depth is kept.  The modules of the  *)
(* components extend this one and say what else each step leaves alone.    *)
(***************************************************************************)
EXTENDS Naturals

CONSTANTS
    Conns,    \* the client connections
    QueueCap, \* capacity of serverConnection.queue (64 in the code)
    Stalled   \* connections whose client keeps its socket open and unread

ASSUME QueueAssumption == QueueCap \in Nat \ {0} /\ Stalled \subseteq Conns

VARIABLES
    qlen,      \* lines in the queue
    open,      \* the client still has its end of the socket
    cancelled  \* the connection's context

queueVars == <<qlen, open, cancelled>>

QueueInit ==
    /\ qlen = [c \in Conns |-> 0] /\ open = [c \in Conns |-> TRUE]
    /\ cancelled = [c \in Conns |-> FALSE]

QueueTypes ==
    /\ qlen \in [Conns -> 0..QueueCap]
    /\ open \in [Conns -> BOOLEAN] /\ cancelled \in [Conns -> BOOLEAN]

\* Mutant: the queue has no capacity.
EnqueueUnbounded(c, Line, NoLine) ==
    qlen' = [qlen EXCEPT ![c] = @ + 1] /\ Line /\ UNCHANGED <<open, cancelled>>

\* enqueue: waits for room in the queue, or gives up once the context is
\* cancelled; with both possible the select takes either.  Line is what the
\* client learns from the line, NoLine that it learns nothing.
Enqueue(c, Line, NoLine) ==
    /\ \/ qlen[c] < QueueCap /\ qlen' = [qlen EXCEPT ![c] = @ + 1] /\ Line
       \/ cancelled[c] /\ UNCHANGED qlen /\ NoLine
    /\ UNCHANGED <<open, cancelled>>

(* The send loop copies the head of the queue to the socket.  Once the      *)
(* client is gone a write may still succeed; the first that fails ends the  *)
(* loop, which cancels the connection's context and empties nothing.        *)
Dequeue(c) ==
    /\ ~cancelled[c] /\ qlen[c] > 0
    /\ qlen' = [qlen EXCEPT ![c] = @ - 1]
    /\ UNCHANGED open
Copied(c) == Dequeue(c) /\ UNCHANGED cancelled
CopyFails(c) ==
    ~open[c] /\ Dequeue(c) /\ cancelled' = [cancelled EXCEPT ![c] = TRUE]
SendLoop(c) == Copied(c) \/ CopyFails(c)

\* The PING loop, and whatever else is enqueued that a model leaves out.
OtherTraffic(c) == Enqueue(c, TRUE, TRUE)

ClientLeaves(c) ==
    /\ open[c] /\ open' = [open EXCEPT ![c] = FALSE]
    /\ UNCHANGED <<qlen, cancelled>>
=============================================================================
