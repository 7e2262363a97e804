-------------------------- MODULE ClientQueueProofs --------------------------
(* What every component may use of a connection's queue.                    *)
EXTENDS ClientQueue, TLAPS

LEMMA QueueInitTyped == QueueInit => QueueTypes
  BY QueueAssumption DEF QueueInit, QueueTypes

\* A line that is put or dropped keeps every queue within its capacity.
LEMMA PutTyped ==
  ASSUME QueueTypes, NEW c \in Conns, UNCHANGED <<open, cancelled>>,
         \/ qlen[c] < QueueCap /\ qlen' = [qlen EXCEPT ![c] = @ + 1]
         \/ UNCHANGED qlen
  PROVE  QueueTypes'
<1>1. CASE qlen[c] < QueueCap /\ qlen' = [qlen EXCEPT ![c] = @ + 1]
  <2>1. qlen[c] + 1 \in 0..QueueCap
    BY <1>1, QueueAssumption DEF QueueTypes
  <2> QED
    BY <1>1, <2>1 DEF QueueTypes
<1>2. CASE UNCHANGED qlen
  BY <1>2 DEF QueueTypes
<1> QED
  BY <1>1, <1>2

\* The send loop and a client that leaves keep the types, and a context once
\* cancelled stays so.
LEMMA NetTyped ==
  ASSUME QueueTypes, NEW c \in Conns,
         SendLoop(c) \/ OtherTraffic(c) \/ ClientLeaves(c)
  PROVE  QueueTypes' /\ \A d \in Conns : cancelled[d] => cancelled'[d]
<1>1. CASE SendLoop(c)
  <2> Dequeue(c)
    BY <1>1 DEF SendLoop, Copied, CopyFails
  <2>1. qlen[c] - 1 \in 0..QueueCap
    BY QueueAssumption DEF Dequeue, QueueTypes
  <2>2. qlen' \in [Conns -> 0..QueueCap] /\ UNCHANGED open
    BY <2>1 DEF Dequeue, QueueTypes
  <2>3. cancelled' = cancelled \/ cancelled' = [cancelled EXCEPT ![c] = TRUE]
    BY <1>1 DEF SendLoop, Copied, CopyFails
  <2> QED
    BY <2>2, <2>3 DEF QueueTypes
<1>2. CASE OtherTraffic(c)
  BY <1>2, PutTyped DEF OtherTraffic, Enqueue
<1>3. CASE ClientLeaves(c)
  BY <1>3 DEF ClientLeaves, QueueTypes
<1> QED
  BY <1>1, <1>2, <1>3
=============================================================================
