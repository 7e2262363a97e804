------------------------ MODULE PrivateMessagesProofs ------------------------
(* Theorems about PrivateMessages, for any connections, messages, LISTs and *)
(* queue capacity.                                                          *)
EXTENDS PrivateMessagesInvariant, ClientQueueProofs, SequenceTheorems, TLAPS

\* Names of tuples of variables and of the frames that actions share.
USE DEF siteVars, serverVars, pollVars, connVars, vars, queueVars, Poll, Quiet,
        Walk, Run, List
-----------------------------------------------------------------------------
(* Types.  TypeOK alone is not inductive: Store and FanOut take the head of *)
(* todo.                                                                    *)
InHand == ppc \in {"store", "fan"} => todo # <<>>
Typed == TypeOK /\ InHand

LEMMA TypedInit == Init => Typed
<1> SUFFICES ASSUME Init PROVE Typed
  OBVIOUS
<1>1. [c \in Conns |-> [p \in Pms |-> 0]] \in [Conns -> [Pms -> Nat]]
  OBVIOUS
<1>2. QueueTypes
  BY QueueInitTyped DEF Init
<1>3. [s \in Senders |-> <<>>] \in [Senders -> Seq(Pms)] /\ <<>> \in Seq(Pms)
  OBVIOUS
<1> QED
  BY <1>1, <1>2, <1>3, ConstAssumption
     DEF Init, Typed, InHand, TypeOK, PollPoints, ConnPoints, ListPoints

LEMMA HeadIsPm == Typed /\ todo # <<>> => Head(todo) \in Pms /\ Tail(todo) \in Seq(Pms)
  BY HeadTailProperties DEF Typed, TypeOK

\* A message that is put in a queue or dropped keeps the types.
LEMMA SendTyped ==
  ASSUME TypeOK, NEW c \in Conns, NEW p \in Pms, SendMessage(c, p)
  PROVE  QueueTypes' /\ copies' \in [Conns -> [Pms -> Nat]] /\ UNCHANGED <<open, cancelled>>
<1>1. QueueTypes' /\ UNCHANGED <<open, cancelled>>
  BY PutTyped DEF SendMessage, Enqueue, TypeOK
<1>2. copies[c] \in [Pms -> Nat] /\ copies[c][p] + 1 \in Nat
  BY DEF TypeOK
<1>3. [copies[c] EXCEPT ![p] = copies[c][p] + 1] \in [Pms -> Nat]
  BY <1>2
<1>4. \/ copies' = copies
      \/ copies' = [copies EXCEPT ![c] = [copies[c] EXCEPT ![p] = copies[c][p] + 1]]
  BY DEF SendMessage, Enqueue, Message
<1> QED
  BY <1>1, <1>3, <1>4 DEF TypeOK

LEMMA OrderedList ==
  ASSUME inbox \in Nat, NEW list \in InOrder
  PROVE  /\ Len(list) \in Nat /\ DOMAIN list = 1..Len(list) /\ list \in Seq(1..inbox)
         /\ \A i \in 1..Len(list) : list[i] \in 1..inbox
         /\ \A i, j \in 1..Len(list) : i < j => list[i] < list[j]
<1>1. PICK n \in 0..inbox : list \in [1..n -> 1..inbox]
  BY DEF InOrder
<1>2. n \in Nat /\ list \in Seq(1..inbox) /\ Len(list) = n /\ DOMAIN list = 1..n
  BY <1>1
<1> QED
  BY <1>1, <1>2 DEF InOrder

LEMMA TypedStep == Typed /\ [Next]_vars => Typed'
<1> (UNCHANGED queueVars) /\ QueueTypes => QueueTypes'
  BY DEF QueueTypes
<1> USE DEF Typed, InHand, TypeOK, PollPoints, ConnPoints, ListPoints
<1> SUFFICES ASSUME Typed, [Next]_vars PROVE Typed'
  OBVIOUS
<1>1. CASE UNCHANGED vars
  BY <1>1
<1>2. CASE PmArrives
  BY <1>2, ConstAssumption DEF PmArrives
<1>3. CASE ListPms
  <2>1. todo' \in Seq(Pms) /\ missed' \subseteq Pms
    <3>1. todo' \in InOrder /\ inbox \in Nat /\ 1..inbox \subseteq Pms
      BY <1>3, ConstAssumption DEF ListPms, Pms
    <3>2. todo' \in Seq(1..inbox)
      BY <3>1, OrderedList
    <3> QED
      BY <1>3, <3>1, <3>2 DEF ListPms, Miss
  <2> QED
    BY <1>3, <2>1 DEF ListPms
<1>4. CASE ListFails \/ Wake \/ ListDone \/ FannedOut
  BY <1>4, HeadIsPm, HeadTailProperties DEF ListFails, Wake, ListDone, FannedOut
<1>5. CASE SkipSeen \/ BodyFails \/ Body
  BY <1>5, HeadIsPm DEF SkipSeen, BodyFails, Body
<1>6. CASE Store
  <2>1. SenderOf[Head(todo)] \in Senders
    BY <1>6, HeadIsPm, ConstAssumption DEF Store
  <2>2. stored' \in [Senders -> Seq(Pms)]
    BY <1>6, <2>1, HeadIsPm, AppendProperties DEF Store
  <2> QED
    BY <1>6, <2>2 DEF Store
<1>7. ASSUME NEW c \in Conns, FanOut(c) PROVE Typed'
  BY <1>7, HeadIsPm, SendTyped DEF FanOut
<1>8. ASSUME NEW c \in Conns, Accept(c) \/ Register(c) PROVE Typed'
  BY <1>8 DEF Accept, Register
<1>9. ASSUME NEW c \in Conns, StartDump(c) \/ DumpDone(c) PROVE Typed'
  <2>1. StoredSet \subseteq Pms /\ (c \in connections) \in BOOLEAN
    BY DEF StoredSet
  <2> QED
    BY <1>9, <2>1 DEF StartDump, DumpDone
<1>10. ASSUME NEW c \in Conns, SendDump(c) PROVE Typed'
  BY <1>10, SendTyped DEF SendDump
<1>11. ASSUME NEW c \in Conns, ListStep(c) PROVE Typed'
  <2>1. CASE StartList(c)
    BY <1>11, <2>1 DEF StartList
  <2>2. CASE ListLine(c) \/ ListLast(c)
    BY <1>11, <2>2, NetTyped DEF ListLine, ListLast
  <2> QED
    BY <1>11, <2>1, <2>2 DEF ListStep
<1>12. ASSUME NEW c \in Conns,
              Net(c, SendLoop(c)) \/ Net(c, OtherTraffic(c)) \/ Net(c, ClientLeaves(c))
       PROVE  Typed'
  BY <1>12, NetTyped DEF Net
<1> QED
  BY <1>1, <1>2, <1>3, <1>4, <1>5, <1>6, <1>7, <1>8, <1>9, <1>10, <1>11, <1>12
     DEF Next, PollerStep, PollerWork, RunStep
-----------------------------------------------------------------------------
(* The lock, and the order of marking, storing and sending.                 *)
LEMMA LockHeldStep == Typed /\ LockHeld /\ [Next]_vars => LockHeld'
<1> SUFFICES ASSUME Typed, LockHeld, [Next]_vars PROVE LockHeld'
  OBVIOUS
<1> USE ConstAssumption DEF LockHeld, Typed, TypeOK, PollPoints, ConnPoints, ListPoints
<1>1. CASE UNCHANGED vars
  BY <1>1
<1>2. CASE PmArrives \/ ListPms \/ ListFails \/ Wake \/ ListDone
           \/ SkipSeen \/ BodyFails \/ Body
  BY <1>2 DEF PmArrives, ListPms, ListFails, Wake, ListDone, SkipSeen, BodyFails, Body
<1>3. CASE Store \/ FannedOut
  BY <1>3 DEF Store, FannedOut, Free
<1>4. ASSUME NEW c \in Conns,
             FanOut(c) \/ Accept(c) \/ Register(c) \/ SendDump(c)
      PROVE  LockHeld'
  BY <1>4 DEF FanOut, Accept, Register, SendDump
<1>5. ASSUME NEW c \in Conns, StartDump(c) \/ DumpDone(c) PROVE LockHeld'
  BY <1>5 DEF StartDump, DumpDone, Free
<1>6. ASSUME NEW c \in Conns, ListStep(c) PROVE LockHeld'
  BY <1>6 DEF ListStep, StartList, ListLine, ListLast
<1>7. ASSUME NEW c \in Conns,
             Net(c, SendLoop(c)) \/ Net(c, OtherTraffic(c)) \/ Net(c, ClientLeaves(c))
      PROVE  LockHeld'
  BY <1>7 DEF Net
<1> QED
  BY <1>1, <1>2, <1>3, <1>4, <1>5, <1>6, <1>7 DEF Next, PollerStep, PollerWork, RunStep

LEMMA StoredSame == UNCHANGED stored => StoredSet' = StoredSet
  BY DEF StoredSet

\* Store appends a message that no author has yet to its own author's.
LEMMA Stored ==
  ASSUME Typed, SeenThenStored, StoredOnce, Store
  PROVE  StoredSet' = StoredSet \cup {Head(todo)} /\ StoredOnce'
<1> DEFINE p == Head(todo)
           s == SenderOf[p]
<1>1. p \in Pms /\ s \in Senders /\ p \notin StoredSet
  BY HeadIsPm, ConstAssumption DEF Store, SeenThenStored
<1>2. stored' = [stored EXCEPT ![s] = Append(stored[s], p)]
  BY DEF Store
<1>3. \A t \in Senders : stored[t] \in Seq(Pms)
  BY DEF Typed, TypeOK
<1>4. \A t \in Senders \ {s} : stored'[t] = stored[t]
  BY <1>2
<1>5. /\ Len(stored'[s]) = Len(stored[s]) + 1
      /\ \A i \in 1..Len(stored[s]) : stored'[s][i] = stored[s][i]
      /\ stored'[s][Len(stored[s]) + 1] = p
  <2>1. stored'[s] = Append(stored[s], p)
    BY <1>1, <1>2 DEF Typed, TypeOK
  <2> QED
    BY <1>1, <1>3, <2>1, AppendProperties
<1>6. StoredSet' = StoredSet \cup {p}
  <2>1. ASSUME NEW q \in StoredSet' PROVE q \in StoredSet \cup {p}
    BY <1>3, <1>4, <1>5, SMTT(30) DEF StoredSet
  <2>2. ASSUME NEW q \in StoredSet PROVE q \in StoredSet'
    <3>1. PICK t \in Senders : \E i \in 1..Len(stored[t]) : stored[t][i] = q
      BY DEF StoredSet
    <3> QED
      BY <1>3, <1>4, <1>5, <3>1 DEF StoredSet
  <2>3. p \in StoredSet'
    <3>1. Len(stored[s]) + 1 \in 1..Len(stored'[s])
      BY <1>1, <1>3, <1>5
    <3> QED
      BY <1>1, <1>5, <3>1 DEF StoredSet
  <2> QED
    BY <2>1, <2>2, <2>3
<1>7. StoredOnce'
  <2>1. \A t \in Senders : \A i \in 1..Len(stored[t]) : stored[t][i] # p
    BY <1>1 DEF StoredSet
  <2> SUFFICES ASSUME NEW t \in Senders,
                      NEW i \in 1..Len(stored'[t]), NEW j \in 1..Len(stored'[t])
               PROVE  /\ SenderOf[stored'[t][i]] = t
                      /\ stored'[t][i] = stored'[t][j] => i = j
    BY DEF StoredOnce
  <2>2. CASE t # s
    BY <1>4, <2>2 DEF StoredOnce
  <2>3. CASE t = s
    <3> DEFINE n == Len(stored[s])
    <3>1. n \in Nat /\ i \in 1..(n + 1) /\ j \in 1..(n + 1)
      BY <1>1, <1>3, <1>5, <2>3
    <3>2. \A k \in 1..n : stored[s][k] # p /\ SenderOf[stored[s][k]] = s
      BY <1>1, <2>1 DEF StoredOnce
    <3>3. \A k, l \in 1..n : stored[s][k] = stored[s][l] => k = l
      BY <1>1 DEF StoredOnce
    <3>4. /\ \A k \in 1..n : stored'[s][k] = stored[s][k]
          /\ stored'[s][n + 1] = p /\ SenderOf[p] = s
      BY <1>5
    <3> HIDE DEF n, s, p
    <3> QED
      BY <2>3, <3>1, <3>2, <3>3, <3>4
  <2> QED
    BY <2>2, <2>3
<1> QED
  BY <1>6, <1>7

LEMMA StoredStep ==
  Typed /\ SeenThenStored /\ StoredOnce /\ [Next]_vars => SeenThenStored' /\ StoredOnce'
<1> SUFFICES ASSUME Typed, SeenThenStored, StoredOnce, [Next]_vars
             PROVE  SeenThenStored' /\ StoredOnce'
  OBVIOUS
<1>1. CASE Store
  BY <1>1, Stored DEF Store, SeenThenStored
<1>2. CASE ~Store
  <2>1. UNCHANGED stored
    BY <1>2 DEF Next, PmArrives, PollerStep, PollerWork, ListPms, Miss, ListFails,
       Wake, SkipSeen, BodyFails, Body, FanOut, FannedOut, ListDone, Accept, Register, RunStep,
       StartDump, SendDump, DumpDone, ListStep, StartList, ListLine, ListLast, Net
  <2>2. StoredSet' = StoredSet /\ StoredOnce'
    BY <2>1, StoredSame DEF StoredOnce
  <2>3. CASE UNCHANGED <<ppc, todo, seenPms>>
    BY <2>2, <2>3 DEF SeenThenStored
  <2>4. CASE ListPms \/ ListFails \/ Wake \/ ListDone \/ SkipSeen \/ BodyFails \/ FannedOut
    BY <2>2, <2>4
       DEF SeenThenStored, ListPms, ListFails, Wake, ListDone, SkipSeen, BodyFails, FannedOut
  <2>5. CASE Body
    BY <2>2, <2>5 DEF SeenThenStored, Body
  <2>6. ASSUME NEW c \in Conns, FanOut(c) PROVE SeenThenStored'
    BY <2>2, <2>6 DEF SeenThenStored, FanOut
  <2> QED
    BY <1>2, <2>2, <2>3, <2>4, <2>5, <2>6
       DEF Next, PmArrives, PollerStep, PollerWork, Accept, Register, RunStep,
       StartDump, SendDump, DumpDone, ListStep, StartList, ListLine, ListLast, Net
<1> QED
  BY <1>1, <1>2
-----------------------------------------------------------------------------
(* What is owed, and to whom.                                               *)
LEMMA StoredGrows == SeenThenStored /\ Typed /\ StoredOnce /\ [Next]_vars =>
                        \/ StoredSet' = StoredSet
                        \/ Store /\ StoredSet' = StoredSet \cup {Head(todo)}
<1> SUFFICES ASSUME SeenThenStored, Typed, StoredOnce, [Next]_vars, ~Store
             PROVE  UNCHANGED stored
  BY Stored, StoredSame
<1> QED
  BY DEF Next, PmArrives, PollerStep, PollerWork, ListPms, ListFails, Wake,
     SkipSeen, BodyFails, Body, FanOut, FannedOut, ListDone, Accept, Register, RunStep,
     StartDump, SendDump, DumpDone, ListStep, StartList, ListLine, ListLast, Net

LEMMA DumpOwesStep ==
  Typed /\ SeenThenStored /\ StoredOnce /\ DumpOwes /\ [Next]_vars => DumpOwes'
<1> SUFFICES ASSUME Typed, SeenThenStored, StoredOnce, DumpOwes, [Next]_vars
             PROVE  DumpOwes'
  OBVIOUS
<1>1. StoredSet \subseteq StoredSet'
  BY StoredGrows
<1> USE DEF DumpOwes, Typed, TypeOK, ConnPoints
<1>2. CASE UNCHANGED <<cpc, pending>>
  BY <1>1, <1>2
<1>3. ASSUME NEW c \in Conns, Accept(c) PROVE DumpOwes'
  BY <1>1, <1>3 DEF Accept
<1>4. ASSUME NEW c \in Conns, StartDump(c) PROVE DumpOwes'
  BY <1>1, <1>4 DEF StartDump
<1>5. ASSUME NEW c \in Conns, SendDump(c) PROVE DumpOwes'
  BY <1>1, <1>5 DEF SendDump
<1>6. ASSUME NEW c \in Conns, DumpDone(c) PROVE DumpOwes'
  BY <1>1, <1>6 DEF DumpDone
<1> QED
  BY <1>2, <1>3, <1>4, <1>5, <1>6
     DEF Next, PmArrives, PollerStep, PollerWork, ListPms, ListFails, Wake,
     SkipSeen, BodyFails, Body, Store, FanOut, FannedOut, ListDone, Register, RunStep,
     ListStep, StartList, ListLine, ListLast, Net

\* A line that is put is one copy more for its connection, and takes none away.
LEMMA CopyMore ==
  ASSUME TypeOK, NEW c \in Conns, NEW p \in Pms, SendMessage(c, p)
  PROVE  /\ \A d \in Conns, q \in Pms : copies[d][q] > 0 => copies'[d][q] > 0
         /\ copies'[c][p] > 0 \/ cancelled[c]
<1>1. CASE Message(c, p)
  <2>1. copies[c] \in [Pms -> Nat]
    BY DEF TypeOK
  <2>2. copies' = [copies EXCEPT ![c] = [copies[c] EXCEPT ![p] = copies[c][p] + 1]]
    BY <1>1 DEF Message
  <2>3. copies'[c] = [copies[c] EXCEPT ![p] = copies[c][p] + 1]
    BY <2>2 DEF TypeOK
  <2>4. \A d \in Conns \ {c} : copies'[d] = copies[d]
    BY <2>2 DEF TypeOK
  <2>5. copies[c][p] \in Nat /\ copies'[c][p] = copies[c][p] + 1
    BY <2>1, <2>3
  <2>6. \A q \in Pms \ {p} : copies'[c][q] = copies[c][q]
    BY <2>1, <2>3
  <2> QED
    BY <2>4, <2>5, <2>6
<1>2. CASE cancelled[c] /\ UNCHANGED copies
  BY <1>2
<1> QED
  BY <1>1, <1>2 DEF SendMessage, Enqueue

LEMMA OwedStep ==
  Typed /\ LockHeld /\ SeenThenStored /\ StoredOnce /\ DumpOwes /\ Owed /\ [Next]_vars
      => Owed'
<1> SUFFICES ASSUME Typed, LockHeld, SeenThenStored, StoredOnce, DumpOwes, Owed, [Next]_vars
             PROVE  Owed'
  OBVIOUS
<1>1. StoredSet \subseteq Pms
  BY DEF StoredSet
<1>2. \/ StoredSet' = StoredSet
      \/ Store /\ StoredSet' = StoredSet \cup {Head(todo)}
  BY StoredGrows
<1> USE DEF Owed, Due, InFanOut
<1>3. CASE UNCHANGED vars
  BY <1>1, <1>2, <1>3 DEF Store, PollPoints, Typed, TypeOK
<1>4. CASE PmArrives \/ ListPms \/ ListFails \/ Wake \/ ListDone
           \/ SkipSeen \/ BodyFails \/ Body
  BY <1>1, <1>2, <1>4 DEF PmArrives, ListPms, ListFails, Wake, ListDone, SkipSeen,
     BodyFails, Body, Store
<1>5. CASE Store
  <2>1. StoredSet' = StoredSet \cup {Head(todo)} /\ Head(todo) \in Pms
    BY <1>2, <1>5, StoredSame, Stored, HeadIsPm DEF Store, SeenThenStored
  <2> QED
    BY <1>1, <1>5, <2>1 DEF Store
<1>6. CASE FannedOut
  BY <1>1, <1>2, <1>6 DEF FannedOut, Store
<1>7. ASSUME NEW c \in Conns, FanOut(c) PROVE Owed'
  <2>1. Head(todo) \in Pms /\ SendMessage(c, Head(todo)) /\ UNCHANGED cancelled
    BY <1>7, HeadIsPm DEF FanOut, SeenThenStored, SendMessage, Enqueue
  <2>2. StoredSet' = StoredSet
    BY <1>2, <1>7 DEF FanOut, Store
  <2> QED
    BY <1>1, <1>7, <2>1, <2>2, CopyMore DEF FanOut, Typed
<1>8. ASSUME NEW c \in Conns, Accept(c) \/ Register(c) PROVE Owed'
  <2>1. StoredSet' = StoredSet
    BY <1>8, StoredSame DEF Accept, Register
  <2>2. CASE Accept(c)
    BY <1>1, <2>1, <2>2 DEF Accept, Typed, TypeOK
  <2>3. CASE Register(c)
    BY <1>1, <2>1, <2>3 DEF Register
  <2> QED
    BY <1>8, <2>2, <2>3
<1>9. ASSUME NEW c \in Conns, StartDump(c) PROVE Owed'
  BY <1>1, <1>2, <1>9 DEF StartDump, Store, Typed, TypeOK
<1>10. ASSUME NEW c \in Conns, SendDump(c) PROVE Owed'
  <2>1. PICK p \in pending[c] :
           SendMessage(c, p) /\ pending' = [pending EXCEPT ![c] = @ \ {p}]
    BY <1>10 DEF SendDump
  <2>2. p \in Pms /\ UNCHANGED cancelled
    BY <1>1, <2>1 DEF DumpOwes, SendMessage, Enqueue
  <2>3. StoredSet' = StoredSet
    BY <1>2, <1>10 DEF SendDump, Store
  <2> QED
    BY <1>1, <1>10, <2>1, <2>2, <2>3, CopyMore DEF SendDump, Typed, TypeOK
<1>11. ASSUME NEW c \in Conns, DumpDone(c) PROVE Owed'
  BY <1>1, <1>2, <1>11 DEF DumpDone, Store, Typed, TypeOK
<1>12. ASSUME NEW c \in Conns, ListStep(c) PROVE Owed'
  BY <1>1, <1>2, <1>12
     DEF ListStep, StartList, ListLine, ListLast, OtherTraffic, Enqueue, Store
<1>13. ASSUME NEW c \in Conns,
              Net(c, SendLoop(c)) \/ Net(c, OtherTraffic(c)) \/ Net(c, ClientLeaves(c))
       PROVE  Owed'
  <2>1. \A d \in Conns : cancelled[d] => cancelled'[d]
    BY <1>13, NetTyped DEF Net, Typed, TypeOK
  <2> QED
    BY <1>1, <1>2, <1>13, <2>1 DEF Net, Store
<1> QED
  BY <1>3, <1>4, <1>5, <1>6, <1>7, <1>8, <1>9, <1>10, <1>11, <1>12, <1>13
     DEF Next, PollerStep, PollerWork, RunStep

\* The inductive invariant holds in every state.
THEOREM Inductive == Spec => []IInv
<1>1. Init => IInv
  <2> SUFFICES ASSUME Init PROVE IInv
    OBVIOUS
  <2>1. StoredSet = {} /\ StoredOnce
    BY DEF Init, StoredSet, StoredOnce
  <2>2. LockHeld /\ SeenThenStored /\ DumpOwes /\ Owed
    BY <2>1, ConstAssumption DEF Init, LockHeld, SeenThenStored, DumpOwes, Owed
  <2> QED
    BY <2>1, <2>2, TypedInit DEF IInv, Typed
<1>2. IInv /\ [Next]_vars => IInv'
  <2>1. IInv => Typed
    BY DEF IInv, SeenThenStored, Typed, InHand
  <2> QED
    BY <2>1, TypedStep, LockHeldStep, StoredStep, DumpOwesStep, OwedStep DEF IInv, Typed
<1> QED
  BY <1>1, <1>2, PTL DEF Spec

\* A connection that was added before its dump lacks no stored message.
THEOREM EarlyConnectionsGetAll == Spec => []EarlyGetsAll
<1>1. IInv => EarlyGetsAll
  <2> SUFFICES ASSUME IInv, NEW c \in Conns, early[c], cpc[c] = "running",
                      slock = None, ~cancelled[c], NEW p \in StoredSet
               PROVE  copies[c][p] > 0
    BY DEF EarlyGetsAll
  <2>1. Due(c, p)
    BY DEF IInv, Owed
  <2>2. p \notin pending[c] /\ ~InFanOut(c, p)
    BY ConstAssumption DEF IInv, LockHeld, DumpOwes, InFanOut
  <2> QED
    BY <2>1, <2>2 DEF Due
<1> QED
  BY <1>1, Inductive, PTL

\* No message is stored twice, or under somebody else.
THEOREM EachPmStoredOnce == Spec => []StoredOnce
<1>1. IInv => StoredOnce
  BY DEF IInv
<1> QED
  BY <1>1, Inductive, PTL
-----------------------------------------------------------------------------
(* The order of the messages of one author.                                 *)
LEMMA SeqFacts == Typed => /\ Len(todo) \in Nat
                           /\ \A i \in 1..Len(todo) : todo[i] \in Pms
                           /\ todo # <<>> => Len(todo) > 0 /\ Head(todo) = todo[1]
                           /\ \A s \in Senders : /\ Len(stored[s]) \in Nat
                                                 /\ stored[s] \in Seq(Pms)
  BY DEF Typed, TypeOK

\* The message in hand may be left behind once it is seen, or was missed.
LEMMA WalkedOn ==
  ASSUME Typed, Walked, todo # <<>>, todo' = Tail(todo),
         seenPms \subseteq seenPms', missed \subseteq missed',
         Head(todo) \in seenPms' \cup missed'
  PROVE  Walked'
<1> DEFINE n == Len(todo)
<1>1. /\ n \in Nat /\ n > 0 /\ Head(todo) = todo[1]
      /\ \A i \in 1..n : todo[i] \in Nat
  BY SeqFacts DEF Pms
<1>2. Len(todo') = n - 1 /\ \A i \in 1..(n - 1) : todo'[i] = todo[i + 1]
  BY HeadTailProperties DEF Typed, TypeOK
<1>3. \A i, j \in 1..n : i < j => todo[i] < todo[j]
  BY DEF Walked
<1>4. \A i \in 1..n : \A p \in 1..todo[i] :
         p \in seenPms \cup missed \/ \E j \in 1..i : p = todo[j]
  BY DEF Walked
<1> HIDE DEF n
<1>5. \A i, j \in 1..(n - 1) : i < j => todo'[i] < todo'[j]
  <2> SUFFICES ASSUME NEW i \in 1..(n - 1), NEW j \in 1..(n - 1), i < j
               PROVE  todo'[i] < todo'[j]
    OBVIOUS
  <2>1. i + 1 \in 1..n /\ j + 1 \in 1..n /\ i + 1 < j + 1
    BY <1>1
  <2> QED
    BY <1>2, <1>3, <2>1
<1>6. ASSUME NEW i \in 1..(n - 1), NEW p \in 1..todo'[i]
      PROVE  p \in seenPms' \cup missed' \/ \E j \in 1..i : p = todo'[j]
  <2>1. i + 1 \in 1..n /\ p \in 1..todo[i + 1]
    BY <1>1, <1>2
  <2>2. CASE p \in seenPms \cup missed
    BY <2>2
  <2>3. ASSUME NEW j \in 1..(i + 1), p = todo[j]
        PROVE  p \in seenPms' \cup missed' \/ \E k \in 1..i : p = todo'[k]
    <3>1. CASE j = 1
      BY <1>1, <2>3, <3>1
    <3>2. CASE j # 1
      <4>1. PICK k : k = j - 1
        OBVIOUS
      <4>2. k \in 1..i /\ k \in 1..(n - 1) /\ j = k + 1
        BY <1>1, <3>2, <4>1
      <4> QED
        BY <1>2, <2>3, <4>2
    <3> QED
      BY <3>1, <3>2
  <2> QED
    BY <1>4, <2>1, <2>2, <2>3
<1>7. \A i, j \in 1..Len(todo') : i < j => todo'[i] < todo'[j]
  BY <1>2, <1>5
<1>8. \A i \in 1..Len(todo') : \A p \in 1..todo'[i] :
         p \in seenPms' \cup missed' \/ \E j \in 1..i : p = todo'[j]
  BY <1>2, <1>6
<1> QED
  BY <1>7, <1>8, Zenon DEF Walked

LEMMA WalkedStep == Typed /\ SeenThenStored /\ Walked /\ [Next]_vars => Walked'
<1> SUFFICES ASSUME Typed, SeenThenStored, Walked, [Next]_vars PROVE Walked'
  OBVIOUS
<1>1. CASE /\ UNCHANGED todo
           /\ seenPms \subseteq seenPms' /\ missed \subseteq missed'
  BY <1>1 DEF Walked
<1>2. CASE ListPms
  <2>1. /\ todo' \in InOrder /\ inbox \in Nat /\ UNCHANGED seenPms
        /\ Miss((1..inbox) \ ToSet(todo'))
    BY <1>2 DEF ListPms, Typed, TypeOK, Pms
  <2>2. /\ Len(todo') \in Nat /\ DOMAIN todo' = 1..Len(todo')
        /\ \A i \in 1..Len(todo') : todo'[i] \in 1..inbox
        /\ \A i, j \in 1..Len(todo') : i < j => todo'[i] < todo'[j]
    BY <2>1, OrderedList
  <2>3. ASSUME NEW i \in 1..Len(todo'), NEW p \in 1..todo'[i]
        PROVE  p \in seenPms' \cup missed' \/ \E j \in 1..i : p = todo'[j]
    <3>1. p \in 1..inbox
      BY <2>1, <2>2
    <3>2. CASE p \notin ToSet(todo')
      BY <2>1, <3>1, <3>2 DEF Miss
    <3>3. ASSUME NEW j \in 1..Len(todo'), p = todo'[j] PROVE j \in 1..i
      BY <2>1, <2>2, <3>3
    <3> QED
      BY <2>2, <3>2, <3>3 DEF ToSet
  <2> QED
    BY <2>2, <2>3 DEF Walked
<1>3. CASE SkipSeen \/ BodyFails
  BY <1>3, WalkedOn DEF SkipSeen, BodyFails
<1>4. CASE FannedOut
  BY <1>4, WalkedOn DEF FannedOut, SeenThenStored
<1> QED
  BY <1>1, <1>2, <1>3, <1>4
     DEF Next, PmArrives, PollerStep, PollerWork, ListFails, Wake, Body, Store, FanOut,
     ListDone, Accept, Register, RunStep, StartDump, SendDump, DumpDone, ListStep,
     StartList, ListLine, ListLast, Net

LEMMA SettledStep ==
  Typed /\ SeenThenStored /\ StoredOnce /\ Walked /\ Settled /\ [Next]_vars => Settled'
<1> SUFFICES ASSUME Typed, SeenThenStored, StoredOnce, Walked, Settled, [Next]_vars
             PROVE  Settled'
  OBVIOUS
<1>1. CASE Store
  <2> DEFINE p == Head(todo)
  <2>1. /\ StoredSet' = StoredSet \cup {p} /\ p \in seenPms
        /\ p \in Nat /\ \A q \in 1..(p - 1) : q \in seenPms \cup missed
    BY <1>1, Stored, SeqFacts DEF Store, SeenThenStored, Walked, Pms
  <2>2. seenPms \subseteq StoredSet \cup {p} /\ UNCHANGED <<seenPms, missed>>
    BY <1>1 DEF Settled, Store
  <2>3. \A q \in 1..(p - 1) : q \in StoredSet \cup missed
    <3> SUFFICES ASSUME NEW q \in 1..(p - 1) PROVE q \in StoredSet \cup missed
      OBVIOUS
    <3>1. q # p
      BY <2>1
    <3> QED
      BY <2>1, <2>2, <3>1
  <2> QED
    BY <2>1, <2>2, <2>3 DEF Settled
<1>2. CASE ~Store
  <2>1. StoredSet' = StoredSet /\ missed \subseteq missed'
    BY <1>2, StoredGrows
       DEF Next, PmArrives, PollerStep, PollerWork, ListPms, Miss, ListFails,
       Wake, SkipSeen, BodyFails, Body, FanOut, FannedOut, ListDone, Accept, Register, RunStep,
       StartDump, SendDump, DumpDone, ListStep, StartList, ListLine, ListLast, Net
  <2>2. CASE Body
    BY <2>1, <2>2 DEF Body, Settled
  <2>3. CASE ~Body
    <3>1. UNCHANGED seenPms
      BY <2>3, <1>2
         DEF Next, PmArrives, PollerStep, PollerWork, ListPms, ListFails, Wake,
         SkipSeen, BodyFails, FanOut, FannedOut, ListDone, Accept, Register, RunStep,
         StartDump, SendDump, DumpDone, ListStep, StartList, ListLine, ListLast, Net
    <3>2. ppc = "store" => UNCHANGED <<ppc, todo>>
      BY <1>2, <2>3
         DEF Next, PmArrives, PollerStep, PollerWork, ListPms, ListFails, Wake,
         SkipSeen, BodyFails, FanOut, FannedOut, ListDone, Accept, Register, RunStep,
         StartDump, SendDump, DumpDone, ListStep, StartList, ListLine, ListLast, Net
    <3> QED
      BY <2>1, <3>1, <3>2 DEF Settled
  <2> QED
    BY <2>2, <2>3
<1> QED
  BY <1>1, <1>2

\* What Store appends is older than a message of its author only if it was
\* missed.
LEMMA ChronologicalStep ==
  /\ Typed /\ SeenThenStored /\ StoredOnce /\ Settled
  /\ ChronologicalUnlessMissed /\ [Next]_vars
  => ChronologicalUnlessMissed'
<1> SUFFICES ASSUME Typed, SeenThenStored, StoredOnce, Settled,
                    ChronologicalUnlessMissed, [Next]_vars
             PROVE  ChronologicalUnlessMissed'
  OBVIOUS
<1>1. CASE Store
  <2> DEFINE p == Head(todo)
             s == SenderOf[p]
             n == Len(stored[s])
  <2>1. p \in Pms /\ s \in Senders /\ p \notin StoredSet /\ UNCHANGED missed
    BY <1>1, HeadIsPm, ConstAssumption DEF Store, SeenThenStored
  <2>2. /\ n \in Nat /\ stored'[s] = Append(stored[s], p)
        /\ \A t \in Senders \ {s} : stored'[t] = stored[t]
    BY <1>1, <2>1, SeqFacts DEF Store, Typed, TypeOK
  <2>3. /\ Len(stored'[s]) = n + 1 /\ stored'[s][n + 1] = p
        /\ \A i \in 1..n : stored'[s][i] = stored[s][i]
    BY <2>1, <2>2, SeqFacts, AppendProperties
  <2>4. \A i \in 1..n : stored[s][i] \in Pms /\ (stored[s][i] > p => p \in missed)
    <3> SUFFICES ASSUME NEW i \in 1..n
                 PROVE  stored[s][i] \in Pms /\ (stored[s][i] > p => p \in missed)
      OBVIOUS
    <3>1. stored[s][i] \in StoredSet /\ stored[s][i] \in Pms
      BY <2>1, SeqFacts DEF StoredSet
    <3>2. \A q \in 1..(stored[s][i] - 1) : q \in StoredSet \cup missed
      BY <3>1 DEF Settled
    <3>3. stored[s][i] > p => p \in 1..(stored[s][i] - 1)
      BY <2>1, <3>1, ConstAssumption DEF Pms
    <3> QED
      BY <2>1, <3>1, <3>2, <3>3
  <2> SUFFICES ASSUME NEW t \in Senders,
                      NEW i \in 1..Len(stored'[t]), NEW j \in 1..Len(stored'[t]),
                      i < j, stored'[t][i] > stored'[t][j]
               PROVE  stored'[t][j] \in missed'
    BY DEF ChronologicalUnlessMissed
  <2>5. CASE t # s
    BY <2>1, <2>2, <2>5 DEF ChronologicalUnlessMissed
  <2>6. CASE t = s
    <3>1. \A k, l \in 1..n : k < l /\ stored[s][k] > stored[s][l] => stored[s][l] \in missed
      BY <2>1 DEF ChronologicalUnlessMissed
    <3> HIDE DEF n, s, p
    <3>2. i \in 1..n
      BY <2>2, <2>3, <2>6
    <3>3. CASE j = n + 1
      BY <2>1, <2>3, <2>4, <2>6, <3>2, <3>3
    <3>4. CASE j \in 1..n
      BY <2>1, <2>3, <2>6, <3>1, <3>2, <3>4
    <3> QED
      BY <2>2, <2>3, <2>6, <3>3, <3>4
  <2> QED
    BY <2>5, <2>6
<1>2. CASE ~Store
  <2>1. UNCHANGED stored /\ missed \subseteq missed'
    BY <1>2
       DEF Next, PmArrives, PollerStep, PollerWork, ListPms, Miss, ListFails,
       Wake, SkipSeen, BodyFails, Body, FanOut, FannedOut, ListDone, Accept, Register, RunStep,
       StartDump, SendDump, DumpDone, ListStep, StartList, ListLine, ListLast, Net
  <2> QED
    BY <2>1 DEF ChronologicalUnlessMissed
<1> QED
  BY <1>1, <1>2

\* The messages of an author are in the order of the inbox, but for those that
\* a poll missed.
THEOREM MessagesChronological == Spec => []ChronologicalUnlessMissed
<1>1. Init => OInv
  BY DEF Init, OInv, Walked, Settled, ChronologicalUnlessMissed, StoredSet
<1>2. OInv /\ IInv /\ [Next]_vars => OInv'
  <2>1. IInv => Typed /\ SeenThenStored /\ StoredOnce
    BY DEF IInv, SeenThenStored, Typed, InHand
  <2> QED
    BY <2>1, WalkedStep, SettledStep, ChronologicalStep DEF OInv
<1>3. OInv => ChronologicalUnlessMissed
  BY DEF OInv
<1> QED
  BY <1>1, <1>2, <1>3, Inductive, PTL DEF Spec
-----------------------------------------------------------------------------
(* The server implements PmDelivery.  What is dumped and gone there:        *)
Dumped == {c \in Conns : cpc[c] \in {"dump", "running"}}
Gone == {c \in Conns : cancelled[c]}
Image == <<StoredSet, connections, Dumped, Owing, copies, Gone>>

\* With the lock free nothing is owed.
LEMMA FreeOwesNothing == IInv /\ slock = None => Owing = {}
  BY ConstAssumption DEF IInv, LockHeld, DumpOwes, Owing, InFanOut

\* A line to c that carries p pays the debt, or forgives it.
LEMMA SettlesDebt ==
  ASSUME IInv, NEW c \in Conns, NEW p \in Pms, <<c, p>> \in Owing,
         SendMessage(c, p), Owing' = Owing \ {<<c, p>>},
         UNCHANGED <<StoredSet, connections, Dumped>>
  PROVE  Delivery!Next
<1>1. UNCHANGED Gone
  BY DEF SendMessage, Enqueue, Gone
<1>2. CASE Message(c, p)
  BY <1>1, <1>2 DEF Message, Delivery!Pay, Delivery!Next, Dumped, Gone
<1>3. CASE cancelled[c] /\ UNCHANGED copies
  BY <1>1, <1>3 DEF Delivery!Forgive, Delivery!Next, Dumped, Gone
<1> QED
  BY <1>2, <1>3 DEF SendMessage, Enqueue

\* Under the lock, and in the queues, every step of the server is a step of one
\* delivery, or nothing that a client would see.
LEMMA StepDelivers == IInv /\ IInv' /\ [Next]_vars => [Delivery!Next]_(Delivery!vars)
<1> SUFFICES ASSUME IInv, IInv', [Next]_vars
             PROVE  Delivery!Next \/ UNCHANGED Image
  BY DEF Delivery!vars, Image, Dumped, Gone
<1>1. Typed /\ StoredOnce /\ SeenThenStored
  BY DEF IInv, SeenThenStored, Typed, InHand
<1>2. \/ StoredSet' = StoredSet
      \/ Store /\ StoredSet' = StoredSet \cup {Head(todo)}
  BY <1>1, StoredGrows
<1> USE DEF Image
<1>3. CASE UNCHANGED vars \/ PmArrives \/ ListPms \/ ListFails \/ Wake \/ ListDone
           \/ SkipSeen \/ BodyFails \/ Body
  <2>1. UNCHANGED <<stored, connections, cpc, copies, cancelled, pending>>
    BY <1>3 DEF PmArrives, ListPms, ListFails, Wake, ListDone, SkipSeen, BodyFails, Body
  <2>2. Owing' = Owing
    BY <1>3, <2>1 DEF PmArrives, ListPms, ListFails, Wake, ListDone, SkipSeen, BodyFails,
       Body, Owing, InFanOut
  <2> QED
    BY <2>1, <2>2, StoredSame DEF Dumped, Gone
<1>4. CASE Store
  <2> DEFINE p == Head(todo)
  <2>1. p \in Pms /\ p \notin StoredSet /\ StoredSet' = StoredSet \cup {p}
    BY <1>1, <1>4, HeadIsPm, Stored DEF Store, SeenThenStored
  <2>2. Owing = {}
    BY <1>4, FreeOwesNothing DEF Store, Free
  <2>3. Owing' = connections \X {p}
    BY <1>4, <2>1, <2>2 DEF Store, Owing, InFanOut, IInv, TypeOK
  <2>4. Delivery!Learn(p)
    BY <1>4, <2>1, <2>2, <2>3 DEF Store, Delivery!Learn, Dumped, Gone
  <2> QED
    BY <2>1, <2>4 DEF Delivery!Next
<1>5. ASSUME NEW c \in Conns, FanOut(c) PROVE Delivery!Next
  <2> DEFINE p == Head(todo)
  <2>1. p \in Pms /\ \A d \in Conns : pending[d] = {}
    BY <1>1, <1>5, HeadIsPm, ConstAssumption
       DEF FanOut, SeenThenStored, IInv, LockHeld, DumpOwes
  <2>2. <<c, p>> \in Owing /\ Owing' = Owing \ {<<c, p>>}
    BY <1>5, <2>1 DEF FanOut, Owing, InFanOut
  <2>3. UNCHANGED <<StoredSet, connections, Dumped>>
    BY <1>5, StoredSame DEF FanOut, Dumped
  <2> QED
    BY <1>5, <2>1, <2>2, <2>3, SettlesDebt DEF FanOut
<1>6. CASE FannedOut
  <2>1. UNCHANGED <<stored, connections, cpc, copies, cancelled, pending>>
    BY <1>6 DEF FannedOut
  <2>2. Owing' = Owing
    BY <1>6, <2>1 DEF FannedOut, Owing, InFanOut
  <2> QED
    BY <2>1, <2>2, StoredSame DEF Dumped, Gone
<1>7. ASSUME NEW c \in Conns, Accept(c) PROVE UNCHANGED Image
  <2>1. Dumped' = Dumped
    BY <1>7 DEF Accept, Dumped, IInv, TypeOK
  <2>2. Owing' = Owing /\ Gone' = Gone
    BY <1>7 DEF Accept, Owing, InFanOut, Gone
  <2> QED
    BY <1>7, <2>1, <2>2, StoredSame DEF Accept
<1>8. ASSUME NEW c \in Conns, Register(c) PROVE Delivery!Next
  <2>1. Owing = {} /\ Owing' = Owing
    BY <1>8, FreeOwesNothing DEF Register, Free, Owing, InFanOut
  <2>2. UNCHANGED <<Dumped, Gone, copies, StoredSet>>
    BY <1>8, StoredSame DEF Register, Dumped, Gone
  <2>3. Delivery!Join(c)
    BY <1>8, <2>1, <2>2 DEF Register, Delivery!Join, Dumped, Gone
  <2> QED
    BY <2>3 DEF Delivery!Next
<1>9. ASSUME NEW c \in Conns, StartDump(c) PROVE Delivery!Next
  <2>1. Owing = {}
    BY <1>9, FreeOwesNothing DEF StartDump, Free
  <2>2. c \notin Dumped /\ Dumped' = Dumped \cup {c}
    BY <1>9 DEF StartDump, Dumped, IInv, TypeOK
  <2>3. Owing' = {c} \X StoredSet
    <3>1. StoredSet \subseteq Pms
      BY DEF StoredSet
    <3>2. \A d \in Conns : pending'[d] = IF d = c THEN StoredSet ELSE pending[d]
      BY <1>9 DEF StartDump, IInv, TypeOK
    <3>3. \A d \in Conns, p \in Pms : ~InFanOut(d, p) /\ p \notin pending[d]
      <4> SUFFICES ASSUME NEW d \in Conns, NEW p \in Pms,
                          InFanOut(d, p) \/ p \in pending[d]
                   PROVE  <<d, p>> \in Owing
        BY <2>1
      <4> QED
        BY DEF Owing
    <3>4. \A d \in Conns, p \in Pms : ~InFanOut(d, p)'
      BY <1>9, <3>3 DEF StartDump, InFanOut
    <3> QED
      BY <3>1, <3>2, <3>3, <3>4 DEF Owing
  <2>4. UNCHANGED <<Gone, copies, connections, StoredSet>>
    BY <1>9, StoredSame DEF StartDump, Gone
  <2>5. Delivery!Dump(c)
    BY <2>1, <2>2, <2>3, <2>4 DEF Delivery!Dump, Dumped, Gone
  <2> QED
    BY <2>5 DEF Delivery!Next
<1>10. ASSUME NEW c \in Conns, SendDump(c) PROVE Delivery!Next
  <2>1. PICK p \in pending[c] :
           SendMessage(c, p) /\ pending' = [pending EXCEPT ![c] = @ \ {p}]
    BY <1>10 DEF SendDump
  <2>2. p \in Pms /\ <<c, p>> \in Owing
    BY <2>1 DEF Owing, IInv, TypeOK
  <2>3. Owing' = Owing \ {<<c, p>>}
    <3>1. \A d \in Conns, q \in Pms : ~InFanOut(d, q) /\ ~InFanOut(d, q)'
      BY <1>10, ConstAssumption DEF SendDump, InFanOut, IInv, LockHeld
    <3>2. \A d \in Conns : pending'[d] = IF d = c THEN pending[d] \ {p} ELSE pending[d]
      BY <2>1 DEF IInv, TypeOK
    <3>3. Owing = {d \in Conns \X Pms : d[2] \in pending[d[1]]}
      BY <3>1 DEF Owing
    <3>4. Owing' = {d \in Conns \X Pms : d[2] \in pending'[d[1]]}
      BY <3>1 DEF Owing
    <3>5. \A d \in Conns, q \in Pms :
             q \in pending'[d] <=> q \in pending[d] /\ <<d, q>> # <<c, p>>
      BY <3>2
    <3> QED
      BY <3>3, <3>4, <3>5
  <2>4. UNCHANGED <<StoredSet, connections, Dumped>>
    BY <1>10, StoredSame DEF SendDump, Dumped, IInv, TypeOK
  <2> QED
    BY <2>1, <2>2, <2>3, <2>4, SettlesDebt
<1>11. ASSUME NEW c \in Conns, DumpDone(c) PROVE UNCHANGED Image
  <2>1. Dumped' = Dumped
    BY <1>11 DEF DumpDone, Dumped, IInv, TypeOK
  <2>2. Owing' = Owing /\ Gone' = Gone
    BY <1>11 DEF DumpDone, Owing, InFanOut, Gone
  <2> QED
    BY <1>11, <2>1, <2>2, StoredSame DEF DumpDone
<1>12. ASSUME NEW c \in Conns, ListStep(c) PROVE UNCHANGED Image
  BY <1>12, StoredSame DEF ListStep, StartList, ListLine, ListLast, OtherTraffic, Enqueue,
     Dumped, Owing, InFanOut, Gone
<1>13. ASSUME NEW c \in Conns,
              Net(c, SendLoop(c)) \/ Net(c, OtherTraffic(c)) \/ Net(c, ClientLeaves(c))
       PROVE  Delivery!Next \/ UNCHANGED Image
  <2>1. UNCHANGED <<StoredSet, connections, Dumped, Owing, copies>>
    BY <1>13, StoredSame DEF Net, Dumped, Owing, InFanOut
  <2>2. CASE cancelled' = [cancelled EXCEPT ![c] = TRUE]
    <3>1. Gone' = Gone \cup {c}
      BY <2>2 DEF Gone, IInv, TypeOK, QueueTypes
    <3>2. Delivery!Leave(c)
      BY <2>1, <3>1 DEF Delivery!Leave, Dumped, Gone
    <3> QED
      BY <3>2 DEF Delivery!Next
  <2>3. CASE UNCHANGED cancelled
    BY <2>1, <2>3 DEF Gone
  <2> QED
    BY <1>13, <2>2, <2>3
       DEF Net, SendLoop, Copied, CopyFails, OtherTraffic, Enqueue, ClientLeaves
<1> QED
  BY <1>3, <1>4, <1>5, <1>6, <1>7, <1>8, <1>9, <1>10, <1>11, <1>12, <1>13
     DEF Next, PollerStep, PollerWork, RunStep

\* The detailed specification implements the abstract one.
THEOREM ServerDelivers == Spec => Delivered
<1>1. Init => Delivery!Init
  <2> SUFFICES ASSUME Init PROVE Delivery!Init
    OBVIOUS
  <2>1. StoredSet = {}
    BY DEF Init, StoredSet
  <2>2. Owing = {}
    BY DEF Init, Owing, InFanOut
  <2> QED
    BY <2>1, <2>2 DEF Init, QueueInit, Delivery!Init
<1> QED
  BY <1>1, StepDelivers, Inductive, PTL DEF Spec, Delivered, Delivery!Spec

\* A message is delivered to everybody once, and each connection has one dump.
Counted == Delivery!Types /\ Delivery!Accounted

\* Whatever makes its deliveries as PmDelivery says sends no message three times.
THEOREM DeliveriesCounted == Delivery!Spec => []Delivery!AtMostTwice
<1>1. Delivery!Init => Counted
  BY DEF Counted, Delivery!Init, Delivery!Types, Delivery!Accounted
<1>2. Counted /\ [Delivery!Next]_(Delivery!vars) => Counted'
  <2> SUFFICES ASSUME Counted, [Delivery!Next]_(Delivery!vars) PROVE Counted'
    OBVIOUS
  <2> USE DEF Counted, Delivery!Types, Delivery!Accounted
  <2>1. ASSUME NEW p \in Pms, Delivery!Learn(p) PROVE Counted'
    BY <2>1 DEF Delivery!Learn
  <2>2. ASSUME NEW c \in Conns, Delivery!Join(c) \/ Delivery!Leave(c) PROVE Counted'
    BY <2>2 DEF Delivery!Join, Delivery!Leave
  <2>3. ASSUME NEW c \in Conns, Delivery!Dump(c) PROVE Counted'
    BY <2>3 DEF Delivery!Dump
  <2>4. ASSUME NEW c \in Conns, NEW p \in Pms, Delivery!Pay(c, p) PROVE Counted'
    <3>1. [copies[c] EXCEPT ![p] = copies[c][p] + 1] \in [Pms -> Nat]
      OBVIOUS
    <3>2. copies' = [copies EXCEPT ![c] = [copies[c] EXCEPT ![p] = copies[c][p] + 1]]
      BY <2>4 DEF Delivery!Pay
    <3>3. Delivery!Types'
      BY <2>4, <3>1, <3>2 DEF Delivery!Pay
    <3>4. \A d \in Conns, q \in Pms :
             copies'[d][q] = IF <<d, q>> = <<c, p>> THEN copies[d][q] + 1 ELSE copies[d][q]
      BY <3>2
    <3> QED
      BY <2>4, <3>3, <3>4 DEF Delivery!Pay
  <2>5. ASSUME NEW c \in Conns, NEW p \in Pms, Delivery!Forgive(c, p) PROVE Counted'
    BY <2>5 DEF Delivery!Forgive
  <2>6. CASE UNCHANGED Delivery!vars
    BY <2>6 DEF Delivery!vars
  <2> QED
    BY <2>1, <2>2, <2>3, <2>4, <2>5, <2>6 DEF Delivery!Next
<1>3. Counted => Delivery!AtMostTwice
  BY DEF Counted, Delivery!Types, Delivery!Accounted, Delivery!AtMostTwice
<1> QED
  BY <1>1, <1>2, <1>3, PTL DEF Delivery!Spec

\* Hence no client is sent a message three times.
THEOREM NobodyGetsThree == Spec => []Delivery!AtMostTwice
  BY ServerDelivers, DeliveriesCounted, PTL DEF Delivered
=============================================================================
