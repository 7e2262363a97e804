------------------------ MODULE ThreadChannelProofs ------------------------
(* Theorems about ThreadChannel, for any connections, posts, pages and     *)
(* queue capacity.                                                         *)
EXTENDS ThreadChannelInvariant, ClientQueueProofs, SequenceTheorems, TLAPS

\* Names of tuples of variables and of the frames that actions share.
USE DEF feed, threadVars, taking, loop, pollVars, listing, replaying, recvVars,
        view, sent, queueVars, vars, Poll, Goto, StartRange, Recv, Quiet, Own,
        Acquire, Command, Send, Looping, InJoin, InWho
-----------------------------------------------------------------------------
(* Types.  TypeOK alone is not inductive: that copies keeps its type needs  *)
(* the indices of mirrored and replayed posts to stay inside the slice, and *)
(* announced needs cur to be an author while it is broadcast.               *)
Typed == TypeOK /\ Indices

LEMMA TypedInit == Init => Typed
<1> SUFFICES ASSUME Init PROVE Typed
  OBVIOUS
<1>1. ThreadTypes
  <2>1. listening \in BOOLEAN /\ alive \in BOOLEAN
    BY Zenon DEF Init
  <2> QED
    BY <2>1 DEF Init, ThreadTypes
<1>2. PollerTypes
  BY DEF Init, PollerTypes, PollPoints
<1>3. ConnTypes
  BY ConstAssumption DEF Init, ConnTypes, ConnPoints
<1>4. SentTypes
  BY QueueInitTyped DEF Init, SentTypes
<1>5. Indices
  BY DEF Init, Indices
<1> QED
  BY <1>1, <1>2, <1>3, <1>4, <1>5 DEF Typed, TypeOK

\* Lines keep the type of what the clients know.
LEMMA SayTyped ==
  ASSUME NEW c \in Conns, SentTypes
  PROVE  /\ Say(c, OwnJoin(c)) => SentTypes'
         /\ Say(c, Other) => SentTypes'
         /\ \A a \in Authors : Say(c, Author(c, a)) => SentTypes'
         /\ \A p \in Posts : Say(c, Post(c, p)) => SentTypes'
<1> USE DEF Say, Enqueue
<1>1. Say(c, OwnJoin(c)) => SentTypes'
  <2>1. [p \in Posts |-> 0] \in [Posts -> Nat]
    OBVIOUS
  <2> QED
    BY <2>1, PutTyped DEF OwnJoin, SentTypes
<1>2. Say(c, Other) => SentTypes'
  BY PutTyped DEF Other, SentTypes
<1>3. ASSUME NEW a \in Authors, Say(c, Author(c, a)) PROVE SentTypes'
  BY PutTyped, <1>3 DEF Author, SentTypes
<1>4. ASSUME NEW p \in Posts, Say(c, Post(c, p)) PROVE SentTypes'
  <2>1. QueueTypes'
    BY <1>4, PutTyped DEF SentTypes
  <2>2. CASE UNCHANGED view
    BY <2>1, <2>2 DEF SentTypes
  <2>3. CASE Post(c, p)
    <3>1. copies[c] \in [Posts -> Nat] /\ copies[c][p] \in Nat
      BY DEF SentTypes
    <3>2. [copies[c] EXCEPT ![p] = copies[c][p] + 1] \in [Posts -> Nat]
      BY <3>1
    <3>3. copies' = [copies EXCEPT ![c] = [copies[c] EXCEPT ![p] = copies[c][p] + 1]]
      BY <2>3 DEF Post
    <3>4. copies' \in [Conns -> [Posts -> Nat]]
      BY <3>2, <3>3 DEF SentTypes
    <3> QED
      BY <2>1, <2>3, <3>4 DEF SentTypes, Post
  <2> QED
    BY <1>4, <2>2, <2>3
<1> QED
  BY <1>1, <1>2, <1>3, <1>4

LEMMA TypedStep == Typed /\ [Next]_vars => Typed'
<1> (UNCHANGED sent) /\ SentTypes => SentTypes'
  BY DEF SentTypes, QueueTypes
<1> USE DEF Typed, TypeOK, ThreadTypes, PollerTypes, ConnTypes, PollPoints,
            ConnPoints, Indices
<1> SUFFICES ASSUME Typed, [Next]_vars PROVE Typed'
  OBVIOUS
<1>1. CASE UNCHANGED vars
  BY <1>1
<1>2. CASE Running(PollerStep)
  <2> alive' = alive
    BY <1>2 DEF Running
  <2>1. CASE Fetch
    <3>1. batch' \in Seq(Posts)
      BY <2>1, ConstAssumption DEF Fetch
    <3>2. Indices'
      BY <2>1 DEF Fetch
    <3> QED
      <4>1. PollerTypes'
        BY <2>1, <3>1 DEF Fetch
      <4>2. ThreadTypes' /\ ConnTypes' /\ SentTypes'
        BY <2>1 DEF Fetch
      <4> QED
        BY <3>2, <4>1, <4>2
  <2>2. CASE FetchFails \/ Wake \/ TakenIn \/ AnnouncedAll \/ MirroredAll
    BY <2>2 DEF FetchFails, Wake, TakenIn, AnnouncedAll, MirroredAll
  <2>3. CASE SkipSeen
    <3>1. batch' \in Seq(Posts)
      BY <2>3, HeadTailProperties DEF SkipSeen
    <3> QED
      BY <2>3, <3>1 DEF SkipSeen
  <2>4. CASE TakeAuthor
    <3>1. Head(batch) \in Posts
      BY <2>4, HeadTailProperties DEF TakeAuthor
    <3>2. AuthorOf[Head(batch)] \in Authors
      BY <3>1, ConstAssumption
    <3>3. joined' \subseteq Authors /\ authors' \subseteq Authors /\ seen' \subseteq Posts
      BY <2>4, <3>1, <3>2 DEF TakeAuthor
    <3> QED
      BY <2>4, <3>3 DEF TakeAuthor
  <2>5. CASE AppendPost
    <3>1. batch # <<>>
      BY <2>5 DEF AppendPost
    <3>2. Head(batch) \in Posts /\ batch' \in Seq(Posts)
      BY <2>5, <3>1, HeadTailProperties DEF AppendPost
    <3>3. posts' \in Seq(Posts) /\ Len(posts') = Len(posts) + 1
      BY <2>5, <3>2, AppendProperties DEF AppendPost
    <3>4. Indices'
      BY <2>5, <3>3 DEF AppendPost
    <3> QED
      BY <2>5, <3>2, <3>3, <3>4 DEF AppendPost
  <2>6. CASE AnnounceNext
    BY <2>6, ConstAssumption DEF AnnounceNext
  <2>7. CASE MirrorNext
    BY <2>7 DEF MirrorNext
  <2>8. ASSUME NEW c \in Conns, Visit(c) PROVE Typed'
    BY <2>8 DEF Visit
  <2>9. ASSUME NEW c \in Conns, SendToTarget(c) PROVE Typed'
    <3>1. SentTypes'
      <4>1. CASE ppc = "joinIter"
        BY <2>9, <4>1, SayTyped DEF SendToTarget
      <4>2. CASE ppc = "mirrorIter"
        <5>1. posts[at] \in Posts
          BY <4>2
        <5> QED
          BY <2>9, <4>2, <5>1, SayTyped DEF SendToTarget
      <4> QED
        BY <2>9, <4>1, <4>2 DEF SendToTarget
    <3> QED
      BY <2>9, <3>1 DEF SendToTarget
  <2>10. CASE RangeDone
    <3>1. CASE ppc = "joinIter"
      BY <2>10, <3>1 DEF RangeDone
    <3>2. CASE ppc = "mirrorIter"
      <4>1. Indices'
        BY <2>10, <3>2 DEF RangeDone
      <4>2. PollerTypes'
        BY <2>10, <3>2 DEF RangeDone
      <4>3. ThreadTypes'
        BY <2>10, <3>2 DEF RangeDone
      <4> QED
        BY <2>10, <3>2, <4>1, <4>2, <4>3 DEF RangeDone
    <3> QED
      BY <2>10, <3>1, <3>2 DEF RangeDone
  <2> QED
    BY <1>2, <2>1, <2>2, <2>3, <2>4, <2>5, <2>6, <2>7, <2>8, <2>9, <2>10
    DEF Running, PollerStep, PollerWork
<1>3. ASSUME NEW c \in Conns, Running(CommandStep(c)) PROVE Typed'
  <2>1. cmds' \in [Conns -> 0..MaxCmds]
    <3>1. cmds[c] < MaxCmds /\ cmds' = [cmds EXCEPT ![c] = @ + 1]
      BY <1>3 DEF Running, CommandStep, JoinCommand, PartCommand, WhoCommand
    <3>2. cmds \in [Conns -> 0..MaxCmds] /\ MaxCmds \in Nat
      BY ConstAssumption
    <3>3. cmds[c] + 1 \in 0..MaxCmds
      BY <3>1, <3>2
    <3> HIDE DEF Typed
    <3> QED
      BY <3>1, <3>2, <3>3
  <2> QED
    <3>1. ConnTypes'
      BY <1>3, <2>1 DEF Running, CommandStep, JoinCommand, PartCommand, WhoCommand
    <3>2. UNCHANGED <<threadVars, pollVars, sent, replaying, alive>>
      BY <1>3 DEF Running, CommandStep, JoinCommand, PartCommand, WhoCommand
    <3>3. ThreadTypes' /\ PollerTypes' /\ SentTypes'
      BY <3>2
    <3>4. Indices'
      BY <3>2
    <3> QED
      BY <3>1, <3>3, <3>4
<1>4. ASSUME NEW c \in Conns, Running(ReceiveStep(c)) PROVE Typed'
  <2> alive' = alive
    BY <1>4 DEF Running
  <2>1. CASE StartListener(c)
    <3>1. listening' = TRUE
      BY <2>1, Zenon DEF StartListener
    <3>2. mine' \in [Conns -> BOOLEAN]
      BY <2>1 DEF StartListener
    <3>3. PollerTypes' /\ Indices'
      BY <2>1 DEF StartListener
    <3>4. ConnTypes' /\ SentTypes'
      BY <2>1, <3>2 DEF StartListener
    <3>5. seen' \subseteq Posts /\ authors' \subseteq Authors
      BY <2>1 DEF StartListener
    <3> QED
      BY <2>1, <3>1, <3>3, <3>4, <3>5 DEF StartListener
  <2>2. CASE Subscribe(c)
    BY <2>2 DEF Subscribe
  <2>3. CASE SendSelf(c)
    <3>1. SentTypes'
      BY <2>3, SayTyped DEF SendSelf
    <3> QED
      BY <2>3, <3>1 DEF SendSelf
  <2>4. CASE SendTopic(c)
    <3>1. SentTypes'
      BY <2>4, SayTyped DEF SendTopic
    <3> QED
      BY <2>4, <3>1 DEF SendTopic, StartListing
  <2>5. CASE SendName(c)
    <3>1. PICK a \in authors \ named[c] :
             /\ \/ Send(c, "names", "names", Author(c, a))
                \/ Send(c, "who", "who", Other)
             /\ named' = [named EXCEPT ![c] = @ \cup {a}]
      BY <2>5 DEF SendName
    <3>2. SentTypes'
      BY <3>1, SayTyped
    <3>3. ConnTypes'
      BY <2>5, <3>1 DEF SendName
    <3>4. UNCHANGED <<threadVars, pollVars, rlim>>
      BY <2>5 DEF SendName
    <3> QED
      BY <3>2, <3>3, <3>4
  <2>6. CASE NamesDone(c)
    <3>1. cpc' \in [Conns -> ConnPoints]
      BY <2>6 DEF NamesDone
    <3> QED
      <4>1. ThreadTypes' /\ PollerTypes' /\ SentTypes' /\ Indices'
        <5>1. UNCHANGED <<threadVars, pollVars, sent, replaying>>
          BY <2>6 DEF NamesDone
        <5> QED
          BY <5>1
      <4>2. ConnTypes'
        BY <2>6, <3>1 DEF NamesDone
      <4> QED
        BY <4>1, <4>2
  <2>7. CASE SendEndOfNames(c)
    <3>1. SentTypes'
      BY <2>7, SayTyped DEF SendEndOfNames
    <3> QED
      BY <2>7, <3>1, SMTT(30) DEF SendEndOfNames
  <2>8. CASE ReplayPost(c)
    <3>1. posts[rnext[c]] \in Posts
      BY <2>8 DEF ReplayPost
    <3>2. SentTypes'
      BY <2>8, <3>1, SayTyped DEF ReplayPost
    <3>3. /\ UNCHANGED <<threadVars, pollVars, mine, cmds, listing, rlim, cpc>>
          /\ rnext' = [rnext EXCEPT ![c] = @ + 1]
      BY <2>8 DEF ReplayPost
    <3>4. rnext' \in [Conns -> Nat \ {0}]
      BY <3>3
    <3> QED
      BY <3>2, <3>3, <3>4
  <2>9. CASE ReplayDone(c)
    <3>1. ConnTypes'
      BY <2>9 DEF ReplayDone
    <3>2. Indices'
      BY <2>9 DEF ReplayDone
    <3> QED
      BY <2>9, <3>1, <3>2 DEF ReplayDone
  <2>10. CASE Unsubscribe(c)
    BY <2>10 DEF Unsubscribe
  <2>11. CASE SendPart(c)
    <3>1. SentTypes'
      BY <2>11, SayTyped DEF SendPart
    <3>2. /\ UNCHANGED <<threadVars, pollVars, mine, cmds, listing, replaying>>
          /\ cpc' = [cpc EXCEPT ![c] = "idle"]
      BY <2>11 DEF SendPart
    <3> QED
      BY <3>1, <3>2, SMTT(30)
  <2>12. CASE WhoLock(c)
    BY <2>12 DEF WhoLock, StartListing
  <2>13. CASE SendEndOfWho(c)
    <3>1. SentTypes'
      BY <2>13, SayTyped DEF SendEndOfWho
    <3> QED
      BY <2>13, <3>1 DEF SendEndOfWho
  <2> QED
    BY <1>4, <2>1, <2>2, <2>3, <2>4, <2>5, <2>6, <2>7, <2>8, <2>9, <2>10, <2>11,
       <2>12, <2>13 DEF Running, ReceiveStep, JoinStep
<1>5. ASSUME NEW c \in Conns,
             \/ Running(SendStep(c)) \/ Running(Net(OtherTraffic(c)))
             \/ Running(Net(ClientLeaves(c))) \/ Dies(c)
      PROVE  Typed'
  <2>1. UNCHANGED <<threadVars, pollVars, recvVars, view>>
    BY <1>5 DEF Running, SendStep, Net, Dies
  <2>2. alive' \in BOOLEAN
    BY <1>5, Zenon DEF Running, Dies
  <2>3. QueueTypes'
    BY <1>5, NetTyped DEF Running, SendStep, Net, Dies, SentTypes, QueueTypes
  <2> QED
    BY <2>1, <2>2, <2>3 DEF SentTypes
<1> QED
  BY <1>1, <1>2, <1>3, <1>4, <1>5 DEF Next

\* No variable ever leaves its type, whatever the instance: in particular no
\* queue overflows and every index the poller and the JOINs use is inside the
\* slice of posts.
THEOREM TypeCorrect == Spec => []TypeOK
<1>1. Typed => TypeOK
  BY DEF Typed
<1> QED
  BY <1>1, TypedInit, TypedStep, PTL DEF Spec
-----------------------------------------------------------------------------
(* What the steps of each goroutine leave alone.                            *)
LEMMA PollerFrame ==
  Running(PollerStep) =>
    UNCHANGED <<lock, listening, subscribers, recvVars, open, cancelled, alive>>
  BY DEF Say, Enqueue, Running, PollerStep, PollerWork, Fetch, FetchFails, Wake, SkipSeen,
     TakeAuthor, AppendPost, TakenIn, AnnounceNext, AnnouncedAll, MirrorNext,
     MirroredAll, Visit, SendToTarget, RangeDone

LEMMA CommandFrame ==
  ASSUME NEW c \in Conns, Running(CommandStep(c))
  PROVE  /\ UNCHANGED <<threadVars, pollVars, mine, listing, replaying, sent>>
         /\ cpc[c] = "idle"
         /\ \E to \in {"listen", "part", "noton", "wholock"} :
               /\ cpc' = [cpc EXCEPT ![c] = to]
               /\ to = "listen" => ~mine[c]
               /\ to = "part" => mine[c]
  BY DEF Running, CommandStep, JoinCommand, PartCommand, WhoCommand

\* A receive loop starts the poller or leaves what the poller writes alone.
LEMMA ReceiveFrame ==
  ASSUME NEW c \in Conns, Running(ReceiveStep(c))
  PROVE  /\ UNCHANGED <<posts, taking, cur, target, open, cancelled>>
         /\ StartListener(c) \/ UNCHANGED <<listening, seen, authors, ppc>>
  BY DEF Say, Enqueue, Running, ReceiveStep, JoinStep, StartListener, Subscribe,
     SendSelf, SendTopic, SendName, NamesDone, SendEndOfNames, ReplayPost,
     ReplayDone, Unsubscribe, SendPart, WhoLock, SendEndOfWho

NetStep(c) ==
  \/ Running(SendStep(c)) \/ Running(Net(OtherTraffic(c)))
  \/ Running(Net(ClientLeaves(c))) \/ Dies(c)

\* The network moves lines and cancels contexts; it never revives one.
LEMMA NetFrame ==
  ASSUME NEW c \in Conns, NetStep(c), Typed
  PROVE  /\ UNCHANGED <<threadVars, pollVars, recvVars, view>>
         /\ \A d \in Conns : cancelled[d] => cancelled'[d]
<1>1. UNCHANGED <<threadVars, pollVars, recvVars, view>>
  BY DEF NetStep, Running, SendStep, Net, Dies
<1>2. CASE Dies(c)
  BY <1>1, <1>2 DEF Dies
<1>3. CASE SendLoop(c) \/ OtherTraffic(c) \/ ClientLeaves(c)
  BY <1>1, <1>3, NetTyped DEF Typed, TypeOK, SentTypes
<1> QED
  BY <1>2, <1>3 DEF NetStep, Running, SendStep, Net

LEMMA StepKinds ==
  ASSUME Next
  PROVE  \/ Running(PollerStep)
         \/ \E c \in Conns : \/ Running(CommandStep(c)) \/ Running(ReceiveStep(c))
                             \/ NetStep(c)
  BY DEF Next, NetStep
-----------------------------------------------------------------------------
(* The lock and the two-sided mapping.                                      *)
LEMMA LockHeldStep ==
  ASSUME Typed, LockHeld, [Next]_vars
  PROVE  LockHeld'
<1> USE DEF Typed, TypeOK, ThreadTypes, ConnTypes, ConnPoints, LockHeld
<1>1. CASE UNCHANGED vars
  BY <1>1
<1>2. CASE Running(PollerStep)
  BY <1>2, PollerFrame
<1>3. ASSUME NEW c \in Conns, Running(CommandStep(c)) PROVE LockHeld'
  BY <1>3, CommandFrame
<1>4. ASSUME NEW c \in Conns, Running(ReceiveStep(c)) PROVE LockHeld'
  <2>1. CASE Subscribe(c) \/ WhoLock(c)
    BY <2>1, ConstAssumption DEF Subscribe, WhoLock
  <2>2. CASE ReplayDone(c) \/ SendEndOfWho(c)
    <3>1. /\ cpc[c] \in {"replay", "endwho"} /\ cpc' = [cpc EXCEPT ![c] = "idle"]
          /\ lock' = None
      BY <2>2 DEF ReplayDone, SendEndOfWho
    <3> QED
      BY <3>1, ConstAssumption
  <2>3. CASE \/ StartListener(c) \/ Unsubscribe(c) \/ SendPart(c)
    BY <2>3 DEF StartListener, Unsubscribe, SendPart
  <2>4. CASE \/ SendSelf(c) \/ SendTopic(c) \/ SendName(c) \/ NamesDone(c)
             \/ SendEndOfNames(c) \/ ReplayPost(c)
    BY <2>4 DEF SendSelf, SendTopic, SendName, NamesDone, SendEndOfNames, ReplayPost
  <2> QED
    BY <1>4, <2>1, <2>2, <2>3, <2>4 DEF Running, ReceiveStep, JoinStep
<1>5. ASSUME NEW c \in Conns, NetStep(c) PROVE LockHeld'
  BY <1>5, NetFrame
<1> QED
  BY <1>1, <1>2, <1>3, <1>4, <1>5, StepKinds

LEMMA MembershipStep ==
  ASSUME Typed, Membership, [Next]_vars
  PROVE  Membership'
<1> USE DEF Typed, TypeOK, ThreadTypes, ConnTypes, ConnPoints, Membership
<1>1. CASE UNCHANGED vars
  BY <1>1
<1>2. CASE Running(PollerStep)
  BY <1>2, PollerFrame
<1>3. ASSUME NEW c \in Conns, Running(CommandStep(c)) PROVE Membership'
  BY <1>3, CommandFrame
<1>4. ASSUME NEW c \in Conns, Running(ReceiveStep(c)) PROVE Membership'
  <2>1. CASE StartListener(c)
    BY <2>1 DEF StartListener
  <2>2. CASE Subscribe(c)
    BY <2>2 DEF Subscribe
  <2>3. CASE Unsubscribe(c)
    BY <2>3 DEF Unsubscribe
  <2>4. CASE ReplayDone(c) \/ WhoLock(c) \/ SendEndOfWho(c) \/ SendPart(c)
    BY <2>4 DEF ReplayDone, WhoLock, SendEndOfWho, SendPart
  <2>5. CASE \/ SendSelf(c) \/ SendTopic(c) \/ SendName(c) \/ NamesDone(c)
             \/ SendEndOfNames(c) \/ ReplayPost(c)
    BY <2>5 DEF SendSelf, SendTopic, SendName, NamesDone, SendEndOfNames, ReplayPost
  <2> QED
    BY <1>4, <2>1, <2>2, <2>3, <2>4, <2>5 DEF Running, ReceiveStep, JoinStep
<1>5. ASSUME NEW c \in Conns, NetStep(c) PROVE Membership'
  BY <1>5, NetFrame
<1> QED
  BY <1>1, <1>2, <1>3, <1>4, <1>5, StepKinds
-----------------------------------------------------------------------------
(* What the poller takes in.                                                *)
LEMMA TakenInStep ==
  ASSUME Typed, TakenIn1, [Next]_vars
  PROVE  TakenIn1'
<1> USE DEF Typed, TypeOK, ThreadTypes, PollerTypes, TakenIn1, TakenInOnce
<1>1. CASE UNCHANGED vars
  BY <1>1
<1>2. CASE Running(PollerStep)
  <2>1. CASE AppendPost
    <3>1. batch # <<>> /\ Head(batch) \in Posts
      BY <2>1, HeadTailProperties DEF AppendPost, Indices
    <3>2. /\ Len(posts') = Len(posts) + 1
          /\ \A i \in 1..Len(posts) : posts'[i] = posts[i]
          /\ posts'[Len(posts) + 1] = Head(batch)
      BY <2>1, <3>1, AppendProperties DEF AppendPost
    <3> QED
      BY <2>1, <3>2 DEF AppendPost
  <2>2. CASE TakeAuthor
    BY <2>2 DEF TakeAuthor
  <2>3. CASE SkipSeen
    BY <2>3 DEF SkipSeen
  <2>4. CASE UNCHANGED <<seen, posts>> /\ ppc' # "append"
    BY <2>4
  <2> QED
    BY <1>2, <2>1, <2>2, <2>3, <2>4 DEF Running, PollerStep, PollerWork, Fetch,
       FetchFails, Wake, TakenIn, AnnounceNext, AnnouncedAll, MirrorNext,
       MirroredAll, Visit, SendToTarget, RangeDone
<1>3. ASSUME NEW c \in Conns, Running(CommandStep(c)) PROVE TakenIn1'
  BY <1>3, CommandFrame
<1>4. ASSUME NEW c \in Conns, Running(ReceiveStep(c)) PROVE TakenIn1'
  <2>1. CASE StartListener(c)
    BY <2>1 DEF StartListener, Indices
  <2> QED
    BY <1>4, <2>1, ReceiveFrame
<1>5. ASSUME NEW c \in Conns, NetStep(c) PROVE TakenIn1'
  BY <1>5, NetFrame
<1> QED
  BY <1>1, <1>2, <1>3, <1>4, <1>5, StepKinds

LEMMA AuthorsKnownStep ==
  ASSUME Typed, AuthorsKnown, [Next]_vars
  PROVE  AuthorsKnown'
<1> USE DEF Typed, TypeOK, ThreadTypes, PollerTypes, AuthorsKnown
<1>1. CASE UNCHANGED vars
  BY <1>1
<1>2. CASE Running(PollerStep)
  <2>1. CASE AppendPost
    <3>1. batch # <<>> /\ Head(batch) \in Posts
      BY <2>1, HeadTailProperties DEF AppendPost, Indices
    <3>2. /\ Len(posts') = Len(posts) + 1
          /\ \A i \in 1..Len(posts) : posts'[i] = posts[i]
          /\ posts'[Len(posts) + 1] = Head(batch)
      BY <2>1, <3>1, AppendProperties DEF AppendPost
    <3> QED
      BY <2>1, <3>2 DEF AppendPost
  <2>2. CASE TakeAuthor
    BY <2>2 DEF TakeAuthor
  <2>3. CASE SkipSeen
    BY <2>3 DEF SkipSeen
  <2>5. CASE Fetch \/ FetchFails \/ Wake \/ TakenIn \/ AnnouncedAll
    BY <2>5 DEF Fetch, FetchFails, Wake, TakenIn, AnnouncedAll
  <2>6. CASE AnnounceNext \/ MirrorNext \/ MirroredAll \/ RangeDone
    BY <2>6 DEF AnnounceNext, MirrorNext, MirroredAll, RangeDone
  <2>7. ASSUME NEW c \in Conns, Visit(c) \/ SendToTarget(c) PROVE AuthorsKnown'
    BY <2>7 DEF Visit, SendToTarget
  <2> QED
    BY <1>2, <2>1, <2>2, <2>3, <2>5, <2>6, <2>7 DEF Running, PollerStep, PollerWork
<1>3. ASSUME NEW c \in Conns, Running(CommandStep(c)) PROVE AuthorsKnown'
  BY <1>3, CommandFrame
<1>4. ASSUME NEW c \in Conns, Running(ReceiveStep(c)) PROVE AuthorsKnown'
  <2>1. CASE StartListener(c)
    BY <2>1 DEF StartListener, Indices
  <2> QED
    BY <1>4, <2>1, ReceiveFrame
<1>5. ASSUME NEW c \in Conns, NetStep(c) PROVE AuthorsKnown'
  BY <1>5, NetFrame
<1> QED
  BY <1>1, <1>2, <1>3, <1>4, <1>5, StepKinds
-----------------------------------------------------------------------------
(* Posts are owed.                                                          *)
LEMMA PostCounted ==
  ASSUME SentTypes, NEW c \in Conns, NEW p \in Posts, Post(c, p)
  PROVE  /\ copies'[c][p] > 0
         /\ \A d \in Conns, q \in Posts : copies[d][q] > 0 => copies'[d][q] > 0
<1>1. copies \in [Conns -> [Posts -> Nat]] /\ copies[c][p] \in Nat
  BY DEF SentTypes
<1>2. copies' = [copies EXCEPT ![c] = [copies[c] EXCEPT ![p] = copies[c][p] + 1]]
  BY DEF Post
<1> QED
  BY <1>1, <1>2

LEMMA PostsOwedPoller ==
  ASSUME Typed, PostsOwed, Running(PollerStep),
         NEW d \in subscribers, ~cancelled[d], NEW i \in 1..Len(posts')
  PROVE  PostDue(d, i)'
<1> USE DEF Typed, TypeOK, ThreadTypes, PollerTypes, ConnTypes
<1> /\ UNCHANGED <<lock, listening, subscribers, recvVars, open, cancelled, alive>>
    /\ d \in Conns
  BY PollerFrame
<1>1. CASE AppendPost
  <2>1. batch # <<>> /\ Head(batch) \in Posts
    BY <1>1, HeadTailProperties DEF AppendPost, Indices
  <2>2. /\ Len(posts') = Len(posts) + 1
        /\ \A k \in 1..Len(posts) : posts'[k] = posts[k]
    BY <1>1, <2>1, AppendProperties DEF AppendPost
  <2>3. CASE i \in 1..Len(posts)
    <3>1. PostDue(d, i) /\ posts'[i] = posts[i]
      BY <2>2, <2>3 DEF PostsOwed
    <3> QED
      BY <1>1, <3>1 DEF AppendPost, PostDue, PollerOwesPost, JoinOwesPost
  <2>4. CASE i = Len(posts) + 1
    BY <1>1, <2>4 DEF AppendPost, PostDue, PollerOwesPost, Indices
  <2> QED
    BY <2>2, <2>3, <2>4, SMTT(30)
<1>2. CASE UNCHANGED posts
  <2> PostDue(d, i)
    BY <1>2 DEF PostsOwed
  <2> USE DEF PostDue, PollerOwesPost, JoinOwesPost
  <2>1. CASE Fetch
    BY <2>1 DEF Fetch, Indices
  <2>2. CASE \/ FetchFails \/ Wake \/ SkipSeen \/ TakeAuthor \/ TakenIn
             \/ AnnouncedAll \/ MirroredAll \/ AnnounceNext
    BY <2>2 DEF FetchFails, Wake, SkipSeen, TakeAuthor, TakenIn, AnnouncedAll,
       MirroredAll, AnnounceNext
  <2>3. CASE MirrorNext
    BY <2>3 DEF MirrorNext
  <2>4. ASSUME NEW c \in Conns, Visit(c) PROVE PostDue(d, i)'
    BY <2>4, ConstAssumption DEF Visit
  <2>5. ASSUME NEW c \in Conns, SendToTarget(c) PROVE PostDue(d, i)'
    <3>1. CASE ppc = "joinIter"
      BY <2>5, <3>1 DEF SendToTarget, Say, Enqueue, Author
    <3>2. CASE ppc = "mirrorIter" /\ cancelled[c] /\ UNCHANGED sent
      BY <2>5, <3>2 DEF SendToTarget
    <3>3. CASE ppc = "mirrorIter" /\ Post(c, posts[at])
      <4>1. posts[i] \in Posts /\ posts[at] \in Posts
        <5>1. at \in 1..Len(posts)
          BY <3>3 DEF Indices
        <5> QED
          BY <1>2, <5>1, ElementOfSeq
      <4>2. copies[d][posts[i]] > 0 => copies'[d][posts[i]] > 0
        BY <3>3, <4>1, PostCounted
      <4>3. CASE d = c /\ i = at
        <5>1. copies'[c][posts[at]] > 0
          BY <3>3, <4>1, PostCounted
        <5> QED
          BY <1>2, <4>3, <5>1
      <4>4. CASE ~(d = c /\ i = at)
        BY <2>5, <3>3, <4>2, <4>4 DEF SendToTarget
      <4> QED
        BY <4>3, <4>4
    <3> QED
      BY <2>5, <3>1, <3>2, <3>3 DEF SendToTarget, Say, Enqueue
  <2>6. CASE RangeDone
    BY <2>6, ConstAssumption DEF RangeDone
  <2> QED
    BY <1>1, <2>1, <2>2, <2>3, <2>4, <2>5, <2>6 DEF Running, PollerStep, PollerWork
<1> QED
  BY <1>1, <1>2 DEF Running, PollerStep, PollerWork, Fetch, FetchFails, Wake,
     SkipSeen, TakeAuthor, TakenIn, AnnounceNext, AnnouncedAll, MirrorNext,
     MirroredAll, Visit, SendToTarget, RangeDone

LEMMA PostsOwedReceive ==
  ASSUME Typed, Membership, PostsOwed, NEW c \in Conns, Running(ReceiveStep(c)),
         NEW d \in subscribers', ~cancelled[d], NEW i \in 1..Len(posts)
  PROVE  PostDue(d, i)'
<1> USE DEF Typed, TypeOK, ThreadTypes, PollerTypes, ConnTypes
<1> UNCHANGED <<posts, taking, cur, target, open, cancelled>>
  BY ReceiveFrame
<1>1. d \in Conns
  BY TypedStep DEF Next
<1>2. CASE Subscribe(c) /\ d = c
  BY <1>1, <1>2 DEF Subscribe, PostDue, JoinOwesPost
<1>3. CASE d \in subscribers
  <2> PostDue(d, i)
    BY <1>3 DEF PostsOwed
  <2> USE DEF PostDue, PollerOwesPost, JoinOwesPost
  <2>1. CASE StartListener(c)
    BY <2>1, <1>1 DEF StartListener, Indices
  <2>2. CASE Subscribe(c)
    BY <2>2, <1>1 DEF Subscribe, Membership
  <2>3. CASE Unsubscribe(c)
    BY <2>3, <1>1 DEF Unsubscribe
  <2>4. CASE SendSelf(c)
    <3>1. CASE d = c
      BY <1>1, <2>4, <3>1 DEF SendSelf
    <3>2. CASE d # c
      BY <1>1, <2>4, <3>2 DEF SendSelf, Say, Enqueue, OwnJoin, SentTypes
    <3> QED
      BY <3>1, <3>2
  <2>5. CASE SendTopic(c) \/ SendPart(c) \/ SendEndOfWho(c)
    BY <1>1, <2>5 DEF SendTopic, SendPart, SendEndOfWho, Say, Enqueue, Other
  <2>6. CASE SendName(c)
    BY <1>1, <2>6 DEF SendName, Say, Enqueue, Other, Author
  <2>7. CASE NamesDone(c) \/ WhoLock(c)
    BY <1>1, <2>7 DEF NamesDone, WhoLock
  <2>8. CASE SendEndOfNames(c)
    BY <1>1, <2>8 DEF SendEndOfNames, Say, Enqueue, Other
  <2>9. CASE ReplayPost(c)
    <3>1. CASE cancelled[c] /\ UNCHANGED sent
      BY <1>1, <2>9, <3>1 DEF ReplayPost
    <3>2. CASE Post(c, posts[rnext[c]])
      <4>1. posts[i] \in Posts /\ posts[rnext[c]] \in Posts
        BY <2>9 DEF ReplayPost, Indices
      <4>2. copies[d][posts[i]] > 0 => copies'[d][posts[i]] > 0
        BY <1>1, <3>2, <4>1, PostCounted
      <4>3. CASE d = c /\ i = rnext[c]
        BY <3>2, <4>1, <4>3, PostCounted
      <4>4. CASE ~(d = c /\ i = rnext[c])
        BY <1>1, <2>9, <4>2, <4>4, SMTT(30) DEF ReplayPost
      <4> QED
        BY <4>3, <4>4
    <3> QED
      BY <2>9, <3>1, <3>2 DEF ReplayPost, Say, Enqueue
  <2>10. CASE ReplayDone(c)
    BY <1>1, <2>10 DEF ReplayDone
  <2> QED
    BY <2>1, <2>2, <2>3, <2>4, <2>5, <2>6, <2>7, <2>8, <2>9, <2>10
    DEF Running, ReceiveStep, JoinStep, WhoLock
<1> QED
  BY <1>2, <1>3 DEF Running, ReceiveStep, JoinStep, StartListener, Subscribe,
     SendSelf, SendTopic, SendName, NamesDone, SendEndOfNames, ReplayPost,
     ReplayDone, Unsubscribe, SendPart, WhoLock, SendEndOfWho

LEMMA PostsOwedStep ==
  ASSUME Typed, Membership, PostsOwed, [Next]_vars
  PROVE  PostsOwed'
<1> USE DEF PostDue, PollerOwesPost, JoinOwesPost
<1>1. CASE UNCHANGED vars
  BY <1>1 DEF PostsOwed
<1>2. CASE Running(PollerStep)
  BY <1>2, PollerFrame, PostsOwedPoller DEF PostsOwed
<1>3. ASSUME NEW c \in Conns, Running(CommandStep(c)) PROVE PostsOwed'
  BY <1>3, CommandFrame DEF PostsOwed, Typed, TypeOK, ConnTypes, ThreadTypes
<1>4. ASSUME NEW c \in Conns, Running(ReceiveStep(c)) PROVE PostsOwed'
  BY <1>4, ReceiveFrame, PostsOwedReceive DEF PostsOwed
<1>5. ASSUME NEW c \in Conns, NetStep(c) PROVE PostsOwed'
  BY <1>5, NetFrame DEF PostsOwed, Typed, TypeOK, ThreadTypes
<1> QED
  BY <1>1, <1>2, <1>3, <1>4, <1>5, StepKinds
-----------------------------------------------------------------------------
(* Authors are owed.                                                        *)
LEMMA AuthorsOwedPoller ==
  ASSUME Typed, AuthorsKnown, AuthorsOwed, Running(PollerStep),
         NEW d \in subscribers, ~cancelled[d], NEW a \in authors'
  PROVE  AuthorDue(d, a)'
<1> USE DEF Typed, TypeOK, ThreadTypes, PollerTypes, ConnTypes
<1> /\ UNCHANGED <<lock, listening, subscribers, recvVars, open, cancelled, alive>>
    /\ d \in Conns
  BY PollerFrame
<1> USE DEF AuthorDue, PollerOwesAuthor, JoinOwesAuthor
<1>1. CASE TakeAuthor
  <2>1. CASE a \in authors
    <3>1. AuthorDue(d, a)
      BY <2>1 DEF AuthorsOwed
    <3> QED
      BY <1>1, <3>1 DEF TakeAuthor
  <2>2. CASE a \notin authors
    BY <1>1, <2>2 DEF TakeAuthor
  <2> QED
    BY <2>1, <2>2
<1>2. CASE UNCHANGED authors
  <2>1. AuthorDue(d, a)
    BY <1>2 DEF AuthorsOwed
  <2>2. CASE Fetch
    BY <2>1, <2>2 DEF Fetch, AuthorsKnown
  <2>3. CASE \/ FetchFails \/ Wake \/ SkipSeen \/ AppendPost \/ TakenIn
             \/ AnnouncedAll \/ MirroredAll \/ MirrorNext
    BY <2>1, <2>3 DEF FetchFails, Wake, SkipSeen, AppendPost, TakenIn, AnnouncedAll,
       MirroredAll, MirrorNext
  <2>4. CASE AnnounceNext
    BY <2>1, <2>4 DEF AnnounceNext
  <2>5. ASSUME NEW c \in Conns, Visit(c) PROVE AuthorDue(d, a)'
    BY <2>1, <2>5, ConstAssumption DEF Visit
  <2>6. ASSUME NEW c \in Conns, SendToTarget(c) PROVE AuthorDue(d, a)'
    <3>1. CASE cancelled[c] /\ UNCHANGED sent
      BY <2>1, <2>6, <3>1 DEF SendToTarget
    <3>2. CASE ppc = "joinIter" /\ Author(c, cur)
      BY <2>1, <2>6, <3>2 DEF SendToTarget, Author, SentTypes
    <3>3. CASE ppc = "mirrorIter" /\ Post(c, posts[at])
      BY <2>1, <2>6, <3>3 DEF SendToTarget, Post
    <3> QED
      BY <2>6, <3>1, <3>2, <3>3 DEF SendToTarget, Say, Enqueue
  <2>7. CASE RangeDone
    BY <2>1, <2>7, ConstAssumption DEF RangeDone
  <2> QED
    BY <1>1, <2>2, <2>3, <2>4, <2>5, <2>6, <2>7 DEF Running, PollerStep, PollerWork
<1> QED
  BY <1>1, <1>2 DEF Running, PollerStep, PollerWork, Fetch, FetchFails, Wake,
     SkipSeen, AppendPost, TakenIn, AnnounceNext, AnnouncedAll, MirrorNext,
     MirroredAll, Visit, SendToTarget, RangeDone

LEMMA AuthorsOwedReceive ==
  ASSUME Typed, Membership, AuthorsOwed, NEW c \in Conns, Running(ReceiveStep(c)),
         NEW d \in subscribers', ~cancelled[d], NEW a \in authors'
  PROVE  AuthorDue(d, a)'
<1> USE DEF Typed, TypeOK, ThreadTypes, PollerTypes, ConnTypes
<1> UNCHANGED <<posts, taking, cur, target, open, cancelled>>
  BY ReceiveFrame
<1>1. d \in Conns
  BY TypedStep DEF Next
<1>2. CASE StartListener(c)
  <2>1. CASE a \in authors /\ d \in subscribers
    <3>1. AuthorDue(d, a)
      BY <2>1 DEF AuthorsOwed
    <3> QED
      BY <1>1, <1>2, <3>1 DEF StartListener, AuthorDue, PollerOwesAuthor,
         JoinOwesAuthor, Indices
  <2> QED
    BY <1>2, <2>1 DEF StartListener
<1>3. CASE Subscribe(c) /\ d = c
  BY <1>1, <1>3 DEF Subscribe, AuthorDue, JoinOwesAuthor
<1>4. CASE d \in subscribers /\ UNCHANGED <<listening, seen, authors, ppc>>
  <2> AuthorDue(d, a)
    BY <1>4 DEF AuthorsOwed
  <2> USE DEF AuthorDue, PollerOwesAuthor, JoinOwesAuthor
  <2>2. CASE Subscribe(c)
    BY <1>4, <2>2, <1>1 DEF Subscribe, Membership
  <2>3. CASE Unsubscribe(c)
    BY <1>4, <2>3, <1>1 DEF Unsubscribe
  <2>4. CASE SendSelf(c)
    <3>1. CASE d = c
      BY <1>1, <2>4, <3>1 DEF SendSelf
    <3>2. CASE d # c
      BY <1>1, <2>4, <3>2 DEF SendSelf, Say, Enqueue, OwnJoin, SentTypes
    <3> QED
      BY <3>1, <3>2
  <2>5. CASE SendTopic(c)
    <3>1. CASE d = c
      BY <1>1, <1>4, <2>5, <3>1 DEF SendTopic, StartListing
    <3>2. CASE d # c
      BY <1>1, <1>4, <2>5, <3>2 DEF SendTopic, StartListing, Say, Enqueue, Other
    <3> QED
      BY <3>1, <3>2
  <2>6. CASE SendPart(c) \/ SendEndOfWho(c) \/ SendEndOfNames(c)
    BY <1>1, <2>6 DEF SendPart, SendEndOfWho, SendEndOfNames, Say, Enqueue, Other
  <2>7. CASE SendName(c)
    <3>1. PICK b \in authors \ named[c] :
             /\ \/ Send(c, "names", "names", Author(c, b))
                \/ Send(c, "who", "who", Other)
             /\ named' = [named EXCEPT ![c] = @ \cup {b}]
      BY <2>7 DEF SendName
    <3>2. UNCHANGED <<ppc, left, must>>
      BY <2>7 DEF SendName
    <3>3. CASE cancelled[c] /\ UNCHANGED sent
      BY <1>1, <3>1, <3>2, <3>3
    <3>4. CASE cpc[c] = "names" /\ Author(c, b)
      BY <1>1, <3>1, <3>2, <3>4 DEF Author, SentTypes
    <3>5. CASE cpc[c] = "who" /\ Other
      BY <1>1, <3>1, <3>2, <3>5 DEF Other
    <3> QED
      BY <3>1, <3>3, <3>4, <3>5 DEF Say, Enqueue
  <2>8. CASE NamesDone(c)
    BY <1>1, <2>8 DEF NamesDone
  <2>9. CASE WhoLock(c)
    BY <1>1, <2>9 DEF WhoLock, StartListing
  <2>10. CASE ReplayPost(c)
    BY <1>1, <2>10 DEF ReplayPost, Say, Enqueue, Post
  <2>11. CASE ReplayDone(c)
    BY <1>1, <2>11 DEF ReplayDone
  <2> QED
    BY <1>2, <2>2, <2>3, <2>4, <2>5, <2>6, <2>7, <2>8, <2>9, <2>10, <2>11
    DEF Running, ReceiveStep, JoinStep
<1> QED
  <2>1. CASE Subscribe(c)
    BY <1>3, <1>4, <2>1 DEF Subscribe
  <2>2. CASE ~Subscribe(c)
    <3>1. d \in subscribers
      BY <2>2 DEF Running, ReceiveStep, JoinStep, StartListener, SendSelf,
         SendTopic, SendName, NamesDone, SendEndOfNames, ReplayPost,
         ReplayDone, Unsubscribe, SendPart, WhoLock, SendEndOfWho
    <3> QED
      BY <1>2, <1>4, <3>1, ReceiveFrame
  <2> QED
    BY <2>1, <2>2

LEMMA AuthorsOwedStep ==
  ASSUME Typed, Membership, AuthorsKnown, AuthorsOwed, [Next]_vars
  PROVE  AuthorsOwed'
<1> USE DEF AuthorDue, PollerOwesAuthor, JoinOwesAuthor
<1>1. CASE UNCHANGED vars
  BY <1>1 DEF AuthorsOwed
<1>2. CASE Running(PollerStep)
  BY <1>2, PollerFrame, AuthorsOwedPoller DEF AuthorsOwed
<1>3. ASSUME NEW c \in Conns, Running(CommandStep(c)) PROVE AuthorsOwed'
  <2>1. PICK to \in {"listen", "part", "noton", "wholock"} :
           cpc[c] = "idle" /\ cpc' = [cpc EXCEPT ![c] = to]
    BY <1>3, CommandFrame
  <2>2. UNCHANGED <<threadVars, pollVars, listing, sent>>
    BY <1>3, CommandFrame
  <2>3. cpc \in [Conns -> ConnPoints] /\ subscribers \subseteq Conns
    BY DEF Typed, TypeOK, ConnTypes, ThreadTypes
  <2> QED
    BY <2>1, <2>2, <2>3 DEF AuthorsOwed
<1>4. ASSUME NEW c \in Conns, Running(ReceiveStep(c)) PROVE AuthorsOwed'
  BY <1>4, ReceiveFrame, AuthorsOwedReceive DEF AuthorsOwed
<1>5. ASSUME NEW c \in Conns, NetStep(c) PROVE AuthorsOwed'
  BY <1>5, NetFrame DEF AuthorsOwed, Typed, TypeOK, ThreadTypes
<1> QED
  BY <1>1, <1>2, <1>3, <1>4, <1>5, StepKinds
-----------------------------------------------------------------------------
(* How often a post is sent.                                                *)
\* A step that neither sends the post nor owes it anew keeps the bound.
LEMMA NoMoreToCome ==
  ASSUME Typed, CopiesBounded, NEW d \in Conns, NEW i \in 1..Len(posts),
         ~cancelled[d], cpc[d] # "self",
         copies'[d][posts'[i]] = copies[d][posts[i]],
         JoinOwesPost(d, i)' => JoinOwesPost(d, i), InHand(d, i)' => InHand(d, i),
         VisitAhead(d, i)' => VisitAhead(d, i)
  PROVE  copies'[d][posts'[i]] + ToCome(d, i)' <= 3
<1>1. copies[d][posts[i]] + ToCome(d, i) <= 3
  BY DEF CopiesBounded
<1>2. copies[d][posts[i]] \in Nat
  BY DEF Typed, TypeOK, SentTypes, ThreadTypes
<1>3. ToCome(d, i)' <= ToCome(d, i) /\ ToCome(d, i)' \in Nat /\ ToCome(d, i) \in Nat
  BY DEF ToCome, One
<1> QED
  BY <1>1, <1>2, <1>3

\* So does one that sends a copy that was owed.
LEMMA OneLessToCome ==
  ASSUME Typed, CopiesBounded, NEW d \in Conns, NEW i \in 1..Len(posts),
         ~cancelled[d], cpc[d] # "self",
         copies'[d][posts'[i]] = copies[d][posts[i]] + 1,
         ToCome(d, i)' + 1 <= ToCome(d, i), ToCome(d, i)' \in Nat
  PROVE  copies'[d][posts'[i]] + ToCome(d, i)' <= 3
<1>1. copies[d][posts[i]] + ToCome(d, i) <= 3
  BY DEF CopiesBounded
<1>2. copies[d][posts[i]] \in Nat
  BY DEF Typed, TypeOK, SentTypes, ThreadTypes
<1>3. ToCome(d, i) \in Nat
  BY DEF ToCome, One
<1> QED
  BY <1>1, <1>2, <1>3

LEMMA SwappedToCome ==
  ASSUME Typed, CopiesBounded, NEW d \in Conns, NEW i \in 1..Len(posts),
         ~cancelled[d], cpc[d] # "self",
         copies'[d][posts'[i]] = copies[d][posts[i]],
         ToCome(d, i)' <= ToCome(d, i), ToCome(d, i)' \in Nat
  PROVE  copies'[d][posts'[i]] + ToCome(d, i)' <= 3
<1>1. copies[d][posts[i]] + ToCome(d, i) <= 3
  BY DEF CopiesBounded
<1>2. copies[d][posts[i]] \in Nat
  BY DEF Typed, TypeOK, SentTypes, ThreadTypes
<1>3. ToCome(d, i) \in Nat
  BY DEF ToCome, One
<1> QED
  BY <1>1, <1>2, <1>3

\* What a line with a post changes.
LEMMA PostAdded ==
  ASSUME SentTypes, NEW c \in Conns, NEW p \in Posts, Post(c, p)
  PROVE  /\ copies'[c][p] = copies[c][p] + 1
         /\ \A d \in Conns, q \in Posts : d # c \/ q # p => copies'[d][q] = copies[d][q]
<1>1. copies \in [Conns -> [Posts -> Nat]] /\ copies[c][p] \in Nat
  BY DEF SentTypes
<1>2. copies' = [copies EXCEPT ![c] = [copies[c] EXCEPT ![p] = copies[c][p] + 1]]
  BY DEF Post
<1> QED
  BY <1>1, <1>2

LEMMA BoundPoller ==
  ASSUME Typed, TakenIn1, CopiesBounded, Running(PollerStep),
         NEW d \in Conns, ~cancelled[d], cpc[d] # "self", NEW i \in 1..Len(posts')
  PROVE  copies'[d][posts'[i]] + ToCome(d, i)' <= 3
<1> USE DEF Typed, TypeOK, ThreadTypes, PollerTypes, ConnTypes
<1>0. UNCHANGED <<lock, listening, subscribers, recvVars, open, cancelled, alive>>
  BY PollerFrame
<1>1. JoinOwesPost(d, i)' <=> JoinOwesPost(d, i)
  BY <1>0 DEF JoinOwesPost
<1>2. CASE AppendPost
  <2>1. batch # <<>> /\ Head(batch) \in Posts
    BY <1>2, HeadTailProperties DEF AppendPost, Indices
  <2>2. /\ Len(posts') = Len(posts) + 1
        /\ \A k \in 1..Len(posts) : posts'[k] = posts[k]
        /\ posts'[Len(posts) + 1] = Head(batch)
    BY <1>2, <2>1, AppendProperties DEF AppendPost
  <2>3. CASE i \in 1..Len(posts)
    <3>1. posts'[i] = posts[i] /\ copies' = copies
      BY <1>2, <2>2, <2>3 DEF AppendPost
    <3>2. (InHand(d, i)' => InHand(d, i)) /\ (VisitAhead(d, i)' => VisitAhead(d, i))
      BY <1>2 DEF AppendPost, InHand, VisitAhead
    <3> QED
      BY <1>1, <2>3, <3>1, <3>2, NoMoreToCome
  <2>4. CASE i = Len(posts) + 1
    <3>1. posts'[i] = Head(batch) /\ Head(batch) \in Posts \ PostSet
      BY <1>2, <2>1, <2>2, <2>4 DEF AppendPost, TakenIn1, PostSet
    <3>2. copies'[d][posts'[i]] = 0
      BY <1>2, <3>1 DEF AppendPost, CopiesBounded
    <3>3. ToCome(d, i)' \in 0..3
      BY DEF ToCome, One
    <3> QED
      BY <3>2, <3>3, SMTT(30)
  <2> QED
    BY <2>2, <2>3, <2>4
<1>3. CASE UNCHANGED posts
  <2>0. i \in 1..Len(posts) /\ posts'[i] = posts[i] /\ posts[i] \in Posts
    BY <1>3
  <2>1. CASE Fetch
    <3>1. (InHand(d, i)' => InHand(d, i)) /\ (VisitAhead(d, i)' => VisitAhead(d, i))
      BY <2>0, <2>1 DEF Fetch, InHand, VisitAhead
    <3> QED
      BY <1>1, <2>0, <2>1, <3>1, NoMoreToCome DEF Fetch
  <2>2. CASE \/ FetchFails \/ Wake \/ SkipSeen \/ TakeAuthor \/ TakenIn
             \/ AnnouncedAll \/ MirroredAll \/ AnnounceNext
    <3>1. /\ copies' = copies /\ (InHand(d, i)' => InHand(d, i))
          /\ (VisitAhead(d, i)' => VisitAhead(d, i))
      BY <2>2 DEF FetchFails, Wake, SkipSeen, TakeAuthor, TakenIn, AnnouncedAll,
         MirroredAll, AnnounceNext, InHand, VisitAhead
    <3> QED
      BY <1>1, <2>0, <3>1, NoMoreToCome
  <2>3. CASE MirrorNext
    <3>1. target = None /\ d # None
      BY <2>3, ConstAssumption DEF MirrorNext, CopiesBounded
    <3>2. /\ copies' = copies /\ (InHand(d, i)' => InHand(d, i))
          /\ (VisitAhead(d, i)' => VisitAhead(d, i))
      BY <2>3, <3>1 DEF MirrorNext, InHand, VisitAhead
    <3> QED
      BY <1>1, <2>0, <3>2, NoMoreToCome
  <2>4. ASSUME NEW c \in Conns, Visit(c) PROVE copies'[d][posts'[i]] + ToCome(d, i)' <= 3
    <3>1. /\ copies' = copies /\ UNCHANGED <<ppc, at>> /\ target = None /\ target' = c
          /\ left' = left \ {c} /\ fresh' = fresh \ {c} /\ c \in left \cup fresh
      BY <2>4 DEF Visit
    <3>2. CASE d = c /\ ppc = "mirrorIter" /\ at = i
      <4>1. ~InHand(d, i) /\ VisitAhead(d, i) /\ ~VisitAhead(d, i)'
        BY <3>1, <3>2, ConstAssumption DEF InHand, VisitAhead
      <4>2. ToCome(d, i)' <= ToCome(d, i) /\ ToCome(d, i)' \in Nat
        BY <1>1, <4>1, SMTT(30) DEF ToCome, One
      <4>3. copies'[d][posts'[i]] = copies[d][posts[i]]
        BY <2>0, <3>1
      <4> QED
        BY <2>0, <4>2, <4>3, SwappedToCome
    <3>3. CASE ~(d = c /\ ppc = "mirrorIter" /\ at = i)
      <4>1. (InHand(d, i)' => InHand(d, i)) /\ (VisitAhead(d, i)' => VisitAhead(d, i))
        BY <3>1, <3>3 DEF InHand, VisitAhead
      <4> QED
        BY <1>1, <2>0, <3>1, <4>1, NoMoreToCome
    <3> QED
      BY <3>2, <3>3
  <2>5. ASSUME NEW c \in Conns, SendToTarget(c)
        PROVE  copies'[d][posts'[i]] + ToCome(d, i)' <= 3
    <3>1. target = c /\ target' = None /\ UNCHANGED <<ppc, at, left, fresh>> /\ d # None
      BY <2>5, ConstAssumption DEF SendToTarget
    <3>2. ~InHand(d, i)' /\ (VisitAhead(d, i)' <=> VisitAhead(d, i))
      BY <3>1 DEF InHand, VisitAhead
    <3>3. CASE copies'[d][posts[i]] = copies[d][posts[i]]
      BY <1>1, <2>0, <3>2, <3>3, NoMoreToCome
    <3>4. CASE ppc = "mirrorIter" /\ Post(c, posts[at])
      <4>1. posts[at] \in Posts /\ at \in 1..Len(posts)
        BY <3>4 DEF Indices
      <4>2. CASE d = c /\ at = i
        <5>1. copies'[d][posts[i]] = copies[d][posts[i]] + 1
          BY <3>4, <4>1, <4>2, PostAdded
        <5>2. InHand(d, i)
          BY <3>1, <3>4, <4>2 DEF InHand
        <5>3. ToCome(d, i)' + 1 <= ToCome(d, i) /\ ToCome(d, i)' \in Nat
          BY <1>1, <3>2, <5>2, SMTT(30) DEF ToCome, One
        <5> QED
          BY <2>0, <5>1, <5>3, OneLessToCome
      <4>3. CASE ~(d = c /\ at = i)
        <5>1. d # c \/ posts[i] # posts[at]
          BY <2>0, <4>1, <4>3 DEF TakenIn1, TakenInOnce
        <5>2. copies'[d][posts[i]] = copies[d][posts[i]]
          <6>1. \A e \in Conns, q \in Posts :
                   e # c \/ q # posts[at] => copies'[e][q] = copies[e][q]
            BY <3>4, <4>1, PostAdded
          <6> QED
            BY <2>0, <5>1, <6>1, Zenon
        <5> QED
          BY <3>3, <5>2
      <4> QED
        BY <4>2, <4>3
    <3>5. \/ copies' = copies
          \/ ppc = "mirrorIter" /\ Post(c, posts[at])
      BY <2>5 DEF SendToTarget, Say, Enqueue, Author
    <3> QED
      BY <3>3, <3>4, <3>5
  <2>6. CASE RangeDone
    <3>1. /\ copies' = copies /\ target = None /\ d # None
          /\ ppc' \in {"joins", "mirror"} /\ (ppc = "joinIter" => at' = at)
          /\ (ppc = "mirrorIter" => at' = at + 1) /\ ppc \in Looping
      BY <2>6, ConstAssumption DEF RangeDone
    <3>2. ~InHand(d, i)' /\ (VisitAhead(d, i)' => VisitAhead(d, i))
      BY <2>0, <3>1 DEF InHand, VisitAhead
    <3> QED
      BY <1>1, <2>0, <3>1, <3>2, NoMoreToCome
  <2> QED
    BY <2>1, <2>2, <2>3, <2>4, <2>5, <2>6, <1>3
    DEF Running, PollerStep, PollerWork, AppendPost
<1> QED
  BY <1>2, <1>3 DEF Running, PollerStep, PollerWork, Fetch, FetchFails, Wake,
     SkipSeen, TakeAuthor, TakenIn, AnnounceNext, AnnouncedAll, MirrorNext,
     MirroredAll, Visit, SendToTarget, RangeDone
\* What the poller still has for a connection d, after a step of a receive loop.
LEMMA LoopReceive ==
  ASSUME Typed, NEW c \in Conns, Running(ReceiveStep(c)), NEW d \in Conns,
         NEW i \in 1..Len(posts), d = c => ~Subscribe(c)
  PROVE  (InHand(d, i)' => InHand(d, i)) /\ (VisitAhead(d, i)' => VisitAhead(d, i))
<1> USE DEF InHand, VisitAhead
<1>1. UNCHANGED <<posts, taking, cur, target, open, cancelled>>
  BY ReceiveFrame
<1>2. CASE StartListener(c)
  <2>1. ppc # "off"
    BY DEF Typed, Indices
  <2>2. UNCHANGED <<left, fresh, ppc>>
    BY <1>2, <2>1 DEF StartListener, Typed, Indices
  <2> QED
    BY <1>1, <2>2
<1>3. CASE Subscribe(c)
  BY <1>1, <1>3 DEF Subscribe
<1>4. CASE Unsubscribe(c)
  BY <1>1, <1>4 DEF Unsubscribe
<1>5. CASE ~StartListener(c) /\ ~Subscribe(c) /\ ~Unsubscribe(c)
  <2>1. UNCHANGED <<left, fresh, ppc>>
    BY <1>5 DEF Running, ReceiveStep, JoinStep, SendSelf, SendTopic, SendName, NamesDone,
       SendEndOfNames, ReplayPost, ReplayDone, SendPart, WhoLock, SendEndOfWho
  <2> QED
    BY <1>1, <2>1
<1> QED
  BY <1>2, <1>3, <1>4, <1>5

LEMMA BoundReceive ==
  ASSUME Typed, TakenIn1, CopiesBounded, NEW c \in Conns, Running(ReceiveStep(c)),
         NEW d \in Conns, ~cancelled[d], cpc'[d] # "self", NEW i \in 1..Len(posts)
  PROVE  copies'[d][posts'[i]] + ToCome(d, i)' <= 3
<1> USE DEF Typed, TypeOK, ThreadTypes, PollerTypes, ConnTypes
<1>1. UNCHANGED <<posts, taking, cur, target, open, cancelled>> /\ posts[i] \in Posts
  BY ReceiveFrame
<1>2. ASSUME d # c PROVE copies'[d][posts'[i]] + ToCome(d, i)' <= 3
  <2>1. (InHand(d, i)' => InHand(d, i)) /\ (VisitAhead(d, i)' => VisitAhead(d, i))
    BY <1>2, LoopReceive
  <2>2. cpc'[d] = cpc[d] /\ rnext'[d] = rnext[d] /\ rlim'[d] = rlim[d]
    BY <1>2 DEF Running, ReceiveStep, JoinStep, StartListener, Subscribe, SendSelf, SendTopic,
       SendName, NamesDone, SendEndOfNames, ReplayPost, ReplayDone, Unsubscribe, SendPart,
       WhoLock, SendEndOfWho
  <2>3. JoinOwesPost(d, i)' => JoinOwesPost(d, i)
    BY <1>1, <2>2 DEF JoinOwesPost
  <2>4. copies'[d] = copies[d]
    BY <1>2 DEF Running, ReceiveStep, JoinStep, StartListener, Subscribe, SendSelf, SendTopic,
       SendName, NamesDone, SendEndOfNames, ReplayPost, ReplayDone, Unsubscribe, SendPart,
       WhoLock, SendEndOfWho, Say, Enqueue, OwnJoin, Other, Author, Post, SentTypes
  <2> QED
    BY <1>1, <2>1, <2>2, <2>3, <2>4, NoMoreToCome
<1>3. ASSUME d = c PROVE copies'[d][posts'[i]] + ToCome(d, i)' <= 3
  <2>1. CASE SendSelf(c)
    <3>1. copies'[c] = [p \in Posts |-> 0]
      BY <1>3, <2>1 DEF SendSelf, Say, Enqueue, OwnJoin, SentTypes
    <3>2. ToCome(d, i)' \in 0..3
      BY DEF ToCome, One
    <3>3. copies'[d][posts'[i]] = 0
      BY <1>1, <1>3, <3>1
    <3> QED
      BY <3>2, <3>3
  <2>2. CASE ReplayPost(c)
    <3>0. InHand(c, i)' => InHand(c, i)
      BY <2>2 DEF ReplayPost, InHand
    <3>1. VisitAhead(c, i)' => VisitAhead(c, i)
      BY <2>2 DEF ReplayPost, VisitAhead
    <3>2. /\ Post(c, posts[rnext[c]]) /\ cpc[c] = "replay" /\ cpc'[c] = "replay"
          /\ rnext'[c] = rnext[c] + 1 /\ rlim'[c] = rlim[c] /\ rnext[c] <= rlim[c]
      BY <1>3, <2>2 DEF ReplayPost, Say, Enqueue
    <3>3. rnext[c] \in 1..Len(posts) /\ posts[rnext[c]] \in Posts
      <4>1. rnext[c] \in Nat \ {0} /\ rlim[c] \in Nat /\ posts \in Seq(Posts)
        OBVIOUS
      <4>2. rnext[c] <= rlim[c] /\ rlim[c] <= Len(posts)
        BY <3>2 DEF Indices
      <4>3. rnext[c] \in 1..Len(posts)
        BY <4>1, <4>2
      <4> QED
        BY <4>1, <4>3
    <3>4. CASE i = rnext[c]
      <4>1. copies'[c][posts[i]] = copies[c][posts[i]] + 1
        BY <3>2, <3>3, <3>4, PostAdded
      <4>2. JoinOwesPost(c, i) /\ ~JoinOwesPost(c, i)'
        BY <3>2, <3>3, <3>4 DEF JoinOwesPost
      <4>3. ToCome(c, i)' + 1 <= ToCome(c, i) /\ ToCome(c, i)' \in Nat
        BY <3>0, <3>1, <4>2, SMTT(30) DEF ToCome, One
      <4> QED
        BY <1>1, <1>3, <3>2, <4>1, <4>3, OneLessToCome
    <3>5. CASE i # rnext[c]
      <4>1. posts[i] # posts[rnext[c]]
        BY <3>3, <3>5 DEF TakenIn1, TakenInOnce
      <4>2. \A q \in Posts : q # posts[rnext[c]] => copies'[c][q] = copies[c][q]
        BY <3>2, <3>3, PostAdded
      <4>3. copies'[c][posts[i]] = copies[c][posts[i]]
        BY <1>1, <4>1, <4>2, Zenon
      <4>4. JoinOwesPost(c, i)' => JoinOwesPost(c, i)
        BY <3>2, <3>3 DEF JoinOwesPost
      <4> QED
        BY <1>1, <1>3, <3>0, <3>1, <3>2, <4>3, <4>4, NoMoreToCome
    <3> QED
      BY <3>4, <3>5
  <2>3. CASE ~SendSelf(c) /\ ~ReplayPost(c)
    <3>1. ~Subscribe(c)
      BY <1>3 DEF Subscribe
    <3>2. (InHand(c, i)' => InHand(c, i)) /\ (VisitAhead(c, i)' => VisitAhead(c, i))
      BY <3>1, LoopReceive
    <3>3. copies' = copies
      BY <2>3, <3>1 DEF Running, ReceiveStep, JoinStep, StartListener, SendTopic, SendName,
         NamesDone, SendEndOfNames, ReplayDone, Unsubscribe, SendPart, WhoLock, SendEndOfWho,
         Say, Enqueue, Other, Author
    <3>4. cpc[c] # "self" /\ (JoinOwesPost(c, i)' => JoinOwesPost(c, i))
      BY <2>3, <3>1 DEF Running, ReceiveStep, JoinStep, StartListener, SendTopic, SendName,
         NamesDone, SendEndOfNames, ReplayDone, Unsubscribe, SendPart, WhoLock, SendEndOfWho,
         JoinOwesPost
    <3> QED
      BY <1>1, <1>3, <3>2, <3>3, <3>4, NoMoreToCome
  <2> QED
    BY <2>1, <2>2, <2>3
<1> QED
  BY <1>2, <1>3

\* A post that has not been taken in has not been sent.
LEMMA NoStrayCopies ==
  ASSUME Typed, CopiesBounded, [Next]_vars,
         NEW d \in Conns, ~cancelled'[d], NEW p \in Posts \ PostSet'
  PROVE  copies'[d][p] = 0
<1> USE DEF Typed, TypeOK, ThreadTypes, PollerTypes, ConnTypes
<1>1. PostSet \subseteq PostSet' /\ ~cancelled[d]
  <2>1. CASE AppendPost
    <3>1. batch # <<>> /\ Head(batch) \in Posts
      BY <2>1, HeadTailProperties DEF AppendPost, Indices
    <3>2. /\ Len(posts') = Len(posts) + 1
          /\ \A k \in 1..Len(posts) : posts'[k] = posts[k] /\ k \in 1..Len(posts) + 1
      BY <2>1, <3>1, AppendProperties DEF AppendPost
    <3>3. PostSet \subseteq PostSet'
      BY <3>2 DEF PostSet
    <3> QED
      BY <2>1, <3>3 DEF AppendPost, SentTypes
  <2>2. CASE ~AppendPost
    <3>1. posts' = posts
      <4>1. ASSUME Running(PollerStep) PROVE posts' = posts
        BY <2>2, <4>1 DEF Running, PollerStep, PollerWork, Fetch, FetchFails, Wake,
           SkipSeen, TakeAuthor, TakenIn, AnnounceNext, AnnouncedAll, MirrorNext,
           MirroredAll, Visit, SendToTarget, RangeDone
      <4> QED
        BY <4>1, CommandFrame, ReceiveFrame, NetFrame, StepKinds
    <3>2. ~cancelled[d]
      <4>1. ASSUME NEW c \in Conns, Running(CommandStep(c)) PROVE cancelled' = cancelled
        BY <4>1, CommandFrame
      <4> QED
        BY <4>1, PollerFrame, ReceiveFrame, NetFrame, StepKinds
    <3> QED
      BY <3>1, <3>2 DEF PostSet
  <2> QED
    BY <2>1, <2>2
<1>2. p \notin PostSet /\ copies[d][p] = 0 /\ copies \in [Conns -> [Posts -> Nat]]
  BY <1>1 DEF CopiesBounded, SentTypes
<1>3. CASE copies' = copies
  BY <1>2, <1>3
<1>4. ASSUME NEW c \in Conns, NEW k \in 1..Len(posts), Post(c, posts[k])
      PROVE  copies'[d][p] = 0
  <2>1. posts[k] \in Posts /\ posts[k] # p
    <3>1. posts[k] \in PostSet
      BY Zenon DEF PostSet
    <3> QED
      BY <1>2, <3>1, SMTT(30)
  <2>2. \A q \in Posts : q # posts[k] => copies'[d][q] = copies[d][q]
    BY <1>4, <2>1, PostAdded
  <2> QED
    BY <1>2, <2>1, <2>2, Zenon
<1>5. ASSUME NEW c \in Conns, OwnJoin(c) PROVE copies'[d][p] = 0
  BY <1>2, <1>5 DEF OwnJoin
<1>6. ASSUME NEW c \in Conns, SendToTarget(c) PROVE copies'[d][p] = 0
  <2>1. ppc = "mirrorIter" => at \in 1..Len(posts)
    BY DEF Indices
  <2> QED
    BY <1>3, <1>4, <1>6, <2>1 DEF SendToTarget, Say, Enqueue, Author
<1>7. CASE Running(PollerStep)
  <2>1. CASE \E c \in Conns : SendToTarget(c)
    BY <1>6, <2>1
  <2>2. CASE ~\E c \in Conns : SendToTarget(c)
    <3>1. copies' = copies
      BY <1>7, <2>2 DEF Running, PollerStep, PollerWork, Fetch, FetchFails, Wake,
         SkipSeen, TakeAuthor, AppendPost, TakenIn, AnnounceNext, AnnouncedAll, MirrorNext,
         MirroredAll, Visit, RangeDone
    <3> QED
      BY <1>3, <3>1
  <2> QED
    BY <2>1, <2>2
<1>8. ASSUME NEW c \in Conns, Running(ReceiveStep(c)) PROVE copies'[d][p] = 0
  <2>1. CASE SendSelf(c)
    BY <1>3, <1>5, <2>1 DEF SendSelf, Say, Enqueue
  <2>2. CASE ReplayPost(c)
    <3>1. rnext[c] \in 1..Len(posts)
      BY <2>2, SMTT(30) DEF ReplayPost, Indices
    <3> QED
      BY <1>3, <1>4, <2>2, <3>1 DEF ReplayPost, Say, Enqueue
  <2>3. CASE ~SendSelf(c) /\ ~ReplayPost(c)
    <3>1. copies' = copies
      BY <1>8, <2>3 DEF Running, ReceiveStep, JoinStep, StartListener, Subscribe, SendTopic,
         SendName, NamesDone, SendEndOfNames, ReplayDone, Unsubscribe, SendPart, WhoLock,
         SendEndOfWho, Say, Enqueue, Other, Author
    <3> QED
      BY <1>3, <3>1
  <2> QED
    BY <2>1, <2>2, <2>3
<1>9. ASSUME NEW c \in Conns, Running(CommandStep(c)) \/ NetStep(c) PROVE copies' = copies
  BY <1>9, CommandFrame, NetFrame
<1> QED
  BY <1>3, <1>7, <1>8, <1>9, StepKinds

LEMMA CopiesBoundedStep ==
  ASSUME Typed, TakenIn1, CopiesBounded, [Next]_vars
  PROVE  CopiesBounded'
<1>1. (ppc \notin Looping => target = None)'
  <2>1. CASE Running(PollerStep)
    BY <2>1 DEF CopiesBounded, Running, PollerStep, PollerWork, Fetch, FetchFails, Wake,
       SkipSeen, TakeAuthor, AppendPost, TakenIn, AnnounceNext, AnnouncedAll, MirrorNext,
       MirroredAll, Visit, SendToTarget, RangeDone
  <2>2. ASSUME NEW c \in Conns, Running(ReceiveStep(c)) PROVE (ppc \notin Looping => target = None)'
    <3>1. CASE StartListener(c)
      BY <2>2, <3>1, ReceiveFrame DEF StartListener, Typed, Indices, CopiesBounded
    <3> QED
      BY <2>2, <3>1, ReceiveFrame DEF CopiesBounded
  <2>3. ASSUME NEW c \in Conns, Running(CommandStep(c)) \/ NetStep(c)
        PROVE  UNCHANGED <<ppc, target>>
    BY <2>3, CommandFrame, NetFrame
  <2> QED
    BY <2>1, <2>2, <2>3, StepKinds DEF CopiesBounded
<1>2. ASSUME NEW d \in Conns, ~cancelled'[d], cpc'[d] # "self", NEW i \in 1..Len(posts')
      PROVE  copies'[d][posts'[i]] + ToCome(d, i)' <= 3
  <2>1. CASE Running(PollerStep)
    BY <1>2, <2>1, BoundPoller, PollerFrame
  <2>2. ASSUME NEW c \in Conns, Running(ReceiveStep(c))
        PROVE  copies'[d][posts'[i]] + ToCome(d, i)' <= 3
    BY <1>2, <2>2, BoundReceive, ReceiveFrame
  <2>3. ASSUME NEW c \in Conns, Running(CommandStep(c))
        PROVE  copies'[d][posts'[i]] + ToCome(d, i)' <= 3
    <3>1. PICK to \in {"listen", "part", "noton", "wholock"} :
             cpc[c] = "idle" /\ cpc' = [cpc EXCEPT ![c] = to]
      BY <2>3, CommandFrame
    <3>2. UNCHANGED <<threadVars, pollVars, replaying, sent>>
      BY <2>3, CommandFrame
    <3>3. cpc[d] # "self" /\ (JoinOwesPost(d, i)' => JoinOwesPost(d, i))
      BY <1>2, <3>1, <3>2 DEF JoinOwesPost, Typed, TypeOK, ConnTypes
    <3> QED
      BY <1>2, <3>2, <3>3, NoMoreToCome DEF InHand, VisitAhead
  <2>4. CASE UNCHANGED vars \/ \E c \in Conns : NetStep(c)
    <3>1. UNCHANGED <<threadVars, pollVars, recvVars, view>> /\ ~cancelled[d]
      BY <1>2, <2>4, NetFrame
    <3> QED
      BY <1>2, <3>1, NoMoreToCome DEF JoinOwesPost, InHand, VisitAhead
  <2> QED
    BY <2>1, <2>2, <2>3, <2>4, StepKinds
<1> QED
  BY <1>1, <1>2, NoStrayCopies DEF CopiesBounded
-----------------------------------------------------------------------------
(* The inductive invariant and what follows from it.                        *)
THEOREM Inductive == Spec => []IInv
<1>1. Init => IInv
  <2>1. Init => Typed
    BY TypedInit
  <2>2. Init => LockHeld /\ Membership
    BY ConstAssumption DEF Init, LockHeld, Membership
  <2>3. Init => TakenIn1 /\ AuthorsKnown
    BY DEF Init, TakenIn1, TakenInOnce, AuthorsKnown
  <2>4. Init => PostsOwed /\ AuthorsOwed
    BY DEF Init, PostsOwed, AuthorsOwed
  <2> QED
    BY <2>1, <2>2, <2>3, <2>4 DEF IInv, Typed
<1>2. IInv /\ [Next]_vars => IInv'
  BY TypedStep, LockHeldStep, MembershipStep, TakenInStep, AuthorsKnownStep,
     PostsOwedStep, AuthorsOwedStep DEF IInv, Typed
<1> QED
  BY <1>1, <1>2, PTL DEF Spec

\* Between polls a joined client has been sent the whole backlog.
THEOREM NoPostIsLost == Spec => []NoPostLost
<1>1. IInv => NoPostLost
  <2> SUFFICES ASSUME IInv, PollerAtRest, NEW c \in Conns, Settled(c),
                      NEW i \in 1..Len(posts)
               PROVE  copies[c][posts[i]] > 0
    BY DEF NoPostLost, PostSet
  <2>1. c \in subscribers
    BY DEF IInv, Membership, Settled
  <2>2. PostDue(c, i)
    BY <2>1 DEF IInv, PostsOwed, Settled
  <2>3. ~PollerOwesPost(c, i)
    BY DEF IInv, TypeOK, ThreadTypes, PollerTypes, Indices, PollerAtRest, PollerOwesPost
  <2>4. ~JoinOwesPost(c, i)
    BY DEF Settled, JoinOwesPost
  <2> QED
    BY <2>2, <2>3, <2>4 DEF PostDue
<1> QED
  BY <1>1, Inductive, PTL

\* Between polls a joined client knows the author of every post of the backlog.
THEOREM NoAuthorIsMissing == Spec => []NoAuthorMissing
<1>1. IInv => NoAuthorMissing
  <2> SUFFICES ASSUME IInv, PollerAtRest, NEW c \in Conns, Settled(c),
                      NEW i \in 1..Len(posts)
               PROVE  AuthorOf[posts[i]] \in announced[c]
    BY DEF NoAuthorMissing, PostSet
  <2> DEFINE a == AuthorOf[posts[i]]
  <2>1. c \in subscribers /\ a \in authors
    BY DEF IInv, Membership, Settled, AuthorsKnown
  <2>2. AuthorDue(c, a)
    BY <2>1 DEF IInv, AuthorsOwed, Settled
  <2>3. ~PollerOwesAuthor(c, a) /\ ~JoinOwesAuthor(c, a)
    BY DEF IInv, AuthorsKnown, PollerAtRest, PollerOwesAuthor, Settled, JoinOwesAuthor
  <2> QED
    BY <2>2, <2>3 DEF AuthorDue
<1> QED
  BY <1>1, Inductive, PTL

\* No post is in the backlog twice.
THEOREM EachPostTakenInOnce == Spec => []TakenInOnce
<1>1. IInv => TakenInOnce
  BY DEF IInv, TakenIn1
<1> QED
  BY <1>1, Inductive, PTL

\* Between commands the connection's and the channel's side of the mapping agree.
THEOREM MappingAgrees == Spec => []SubscribedWhereJoined
<1>1. IInv => SubscribedWhereJoined
  BY DEF IInv, Membership, SubscribedWhereJoined
<1> QED
  BY <1>1, Inductive, PTL

\* Three copies of a post per JOIN is the most that its races with the poller
\* can produce.
THEOREM NoMoreThanThree == Spec => []AtMostThrice
<1>1. Init => CopiesBounded
  BY DEF Init, CopiesBounded
<1>2. IInv /\ CopiesBounded /\ [Next]_vars => CopiesBounded'
  BY CopiesBoundedStep DEF IInv, Typed
<1>3. IInv /\ CopiesBounded => AtMostThrice
  <2> SUFFICES ASSUME IInv, CopiesBounded, NEW c \in Conns, ~cancelled[c], cpc[c] # "self",
                      NEW p \in Posts
               PROVE  copies[c][p] <= 3
    BY DEF AtMostThrice
  <2>1. CASE p \notin PostSet
    BY <2>1 DEF CopiesBounded
  <2>2. CASE p \in PostSet
    <3>1. PICK i \in 1..Len(posts) : p = posts[i]
      BY <2>2 DEF PostSet
    <3>2. copies[c][p] + ToCome(c, i) <= 3 /\ copies[c][p] \in Nat
      BY <3>1 DEF CopiesBounded, IInv, TypeOK, SentTypes
    <3>3. ToCome(c, i) \in Nat
      BY DEF ToCome, One
    <3> QED
      BY <3>2, <3>3
  <2> QED
    BY <2>1, <2>2
<1> QED
  BY <1>1, <1>2, <1>3, Inductive, PTL DEF Spec
=============================================================================
