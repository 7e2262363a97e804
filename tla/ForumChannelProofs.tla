------------------------- MODULE ForumChannelProofs -------------------------
(* Theorems about ForumChannel, for any connections, threads, authors and   *)
(* page size.                                                               *)
EXTENDS ForumChannelInvariant, Integers, FiniteSetTheorems, TLAPS

\* Names of tuples of variables and of the frames that actions share.
USE DEF site, forum, pollVars, loopVars, connVars, viewVars, vars, Poll, Conn,
        StartLine, Nothing, Posts
-----------------------------------------------------------------------------
(* Types.  That the lines and the replays in hand name threads and times    *)
(* needs InHand.                                                            *)
Typed == TypeOK /\ InHand /\ Membership

LEMMA TypedInit == Init => Typed
<1> SUFFICES ASSUME Init PROVE Typed
  OBVIOUS
<1>1. SiteTypes /\ ForumTypes
  <2>1. listening \in BOOLEAN /\ slock \in BOOLEAN
    BY Zenon DEF Init
  <2> QED
    BY <2>1, ConstAssumption DEF Init, SiteTypes, ForumTypes
<1>2. PollerTypes /\ ConnTypes /\ ViewTypes
  BY ConstAssumption DEF Init, PollerTypes, ConnTypes, ViewTypes
<1>3. InHand /\ Membership
  BY DEF Init, InHand, Membership, Replaying
<1> QED
  BY <1>1, <1>2, <1>3 DEF Typed, TypeOK

\* A loop that is extended keeps the type of its sets.
LEMMA ExtendedTyped ==
  ASSUME NEW K, NEW loop \in [Conns -> SUBSET K], NEW at, NEW key \in K,
         NEW loop2 \in Extended(loop, at, key)
  PROVE  /\ loop2 \in [Conns -> SUBSET K]
         /\ \A c \in Conns : /\ loop[c] \subseteq loop2[c]
                             /\ loop2[c] \subseteq loop[c] \cup {key}
BY DEF Extended

\* What the steps of the poller, and those of a connection, leave alone.
LEMMA PollerFrame ==
  PollerStep => UNCHANGED <<site, flock, listening, subscribers, connVars>>
BY DEF PollerStep, PollerWork, Fetch, FetchFails, Wake, Absorb, Taken, NextAuthor,
   NextUpdate, Tell, PollDone

LEMMA ConnFrame ==
  ASSUME NEW c \in Conns, Join(c) \/ JoinStep(c) \/ Part(c)
  PROVE  UNCHANGED <<site, slock, forum, pollVars>>
BY DEF JoinStep, Join, StartListener, Subscribe, SendJoin, SendName, NamesDone, Hold,
   LookUp, Show, ShowDone, Part

\* The poller takes rows of the page in, and the history has those left out.
LEMMA FetchedRows ==
  ASSUME Fetch
  PROVE  /\ \A r \in batch' : \E t \in Page : r = <<t, updated[t]>>
         /\ \A t \in Page : <<t, updated[t]>> \in batch' \cup skipped'
         /\ skipped \subseteq skipped'
         /\ \A r \in skipped' : r \in skipped \/ \E t \in Page : r = <<t, updated[t]>>
<1>1. PICK seen \in SUBSET Page :
         /\ batch' = {<<t, updated[t]>> : t \in seen}
         /\ skipped' = skipped \cup {<<t, updated[t]>> : t \in Page \ seen}
  BY DEF Fetch
<1> QED
  BY <1>1

\* The minute never goes back from one post to the next.
LEMMA MinuteForward ==
  ASSUME NEW p \in 0..MaxPosts, NEW q \in 0..MaxPosts, p <= q
  PROVE  Minute(p) \in Nat /\ Minute(q) \in Nat /\ Minute(p) <= Minute(q)
<1>1. CASE p = 0
  <2>1. Minute(p) = 0 /\ Minute(q) \in Nat
    BY <1>1, ConstAssumption DEF Minute
  <2> QED
    BY <2>1
<1>2. CASE p # 0
  <2>1. p \in Posts /\ q \in Posts
    BY <1>2, ConstAssumption
  <2>2. Minute(p) = MinuteOf[p] /\ Minute(q) = MinuteOf[q]
    BY <1>2, <2>1 DEF Minute
  <2> QED
    BY <2>1, <2>2, ConstAssumption
<1> QED
  BY <1>1, <1>2

\* A row that is taken in may add its author and its thread to loops under way.
LEMMA LoopsGrow ==
  ASSUME PollerTypes, ConnTypes, NEW r \in batch, Absorb(r)
  PROVE  /\ toName' \in [Conns -> SUBSET Authors] /\ toShow' \in [Conns -> SUBSET Threads]
         /\ \A c \in Conns : /\ toName[c] \subseteq toName'[c]
                             /\ toShow[c] \subseteq toShow'[c]
                             /\ toShow'[c] \subseteq toShow[c] \cup {r[1]}
<1> DEFINE a == AuthorOf[r[2]]
<1>1. r[1] \in Threads /\ a \in Authors
  BY ConstAssumption DEF PollerTypes
<1>2. /\ toName' = toName \/ toName' \in Extended(toName, "names", a)
      /\ toShow' = toShow \/ toShow' \in Extended(toShow, "show", r[1])
  BY DEF Absorb, Taken
<1>3. toName \in [Conns -> SUBSET Authors] /\ toShow \in [Conns -> SUBSET Threads]
  BY DEF ConnTypes
<1> HIDE DEF a
<1>4. toName' \in [Conns -> SUBSET Authors] /\ \A c \in Conns : toName[c] \subseteq toName'[c]
  <2>1. CASE toName' \in Extended(toName, "names", a)
    BY <1>1, <1>3, <2>1, ExtendedTyped
  <2> QED
    BY <1>2, <1>3, <2>1
<1>5. /\ toShow' \in [Conns -> SUBSET Threads]
      /\ \A c \in Conns : toShow[c] \subseteq toShow'[c] /\ toShow'[c] \subseteq toShow[c] \cup {r[1]}
  <2>1. CASE toShow' \in Extended(toShow, "show", r[1])
    BY <1>1, <1>3, <2>1, ExtendedTyped
  <2> QED
    BY <1>2, <1>3, <2>1
<1> QED
  BY <1>4, <1>5

LEMMA TypedPoller == Typed /\ PollerStep => Typed'
<1> SUFFICES ASSUME Typed, PollerStep PROVE Typed'
  OBVIOUS
<1> USE DEF Typed, TypeOK, Replaying
<1>0. UNCHANGED <<site, flock, listening, subscribers, connVars>>
  BY PollerFrame
<1>1. CASE Fetch
  <2>1. \A t \in Page : updated[t] \in Posts
    BY ConstAssumption DEF Page, SiteTypes
  <2>2. batch' \subseteq Threads \X Posts /\ skipped' \subseteq Threads \X Posts
    <3>1. Page \subseteq Threads /\ skipped \subseteq Threads \X Posts
      BY DEF Page, PollerTypes
    <3> QED
      BY <1>1, <2>1, <3>1, FetchedRows
  <2> QED
    BY <1>0, <1>1, <2>2
    DEF Fetch, SiteTypes, ForumTypes, PollerTypes, ConnTypes, ViewTypes, InHand, Membership
<1>2. CASE FetchFails \/ Wake \/ PollDone
  BY <1>0, <1>2
  DEF FetchFails, Wake, PollDone, SiteTypes, ForumTypes, PollerTypes, ConnTypes, ViewTypes,
      InHand, Membership
<1>3. ASSUME NEW r \in batch, Absorb(r) PROVE Typed'
  <2>1. r \in Threads \X Posts /\ r[1] \in Threads /\ r[2] \in Posts
    BY DEF PollerTypes
  <2>2. r[2] \in 0..MaxPosts /\ r[2] # 0 /\ AuthorOf[r[2]] \in Authors
    BY <2>1, ConstAssumption
  <2>3. toName' \in [Conns -> SUBSET Authors]
    BY <1>3, LoopsGrow
  <2>4. /\ toShow' \in [Conns -> SUBSET Threads]
        /\ \A c \in Conns : toShow'[c] \subseteq toShow[c] \cup {r[1]}
    BY <1>3, LoopsGrow
  <2>5. known' \in [Threads -> 0..MaxPosts] /\ known' = [known EXCEPT ![r[1]] = r[2]]
    BY <1>3, <2>2 DEF Absorb, Taken, ForumTypes
  <2>6. InHand'
    BY <1>0, <1>3, <2>1, <2>2, <2>4, <2>5 DEF Absorb, Taken, InHand, ForumTypes
  <2>7. SiteTypes' /\ ForumTypes'
    BY <1>0, <1>3, <2>2, <2>5 DEF Absorb, Taken, SiteTypes, ForumTypes
  <2>8. PollerTypes'
    BY <1>3, <2>1, <2>2 DEF Absorb, Taken, PollerTypes
  <2>9. ConnTypes' /\ ViewTypes' /\ Membership'
    BY <1>0, <1>3, <2>3, <2>4 DEF Absorb, Taken, ConnTypes, ViewTypes, Membership
  <2> QED
    BY <2>6, <2>7, <2>8, <2>9
<1>4. ASSUME NEW a \in joined, NextAuthor(a) PROVE Typed'
  <2>1. cur' \in Authors \X {0} /\ 0 \in 0..MaxPosts
    BY <1>4, ConstAssumption DEF NextAuthor, PollerTypes
  <2> QED
    BY <1>0, <1>4, <2>1
    DEF NextAuthor, SiteTypes, ForumTypes, PollerTypes, ConnTypes, ViewTypes, InHand,
        Membership
<1>5. ASSUME NEW u \in news, NextUpdate(u) PROVE Typed'
  <2>1. cur' \in Threads \X Posts /\ Posts \subseteq 0..MaxPosts
    BY <1>5, ConstAssumption DEF NextUpdate, PollerTypes
  <2>2. PollerTypes' /\ InHand'
    BY <1>0, <1>5, <2>1 DEF NextUpdate, PollerTypes, ForumTypes, InHand
  <2> QED
    BY <1>0, <1>5, <2>2
    DEF NextUpdate, SiteTypes, ForumTypes, ConnTypes, ViewTypes, Membership
<1>6. ASSUME NEW c \in Conns, Tell(c) PROVE Typed'
  <2>1. ViewTypes'
    <3>1. cur \in (Authors \X {0}) \cup (Threads \X Posts)
      BY <1>6 DEF Tell, InHand
    <3>2. CASE cur[2] = 0
      <4>1. cur[1] \in Authors
        BY <3>1, <3>2, ConstAssumption
      <4> QED
        BY <1>6, <3>2, <4>1 DEF Tell, ViewTypes
    <3>3. CASE cur[2] # 0
      <4>1. cur[1] \in Threads /\ cur[2] \in 0..MaxPosts
        BY <3>1, <3>3, ConstAssumption
      <4> QED
        BY <1>6, <3>3, <4>1, SMTT(30) DEF Tell, Shown, ViewTypes
    <3> QED
      BY <3>2, <3>3
  <2> QED
    BY <1>0, <1>6, <2>1
    DEF Tell, SiteTypes, ForumTypes, PollerTypes, ConnTypes, InHand, Membership
<1> QED
  BY <1>1, <1>2, <1>3, <1>4, <1>5, <1>6 DEF PollerStep, PollerWork

LEMMA TypedConn ==
  ASSUME Typed, NEW c \in Conns, Join(c) \/ JoinStep(c) \/ Part(c)
  PROVE  Typed'
<1> USE DEF Typed, TypeOK, Replaying
<1>0. UNCHANGED <<site, slock, forum, pollVars>>
  BY ConnFrame
<1>1. SiteTypes'
  BY <1>0 DEF SiteTypes
<1>2. CASE Join(c)
  <2>1. joins' \in 0..MaxJoins
    BY <1>2, ConstAssumption DEF Join, ConnTypes
  <2> QED
    BY <1>0, <1>1, <1>2, <2>1
    DEF Join, ForumTypes, PollerTypes, ConnTypes, ViewTypes, InHand, Membership
<1>3. CASE StartListener(c)
  <2>1. listening' = TRUE /\ mine' \in [Conns -> BOOLEAN]
    BY <1>3, Zenon DEF StartListener, ConnTypes
  <2>2. subscribers' = subscribers
    BY <1>3 DEF StartListener, Membership
  <2>3. ForumTypes' /\ ConnTypes'
    BY <1>0, <1>3, <2>1, <2>2 DEF StartListener, ForumTypes, ConnTypes
  <2> QED
    BY <1>0, <1>1, <1>3, <2>1, <2>2, <2>3
    DEF StartListener, PollerTypes, ConnTypes, ViewTypes, InHand, Membership
<1>4. CASE Subscribe(c)
  BY <1>0, <1>1, <1>4
  DEF Subscribe, ForumTypes, PollerTypes, ConnTypes, ViewTypes, InHand, Membership
<1>5. CASE SendJoin(c)
  <2>1. 0 \in 0..MaxPosts
    BY ConstAssumption
  <2>2. ViewTypes'
    BY <1>5, <2>1 DEF SendJoin, ViewTypes
  <2> QED
    BY <1>0, <1>1, <1>5, <2>2
    DEF SendJoin, ForumTypes, PollerTypes, ConnTypes, InHand, Membership
<1>6. CASE SendName(c)
  BY <1>0, <1>1, <1>6
  DEF SendName, ForumTypes, PollerTypes, ConnTypes, ViewTypes, InHand, Membership
<1>7. CASE NamesDone(c)
  BY <1>0, <1>1, <1>7
  DEF NamesDone, ForumTypes, PollerTypes, ConnTypes, ViewTypes, InHand, Membership
<1>8. CASE Hold(c)
  <2>1. PICK t \in toShow[c] : /\ toShow' = [toShow EXCEPT ![c] = @ \ {t}]
                              /\ held' = [held EXCEPT ![c] = <<t, known[t]>>]
    BY <1>8 DEF Hold
  <2>2. <<t, known[t]>> \in Threads \X Posts
    BY ConstAssumption DEF ConnTypes, InHand, ForumTypes
  <2>3. ConnTypes' /\ InHand'
    BY <1>0, <1>8, <2>1, <2>2 DEF Hold, ConnTypes, InHand
  <2> QED
    BY <1>0, <1>1, <1>8, <2>3 DEF Hold, ForumTypes, PollerTypes, ConnTypes, ViewTypes, Membership
<1>9. CASE LookUp(c)
  BY <1>0, <1>1, <1>9
  DEF LookUp, ForumTypes, PollerTypes, ConnTypes, ViewTypes, InHand, Membership
<1>10. CASE Show(c)
  <2>1. held[c] \in Threads \X Posts
    BY <1>10 DEF Show, InHand
  <2>2. held[c][1] \in Threads /\ held[c][2] \in 0..MaxPosts
    BY <2>1
  <2>3. ViewTypes'
    BY <1>10, <2>2 DEF Show, Shown, ViewTypes
  <2> QED
    BY <1>0, <1>1, <1>10, <2>3
    DEF Show, ForumTypes, PollerTypes, ConnTypes, InHand, Membership
<1>11. CASE ShowDone(c)
  BY <1>0, <1>1, <1>11
  DEF ShowDone, ForumTypes, PollerTypes, ConnTypes, ViewTypes, InHand, Membership
<1>12. CASE Part(c)
  <2>1. mine' \in [Conns -> BOOLEAN]
    BY <1>12 DEF Part, ConnTypes
  <2> QED
    BY <1>0, <1>1, <1>12, <2>1
    DEF Part, ForumTypes, PollerTypes, ConnTypes, ViewTypes, InHand, Membership
<1> QED
  BY <1>2, <1>3, <1>4, <1>5, <1>6, <1>7, <1>8, <1>9, <1>10, <1>11, <1>12 DEF JoinStep

LEMMA TypedStep == Typed /\ [Next]_vars => Typed'
<1> SUFFICES ASSUME Typed, [Next]_vars PROVE Typed'
  OBVIOUS
<1>1. CASE UNCHANGED vars
  BY <1>1 DEF Typed, TypeOK, SiteTypes, ForumTypes, PollerTypes, ConnTypes, ViewTypes,
     InHand, Membership
<1>2. ASSUME NEW t \in Threads, Posted(t) PROVE Typed'
  <2>1. now' \in 0..MaxPosts /\ updated' \in [Threads -> 0..MaxPosts]
    BY <1>2, ConstAssumption DEF Posted, Typed, TypeOK, SiteTypes
  <2> QED
    BY <1>2, <2>1 DEF Posted, Typed, TypeOK, SiteTypes, ForumTypes, PollerTypes, ConnTypes,
       ViewTypes, InHand, Membership
<1> QED
  BY <1>1, <1>2, TypedPoller, TypedConn DEF Next
-----------------------------------------------------------------------------
(* The lock, and how far everything may be.                                 *)
LEMMA LockHeldStep == Typed /\ LockHeld /\ [Next]_vars => LockHeld'
<1> SUFFICES ASSUME Typed, LockHeld, [Next]_vars PROVE LockHeld'
  OBVIOUS
<1> USE DEF LockHeld, Replaying, Typed, TypeOK, ConnTypes, ForumTypes
<1>1. CASE UNCHANGED vars
  BY <1>1
<1>2. CASE PollerStep
  BY <1>2, PollerFrame
<1>3. ASSUME NEW t \in Threads, Posted(t) PROVE LockHeld'
  BY <1>3 DEF Posted
<1>4. ASSUME NEW c \in Conns, Join(c) \/ JoinStep(c) \/ Part(c) PROVE LockHeld'
  <2>1. CASE Subscribe(c)
    BY <2>1, ConstAssumption DEF Subscribe
  <2>2. CASE ShowDone(c)
    BY <2>2, ConstAssumption DEF ShowDone
  <2>3. CASE \/ Join(c) \/ StartListener(c) \/ SendJoin(c) \/ SendName(c) \/ NamesDone(c)
             \/ Hold(c) \/ LookUp(c) \/ Show(c) \/ Part(c)
    BY <2>3 DEF Join, StartListener, SendJoin, SendName, NamesDone, Hold, LookUp, Show,
       Part
  <2> QED
    BY <1>4, <2>1, <2>2, <2>3 DEF JoinStep
<1> QED
  BY <1>1, <1>2, <1>3, <1>4 DEF Next

LEMMA BoundedPoller == Typed /\ Bounded /\ PollerStep => Bounded'
<1> SUFFICES ASSUME Typed, Bounded, PollerStep PROVE Bounded'
  OBVIOUS
<1> USE DEF Typed, TypeOK, SiteTypes, ForumTypes, PollerTypes, ConnTypes, ViewTypes
<1>0. UNCHANGED <<site, flock, listening, subscribers, connVars>>
  BY PollerFrame
<1>1. CASE Fetch
  <2>1. \A t \in Page : t \in Threads
    BY DEF Page
  <2>2. \A r \in batch' : r[1] \in Threads /\ r[2] = updated[r[1]] /\ r = <<r[1], r[2]>>
    BY <1>1, <2>1, FetchedRows
  <2> QED
    BY <1>0, <1>1, <2>2, SMTT(30) DEF Fetch, Bounded
<1>2. CASE FetchFails \/ Wake \/ PollDone
  BY <1>0, <1>2 DEF FetchFails, Wake, PollDone, Bounded
<1>3. ASSUME NEW r \in batch, Absorb(r) PROVE Bounded'
  <2>1. /\ r[1] \in Threads /\ r[2] \in Nat /\ r = <<r[1], r[2]>>
        /\ known[r[1]] <= r[2] /\ r[2] <= updated[r[1]]
    BY DEF Bounded
  <2>2. known' = [known EXCEPT ![r[1]] = r[2]]
    BY <1>3 DEF Absorb, Taken
  <2>3. \A t \in Threads : known[t] <= known'[t] /\ known'[t] <= updated[t]
    BY <2>1, <2>2 DEF Bounded
  <2>4. batch' \subseteq batch /\ r \notin batch' /\ news' \subseteq news \cup {r}
    BY <1>3 DEF Absorb, Taken
  <2>5. \A s \in batch' : known'[s[1]] <= s[2]
    <3> SUFFICES ASSUME NEW s \in batch' PROVE known'[s[1]] <= s[2]
      OBVIOUS
    <3>1. s[1] # r[1] /\ s[1] \in Threads
      BY <2>4 DEF Bounded
    <3> QED
      BY <2>2, <2>4, <3>1 DEF Bounded
  <2>6. \A u \in news' : u[2] <= known'[u[1]]
    <3> SUFFICES ASSUME NEW u \in news' PROVE u[2] <= known'[u[1]]
      OBVIOUS
    <3>1. CASE u \in news
      <4>1. u[1] \in Threads /\ u[2] \in Nat /\ u[2] <= known[u[1]]
        BY <3>1 DEF Bounded
      <4>2. known[u[1]] \in Nat /\ known'[u[1]] \in Nat
        BY <2>1, <2>2, <4>1
      <4> QED
        BY <2>3, <4>1, <4>2
    <3>2. CASE u = r
      BY <2>1, <2>2, <3>2
    <3> QED
      BY <2>4, <3>1, <3>2
  <2>7. \A c \in Conns : /\ cpc[c] \in {"name", "shown"} => held[c][2] <= known'[held[c][1]]
                         /\ \A t \in Threads : best[c][t] <= known'[t]
    <3> SUFFICES ASSUME NEW c \in Conns
                 PROVE  /\ cpc[c] \in {"name", "shown"} => held[c][2] <= known'[held[c][1]]
                        /\ \A t \in Threads : best[c][t] <= known'[t]
      OBVIOUS
    <3>1. \A t \in Threads : known[t] \in Nat /\ known'[t] \in Nat /\ best[c][t] \in Nat
      BY <2>1, <2>2
    <3>2. cpc[c] \in {"name", "shown"} => held[c][1] \in Threads /\ held[c][2] \in Nat
      BY DEF InHand
    <3> QED
      BY <2>3, <3>1, <3>2 DEF Bounded
  <2>8. UNCHANGED <<best, held, cpc, updated, now>> /\ ppc' = "absorb"
    BY <1>0, <1>3 DEF Absorb, Taken
  <2> QED
    BY <2>3, <2>4, <2>5, <2>6, <2>7, <2>8 DEF Bounded
<1>4. ASSUME NEW a \in joined, NextAuthor(a) PROVE Bounded'
  BY <1>0, <1>4 DEF NextAuthor, Bounded
<1>5. ASSUME NEW u \in news, NextUpdate(u) PROVE Bounded'
  BY <1>0, <1>5 DEF NextUpdate, Bounded
<1>6. ASSUME NEW c \in Conns, Tell(c) PROVE Bounded'
  <2>1. CASE cur[2] = 0
    BY <1>0, <1>6, <2>1 DEF Tell, Bounded
  <2>2. CASE cur[2] # 0
    <3>1. cur[1] \in Threads /\ cur[2] \in 0..MaxPosts /\ cur[2] <= known[cur[1]]
      BY <1>6, <2>2 DEF Tell, InHand, Bounded
    <3>2. best' = [best EXCEPT ![c][cur[1]] = IF @ < cur[2] THEN cur[2] ELSE @]
      BY <1>6, <2>2 DEF Tell, Shown
    <3>3. \A d \in Conns : \A t \in Threads : best'[d][t] <= known[t]
      BY <3>1, <3>2 DEF Bounded
    <3> QED
      BY <1>0, <1>6, <3>3 DEF Tell, Bounded
  <2> QED
    BY <2>1, <2>2
<1> QED
  BY <1>1, <1>2, <1>3, <1>4, <1>5, <1>6 DEF PollerStep, PollerWork

LEMMA BoundedConn ==
  ASSUME Typed, Bounded, NEW c \in Conns, Join(c) \/ JoinStep(c) \/ Part(c)
  PROVE  Bounded'
<1> USE DEF Typed, TypeOK, SiteTypes, ForumTypes, PollerTypes, ConnTypes, ViewTypes
<1>0. UNCHANGED <<site, slock, forum, pollVars>>
  BY ConnFrame
<1>1. CASE \/ Join(c) \/ StartListener(c) \/ Subscribe(c) \/ SendName(c) \/ NamesDone(c)
           \/ LookUp(c) \/ ShowDone(c) \/ Part(c)
  BY <1>0, <1>1 DEF Join, StartListener, Subscribe, SendName, NamesDone, LookUp, ShowDone,
     Part, Bounded
<1>2. CASE SendJoin(c)
  <2>1. \A d \in Conns : \A t \in Threads : best'[d][t] <= known[t]
    BY <1>2 DEF SendJoin, Bounded
  <2> QED
    BY <1>0, <1>2, <2>1 DEF SendJoin, Bounded
<1>3. CASE Hold(c)
  BY <1>0, <1>3 DEF Hold, Bounded
<1>4. CASE Show(c)
  <2>1. held[c][1] \in Threads /\ held[c][2] \in 0..MaxPosts /\ held[c][2] <= known[held[c][1]]
    BY <1>4 DEF Show, InHand, Bounded
  <2>2. \A d \in Conns : \A t \in Threads : best'[d][t] <= known[t]
    BY <1>4, <2>1 DEF Show, Shown, Bounded
  <2> QED
    BY <1>0, <1>4, <2>2 DEF Show, Bounded
<1> QED
  BY <1>1, <1>2, <1>3, <1>4 DEF JoinStep

LEMMA BoundedStep == Typed /\ Bounded /\ [Next]_vars => Bounded'
<1> SUFFICES ASSUME Typed, Bounded, [Next]_vars PROVE Bounded'
  OBVIOUS
<1>1. CASE UNCHANGED vars
  BY <1>1 DEF Bounded
<1>2. ASSUME NEW t \in Threads, Posted(t) PROVE Bounded'
  <2>1. \A s \in Threads : updated'[s] <= now' /\ known[s] <= updated'[s]
                          /\ updated[s] <= updated'[s] /\ updated'[s] \in Nat
    BY <1>2 DEF Posted, Bounded, Typed, TypeOK, SiteTypes, ForumTypes
  <2>2. \A r \in batch : r[2] <= updated'[r[1]]
    <3> SUFFICES ASSUME NEW r \in batch PROVE r[2] <= updated'[r[1]]
      OBVIOUS
    <3>1. r[1] \in Threads /\ r[2] \in Nat /\ r[2] <= updated[r[1]] /\ updated[r[1]] \in Nat
      BY DEF Typed, TypeOK, SiteTypes, PollerTypes, Bounded
    <3> QED
      BY <2>1, <3>1
  <2> QED
    BY <1>2, <2>1, <2>2 DEF Posted, Bounded
<1> QED
  BY <1>1, <1>2, BoundedPoller, BoundedConn DEF Next
-----------------------------------------------------------------------------
(* Updates are owed.                                                        *)
\* The later of what a client knows and what it is told, of which neither is
\* later than what the forum knows and one is of that minute.
LEMMA LaterIsKnown ==
  ASSUME NEW b \in 0..MaxPosts, NEW v \in 0..MaxPosts, NEW k \in 0..MaxPosts,
         b <= k, v <= k, Minute(b) = Minute(k) \/ Minute(v) = Minute(k)
  PROVE  Minute(IF b < v THEN v ELSE b) = Minute(k)
<1>1. /\ Minute(b) \in Nat /\ Minute(v) \in Nat /\ Minute(k) \in Nat
      /\ Minute(b) <= Minute(k) /\ Minute(v) <= Minute(k)
  BY MinuteForward
<1>2. CASE b < v
  <2>1. Minute(b) <= Minute(v)
    BY <1>2, MinuteForward, ConstAssumption
  <2> QED
    BY <1>1, <1>2, <2>1
<1>3. CASE ~(b < v)
  <2>1. v <= b
    BY <1>3, ConstAssumption
  <2>2. Minute(v) <= Minute(b)
    BY <2>1, MinuteForward
  <2> QED
    BY <1>1, <1>3, <2>2
<1> QED
  BY <1>2, <1>3

LEMMA UpdatesOwedPoller ==
  ASSUME Typed, Bounded, UpdatesOwed, PollerStep,
         NEW d \in subscribers, NEW t \in Threads
  PROVE  UpdateDue(d, t)'
<1> USE DEF Typed, TypeOK, SiteTypes, ForumTypes, PollerTypes, ConnTypes, ViewTypes
<1>0. UNCHANGED <<site, flock, listening, subscribers, connVars>>
  BY PollerFrame
<1>1. UpdateDue(d, t) /\ d \in Conns
  BY DEF UpdatesOwed
<1> USE DEF UpdateDue, PollerOwesUpdate, JoinOwesUpdate, UpToDate
<1>2. CASE Fetch \/ FetchFails \/ Wake \/ PollDone
  BY <1>0, <1>1, <1>2 DEF Fetch, FetchFails, Wake, PollDone, InHand
<1>3. ASSUME NEW r \in batch, Absorb(r) PROVE UpdateDue(d, t)'
  <2>1. r \in Threads \X Posts
    BY DEF PollerTypes
  <2>2. /\ known' = [known EXCEPT ![r[1]] = r[2]] /\ UNCHANGED <<best, cur, must>>
        /\ ppc = "absorb" /\ ppc' = "absorb"
        /\ news' = IF Moved(r) THEN news \cup {r} ELSE news
    BY <1>3 DEF Absorb, Taken
  <2>3. CASE t = r[1] /\ Moved(r)
    BY <2>1, <2>2, <2>3
  <2>4. CASE ~(t = r[1] /\ Moved(r))
    <3>1. Minute(known'[t]) = Minute(known[t]) /\ news \subseteq news'
      BY <2>1, <2>2, <2>4 DEF Moved
    <3>2. toShow[d] \subseteq toShow'[d]
      BY <1>1, <1>3, LoopsGrow
    <3> QED
      BY <1>0, <1>1, <2>2, <3>1, <3>2
  <2> QED
    BY <2>3, <2>4
<1>4. ASSUME NEW a \in joined, NextAuthor(a) PROVE UpdateDue(d, t)'
  BY <1>0, <1>1, <1>4 DEF NextAuthor
<1>5. ASSUME NEW u \in news, NextUpdate(u) PROVE UpdateDue(d, t)'
  BY <1>0, <1>1, <1>5 DEF NextUpdate
<1>6. ASSUME NEW c \in Conns, Tell(c) PROVE UpdateDue(d, t)'
  <2>1. UNCHANGED <<news, cur, known, toShow>> /\ ppc' = "send" /\ must' = must \ {c}
    BY <1>6 DEF Tell
  <2>2. /\ known[t] \in 0..MaxPosts /\ best[d][t] \in 0..MaxPosts
        /\ best[d][t] <= known[t]
    BY <1>1 DEF Bounded
  <2>3. CASE d = c /\ cur[2] # 0 /\ cur[1] = t
    <3>1. /\ best' = [best EXCEPT ![c][t] = IF @ < cur[2] THEN cur[2] ELSE @]
          /\ cur[2] \in 0..MaxPosts /\ cur[2] <= known[t]
      BY <1>6, <2>3 DEF Tell, Shown, InHand, Bounded
    <3>2. best'[d][t] = IF best[d][t] < cur[2] THEN cur[2] ELSE best[d][t]
      BY <1>1, <2>3, <3>1
    <3>3. CASE UpToDate(cur, t) \/ Minute(best[d][t]) = Minute(known[t])
      <4>1. Minute(cur[2]) = Minute(known[t]) \/ Minute(best[d][t]) = Minute(known[t])
        BY <3>3
      <4>2. Minute(best'[d][t]) = Minute(known[t])
        BY <2>2, <3>1, <3>2, <4>1, LaterIsKnown
      <4> QED
        BY <2>1, <4>2
    <3>4. CASE ~(UpToDate(cur, t) \/ Minute(best[d][t]) = Minute(known[t]))
      BY <1>0, <1>1, <2>1, <3>4
    <3> QED
      BY <3>3, <3>4
  <2>4. CASE ~(d = c /\ cur[2] # 0 /\ cur[1] = t)
    <3>1. best'[d][t] = best[d][t]
      BY <1>1, <1>6, <2>4 DEF Tell, Shown
    <3>2. d = c /\ UpToDate(cur, t) => Minute(best[d][t]) = Minute(known[t])
      <4>1. CASE cur[1] # t
        BY <4>1
      <4>2. CASE cur[2] = 0
        <5> SUFFICES ASSUME Minute(known[t]) = 0 PROVE Minute(best[d][t]) = 0
          BY <4>2 DEF Minute
        <5>1. Minute(best[d][t]) \in Nat /\ Minute(best[d][t]) <= Minute(known[t])
          BY <2>2, MinuteForward
        <5> QED
          BY <5>1
      <4> QED
        BY <2>4, <4>1, <4>2
    <3> QED
      BY <1>0, <1>1, <2>1, <3>1, <3>2
  <2> QED
    BY <2>3, <2>4
<1> QED
  BY <1>2, <1>3, <1>4, <1>5, <1>6 DEF PollerStep, PollerWork

LEMMA UpdatesOwedConn ==
  ASSUME Typed, Bounded, UpdatesOwed, NEW c \in Conns, Join(c) \/ JoinStep(c) \/ Part(c),
         NEW d \in subscribers', NEW t \in Threads
  PROVE  UpdateDue(d, t)'
<1> USE DEF Typed, TypeOK, SiteTypes, ForumTypes, PollerTypes, ConnTypes, ViewTypes,
            Replaying
<1>0. UNCHANGED <<site, slock, forum, pollVars>>
  BY ConnFrame
<1>1. d \in Conns
  BY TypedConn
<1> USE DEF UpdateDue, PollerOwesUpdate, JoinOwesUpdate, UpToDate
<1>2. CASE Subscribe(c) /\ d = c
  BY <1>1, <1>2 DEF Subscribe
<1>3. CASE d \in subscribers
  <2>1. UpdateDue(d, t)
    BY <1>3 DEF UpdatesOwed
  <2>2. CASE Join(c) \/ StartListener(c)
    BY <1>0, <1>1, <1>3, <2>1, <2>2 DEF Join, StartListener, Membership
  <2>3. CASE Subscribe(c)
    BY <1>0, <1>1, <1>3, <2>1, <2>3 DEF Subscribe, Membership
  <2>4. CASE SendJoin(c)
    BY <1>0, <1>1, <2>1, <2>4 DEF SendJoin
  <2>5. CASE SendName(c) \/ LookUp(c) \/ ShowDone(c)
    BY <1>0, <1>1, <2>1, <2>5 DEF SendName, LookUp, ShowDone
  <2>6. CASE NamesDone(c)
    <3>1. CASE d = c
      <4>1. known[t] = 0 => Minute(best[d][t]) = Minute(known[t])
        BY <1>1 DEF Bounded
      <4> QED
        BY <1>0, <2>6, <3>1, <4>1 DEF NamesDone
    <3>2. CASE d # c
      BY <1>0, <1>1, <2>1, <2>6, <3>2 DEF NamesDone
    <3> QED
      BY <3>1, <3>2
  <2>7. CASE Hold(c)
    <3>1. PICK s \in toShow[c] : /\ toShow' = [toShow EXCEPT ![c] = @ \ {s}]
                                /\ held' = [held EXCEPT ![c] = <<s, known[s]>>]
      BY <2>7 DEF Hold
    <3>2. CASE d = c
      BY <1>0, <2>1, <2>7, <3>1, <3>2 DEF Hold
    <3>3. CASE d # c
      BY <1>0, <1>1, <2>1, <2>7, <3>1, <3>3 DEF Hold
    <3> QED
      BY <3>2, <3>3
  <2>8. CASE Show(c)
    <3>1. CASE d = c
      <4>1. /\ held[c][1] \in Threads /\ held[c][2] \in 0..MaxPosts
            /\ held[c][2] <= known[held[c][1]]
        BY <2>8 DEF Show, InHand, Bounded
      <4>2. best' = [best EXCEPT ![c][held[c][1]] = IF @ < held[c][2] THEN held[c][2] ELSE @]
        BY <2>8 DEF Show, Shown
      <4>3. /\ best[c][t] \in 0..MaxPosts /\ known[t] \in 0..MaxPosts
            /\ best[c][t] <= known[t]
        BY DEF Bounded
      <4>4. UpToDate(held[c], t) \/ Minute(best[c][t]) = Minute(known[t]) =>
               Minute(best'[c][t]) = Minute(known[t])
        <5>1. best'[c][t] = IF held[c][1] # t THEN best[c][t]
                            ELSE IF best[c][t] < held[c][2] THEN held[c][2] ELSE best[c][t]
          BY <4>1, <4>2
        <5>2. CASE held[c][1] # t
          BY <5>1, <5>2
        <5>3. CASE held[c][1] = t
          BY <4>1, <4>3, <5>1, <5>3, LaterIsKnown
        <5> QED
          BY <5>2, <5>3
      <4>5. Minute(best[c][t]) # Minute(known[t]) /\ ~UpToDate(held[c], t) =>
               \/ \E u \in news : UpToDate(u, t)
               \/ PollerOwesUpdate(c, t) \/ t \in toShow[c]
        BY <2>1, <2>8, <3>1 DEF Show
      <4> QED
        BY <1>0, <2>8, <3>1, <4>4, <4>5 DEF Show
    <3>2. CASE d # c
      BY <1>0, <1>1, <2>1, <2>8, <3>2 DEF Show, Shown
    <3> QED
      BY <3>1, <3>2
  <2>9. CASE Part(c)
    BY <1>0, <1>1, <2>1, <2>9 DEF Part
  <2> QED
    BY <2>2, <2>3, <2>4, <2>5, <2>6, <2>7, <2>8, <2>9 DEF JoinStep
<1> QED
  <2>1. d \in subscribers \/ (Subscribe(c) /\ d = c)
    BY DEF Join, JoinStep, StartListener, Subscribe, SendJoin, SendName, NamesDone, Hold,
       LookUp, Show, ShowDone, Part
  <2> QED
    BY <1>2, <1>3, <2>1

LEMMA UpdatesOwedStep == Typed /\ Bounded /\ UpdatesOwed /\ [Next]_vars => UpdatesOwed'
<1> SUFFICES ASSUME Typed, Bounded, UpdatesOwed, [Next]_vars PROVE UpdatesOwed'
  OBVIOUS
<1>1. CASE UNCHANGED vars
  BY <1>1 DEF UpdatesOwed, UpdateDue, PollerOwesUpdate, JoinOwesUpdate, UpToDate, Replaying
<1>2. ASSUME NEW t \in Threads, Posted(t) PROVE UpdatesOwed'
  BY <1>2 DEF Posted, UpdatesOwed, UpdateDue, PollerOwesUpdate, JoinOwesUpdate, UpToDate, Replaying
<1>3. CASE PollerStep
  <2>1. subscribers' = subscribers
    BY <1>3, PollerFrame
  <2> QED
    BY <1>3, <2>1, UpdatesOwedPoller DEF UpdatesOwed
<1>4. ASSUME NEW c \in Conns, Join(c) \/ JoinStep(c) \/ Part(c) PROVE UpdatesOwed'
  BY <1>4, UpdatesOwedConn DEF UpdatesOwed
<1> QED
  BY <1>1, <1>2, <1>3, <1>4 DEF Next
-----------------------------------------------------------------------------
(* Authors are owed.                                                        *)
LEMMA AuthorsOwedPoller ==
  ASSUME Typed, AuthorsOwed, PollerStep, NEW d \in subscribers, NEW a \in authors'
  PROVE  AuthorDue(d, a)'
<1> USE DEF Typed, TypeOK, ForumTypes, PollerTypes, ConnTypes, ViewTypes
<1>0. UNCHANGED <<site, flock, listening, subscribers, connVars>> /\ d \in Conns
  BY PollerFrame
<1> USE DEF AuthorDue, PollerOwesAuthor, JoinOwesAuthor
<1>1. a \in authors => AuthorDue(d, a)
  BY DEF AuthorsOwed
<1>2. CASE Fetch \/ FetchFails \/ Wake \/ PollDone
  BY <1>0, <1>1, <1>2 DEF Fetch, FetchFails, Wake, PollDone, InHand
<1>3. ASSUME NEW r \in batch, Absorb(r) PROVE AuthorDue(d, a)'
  <2>1. UNCHANGED <<announced, cur, must>> /\ ppc = "absorb" /\ must = {}
    BY <1>3 DEF Absorb, Taken, InHand
  <2>2. CASE a \in authors
    <3>1. joined \subseteq joined' /\ toName[d] \subseteq toName'[d]
      BY <1>0, <1>3, LoopsGrow DEF Absorb, Taken
    <3> QED
      BY <1>0, <1>1, <2>1, <2>2, <3>1
  <2>3. CASE a \notin authors
    <3>1. a \in joined'
      BY <1>3, <2>3 DEF Absorb, Taken
    <3> QED
      BY <3>1
  <2> QED
    BY <2>2, <2>3
<1>4. ASSUME NEW b \in joined, NextAuthor(b) PROVE AuthorDue(d, a)'
  BY <1>0, <1>1, <1>4 DEF NextAuthor
<1>5. ASSUME NEW u \in news, NextUpdate(u) PROVE AuthorDue(d, a)'
  BY <1>0, <1>1, <1>5 DEF NextUpdate
<1>6. ASSUME NEW c \in Conns, Tell(c) PROVE AuthorDue(d, a)'
  <2>1. UNCHANGED <<joined, cur, toName, authors>> /\ ppc' = "send" /\ must' = must \ {c}
    BY <1>6 DEF Tell
  <2>2. announced[d] \subseteq announced'[d]
    BY <1>0, <1>6 DEF Tell
  <2>3. CASE d = c /\ cur = <<a, 0>>
    <3>1. cur[1] = a /\ cur[2] = 0
      BY <2>3
    <3>2. a \in announced'[d]
      BY <1>0, <1>6, <2>3, <3>1 DEF Tell
    <3> QED
      BY <3>2
  <2>4. CASE ~(d = c /\ cur = <<a, 0>>)
    BY <1>0, <1>1, <2>1, <2>2, <2>4
  <2> QED
    BY <2>3, <2>4
<1> QED
  BY <1>2, <1>3, <1>4, <1>5, <1>6 DEF PollerStep, PollerWork

LEMMA AuthorsOwedConn ==
  ASSUME Typed, AuthorsOwed, NEW c \in Conns, Join(c) \/ JoinStep(c) \/ Part(c),
         NEW d \in subscribers', NEW a \in authors'
  PROVE  AuthorDue(d, a)'
<1> USE DEF Typed, TypeOK, ForumTypes, PollerTypes, ConnTypes, ViewTypes, Replaying
<1>0. UNCHANGED <<site, slock, forum, pollVars>>
  BY ConnFrame
<1>1. d \in Conns
  BY TypedConn
<1> USE DEF AuthorDue, PollerOwesAuthor, JoinOwesAuthor
<1>2. CASE Subscribe(c) /\ d = c
  BY <1>1, <1>2 DEF Subscribe
<1>3. CASE d \in subscribers
  <2>1. AuthorDue(d, a)
    BY <1>0, <1>3 DEF AuthorsOwed
  <2>2. CASE Join(c) \/ StartListener(c)
    BY <1>0, <1>1, <1>3, <2>1, <2>2 DEF Join, StartListener, Membership
  <2>3. CASE Subscribe(c)
    BY <1>0, <1>1, <1>3, <2>1, <2>3 DEF Subscribe, Membership
  <2>4. CASE SendJoin(c)
    BY <1>0, <1>1, <2>1, <2>4 DEF SendJoin
  <2>5. CASE SendName(c)
    <3>1. PICK b \in toName[c] :
             /\ toName' = [toName EXCEPT ![c] = @ \ {b}]
             /\ announced' = [announced EXCEPT ![c] = @ \cup {b}]
      BY <2>5 DEF SendName
    <3> QED
      BY <1>0, <1>1, <2>1, <2>5, <3>1 DEF SendName
  <2>6. CASE NamesDone(c)
    BY <1>0, <1>1, <2>1, <2>6 DEF NamesDone
  <2>7. CASE Hold(c) \/ LookUp(c) \/ Show(c) \/ ShowDone(c) \/ Part(c)
    BY <1>0, <1>1, <2>1, <2>7 DEF Hold, LookUp, Show, ShowDone, Part
  <2> QED
    BY <2>2, <2>3, <2>4, <2>5, <2>6, <2>7 DEF JoinStep
<1> QED
  <2>1. d \in subscribers \/ (Subscribe(c) /\ d = c)
    BY DEF Join, JoinStep, StartListener, Subscribe, SendJoin, SendName, NamesDone, Hold,
       LookUp, Show, ShowDone, Part
  <2> QED
    BY <1>2, <1>3, <2>1

LEMMA AuthorsOwedStep == Typed /\ AuthorsOwed /\ [Next]_vars => AuthorsOwed'
<1> SUFFICES ASSUME Typed, AuthorsOwed, [Next]_vars PROVE AuthorsOwed'
  OBVIOUS
<1>1. CASE UNCHANGED vars
  BY <1>1 DEF AuthorsOwed, AuthorDue, PollerOwesAuthor, JoinOwesAuthor
<1>2. ASSUME NEW t \in Threads, Posted(t) PROVE AuthorsOwed'
  BY <1>2 DEF Posted, AuthorsOwed, AuthorDue, PollerOwesAuthor, JoinOwesAuthor
<1>3. CASE PollerStep
  <2>1. subscribers' = subscribers
    BY <1>3, PollerFrame
  <2> QED
    BY <1>3, <2>1, AuthorsOwedPoller DEF AuthorsOwed
<1>4. ASSUME NEW c \in Conns, Join(c) \/ JoinStep(c) \/ Part(c) PROVE AuthorsOwed'
  BY <1>4, AuthorsOwedConn DEF AuthorsOwed
<1> QED
  BY <1>1, <1>2, <1>3, <1>4 DEF Next
-----------------------------------------------------------------------------
(* The inductive invariant and what follows from it.                        *)

\* The mapping, the lock and what is owed hold in every reachable state.
THEOREM Inductive == Spec => []IInv
<1>1. Init => IInv
  <2>1. Init => Typed
    BY TypedInit
  <2>2. Init => LockHeld /\ Bounded
    BY ConstAssumption DEF Init, LockHeld, Bounded, Replaying
  <2>3. Init => UpdatesOwed /\ AuthorsOwed
    BY DEF Init, UpdatesOwed, AuthorsOwed
  <2> QED
    BY <2>1, <2>2, <2>3 DEF IInv, Typed
<1>2. IInv /\ [Next]_vars => IInv'
  BY TypedStep, LockHeldStep, BoundedStep, UpdatesOwedStep, AuthorsOwedStep
  DEF IInv, Typed
<1> QED
  BY <1>1, <1>2, PTL DEF Spec

\* Between polls a settled client was told of every thread as late as the forum
\* knows it, to the minute, by its JOIN or by the poller, which touches the maps
\* without a lock.
THEOREM NoUpdateIsLost == Spec => []NoUpdateLost
<1>1. IInv => NoUpdateLost
  <2> SUFFICES ASSUME IInv, ppc \in {"fetch", "sleep"}, NEW c \in Conns, Settled(c),
                      NEW t \in Threads
               PROVE  Minute(best[c][t]) = Minute(known[t])
    BY DEF NoUpdateLost
  <2>1. UpdateDue(c, t)
    BY DEF IInv, UpdatesOwed, Settled
  <2>2. ~JoinOwesUpdate(c, t) /\ ~PollerOwesUpdate(c, t) /\ news = {}
    BY DEF IInv, InHand, Settled, JoinOwesUpdate, PollerOwesUpdate, Replaying
  <2> QED
    BY <2>1, <2>2 DEF UpdateDue
<1> QED
  BY <1>1, Inductive, PTL

\* Between polls a settled client was told of every author, by its NAMES or by
\* the poller.
THEOREM NoAuthorIsMissing == Spec => []NoAuthorMissing
<1>1. IInv => NoAuthorMissing
  <2> SUFFICES ASSUME IInv, ppc \in {"fetch", "sleep"}, NEW c \in Conns, Settled(c),
                      NEW a \in authors
               PROVE  a \in announced[c]
    BY DEF NoAuthorMissing
  <2>1. AuthorDue(c, a)
    BY DEF IInv, AuthorsOwed, Settled
  <2>2. ~JoinOwesAuthor(c, a) /\ ~PollerOwesAuthor(c, a) /\ joined = {}
    BY DEF IInv, InHand, Settled, JoinOwesAuthor, PollerOwesAuthor
  <2> QED
    BY <2>1, <2>2 DEF AuthorDue
<1> QED
  BY <1>1, Inductive, PTL

\* Every variable keeps its type, and between commands the connection's and the
\* forum's side of the mapping agree.
THEOREM MappingsAgree == Spec => []MappingAgrees
<1>1. IInv => MappingAgrees
  BY DEF IInv, Membership, MappingAgrees
<1> QED
  BY <1>1, Inductive, PTL
-----------------------------------------------------------------------------
(* The order of the updates.                                                *)
\* A thread that stays on the page was on it before another one was updated.
LEMMA PageShrinks ==
  ASSUME Typed, Bounded, NEW t \in Threads, Posted(t), NEW s \in Page', s # t
  PROVE  s \in Page
<1> DEFINE Above  == {x \in Threads : updated[x] > updated[s]}
           Above2 == {x \in Threads : updated'[x] > updated'[s]}
<1>1. s \in Threads /\ updated'[s] > 0 /\ Cardinality(Above2) < PageSize
  BY DEF Page
<1>2. /\ updated'[s] = updated[s]
      /\ \A x \in Threads : updated[x] \in Nat /\ updated'[x] \in Nat /\ updated[x] <= updated'[x]
  BY <1>1 DEF Posted, Bounded, Typed, TypeOK, SiteTypes
<1>3. Above \subseteq Above2
  BY <1>1, <1>2
<1>4. IsFiniteSet(Above2)
  BY ConstAssumption, FS_Subset
<1>5. /\ Cardinality(Above) <= Cardinality(Above2)
      /\ Cardinality(Above) \in Nat /\ Cardinality(Above2) \in Nat
  BY <1>3, <1>4, FS_Subset, FS_CardinalityType
<1>6. Cardinality(Above) < PageSize
  BY <1>1, <1>5, ConstAssumption
<1> QED
  BY <1>1, <1>2, <1>6 DEF Page

LEMMA NoneOvertakenStep ==
  ASSUME Typed, Bounded, NoneOvertaken, [Next]_vars
  PROVE  NoneOvertaken'
<1> USE DEF Typed, TypeOK, SiteTypes, ForumTypes, PollerTypes
<1>1. CASE UNCHANGED <<updated, batch, known, skipped>>
  BY <1>1 DEF NoneOvertaken, Page, TakenPosts, Caught
<1>2. ASSUME NEW t \in Threads, Posted(t) PROVE NoneOvertaken'
  <2> SUFFICES ASSUME NEW s \in Page', NEW post \in TakenPosts, updated'[s] <= post
               PROVE  Caught(s)'
    BY <1>2 DEF Posted, NoneOvertaken, TakenPosts
  <2>1. s \in Threads
    BY DEF Page
  <2>2. post \in Nat /\ post <= now
    <3>1. CASE \E x \in Threads : post = known[x]
      BY <3>1 DEF Bounded
    <3>2. CASE \E r \in batch : post = r[2]
      <4>1. PICK r \in batch : post = r[2]
        BY <3>2
      <4>2. r[1] \in Threads /\ r[2] \in Nat /\ r[2] <= updated[r[1]] /\ updated[r[1]] <= now
        BY DEF Bounded
      <4> QED
        BY <4>1, <4>2
    <3> QED
      BY <3>1, <3>2 DEF TakenPosts
  <2>3. s # t
    BY <1>2, <2>2 DEF Posted
  <2>4. s \in Page /\ updated'[s] = updated[s]
    BY <1>2, <2>1, <2>3, PageShrinks DEF Posted
  <2> QED
    BY <1>2, <2>4 DEF Posted, NoneOvertaken, Caught
<1>3. CASE Fetch
  <2>1. \A t \in Page : <<t, updated[t]>> \in batch' \cup skipped'
    BY <1>3, FetchedRows
  <2>2. updated' = updated /\ Page' = Page
    BY <1>3 DEF Fetch, Page
  <2> QED
    BY <2>1, <2>2 DEF NoneOvertaken, Caught
<1>4. ASSUME NEW r \in batch, Absorb(r) PROVE NoneOvertaken'
  <2>1. /\ r[1] \in Threads /\ r[2] \in Nat /\ r = <<r[1], r[2]>>
        /\ known[r[1]] <= r[2] /\ r[2] <= updated[r[1]]
    BY DEF Bounded
  <2>2. /\ known' = [known EXCEPT ![r[1]] = r[2]] /\ batch' = batch \ {r}
        /\ updated' = updated /\ skipped' = skipped
    BY <1>4 DEF Absorb, Taken
  <2>3. TakenPosts' \subseteq TakenPosts
    BY <2>1, <2>2 DEF TakenPosts
  <2>4. \A t \in Threads : Caught(t) => Caught(t)'
    <3> SUFFICES ASSUME NEW t \in Threads, Caught(t) PROVE Caught(t)'
      OBVIOUS
    <3>1. CASE t = r[1]
      <4>1. known'[t] = r[2] /\ known[t] \in Nat /\ updated[t] \in Nat
        BY <2>1, <2>2, <3>1
      <4>2. known[t] = updated[t] => r[2] = updated[t]
        BY <2>1, <3>1, <4>1
      <4>3. <<t, updated[t]>> = r => r[2] = updated[t]
        OBVIOUS
      <4> QED
        BY <2>2, <4>1, <4>2, <4>3 DEF Caught
    <3>2. CASE t # r[1]
      BY <2>1, <2>2, <3>2 DEF Caught
    <3> QED
      BY <3>1, <3>2
  <2>5. Page' = Page /\ Page \subseteq Threads
    BY <2>2 DEF Page
  <2> QED
    BY <2>2, <2>3, <2>4, <2>5 DEF NoneOvertaken
<1>5. CASE PollerStep /\ ~Fetch /\ (\A r \in batch : ~Absorb(r))
  <2> UNCHANGED <<updated, batch, known, skipped>>
    BY <1>5, PollerFrame DEF PollerStep, PollerWork, FetchFails, Wake, NextAuthor, NextUpdate,
       Tell, PollDone
  <2> QED
    BY <1>1
<1>6. ASSUME NEW c \in Conns, Join(c) \/ JoinStep(c) \/ Part(c) PROVE NoneOvertaken'
  BY <1>1, <1>6, ConnFrame
<1> QED
  BY <1>1, <1>2, <1>3, <1>4, <1>5, <1>6 DEF Next

\* What the poller has to tell is as late as what it told, or was skipped.
Forward == TellsForward /\ NewsAfterLine

LEMMA ForwardPoller ==
  ASSUME Typed, Bounded, NoneOvertaken, Forward, PollerStep
  PROVE  Forward'
<1> USE DEF Typed, TypeOK, SiteTypes, ForumTypes, PollerTypes, ViewTypes, Forward
<1>0. UNCHANGED <<site, flock, listening, subscribers, connVars>>
  BY PollerFrame
<1>1. CASE Fetch
  <2>1. /\ batch = {} /\ news = {} /\ UNCHANGED <<known, latest, news>>
        /\ ppc' = "absorb" /\ skipped \subseteq skipped'
    BY <1>1, FetchedRows DEF Fetch, InHand
  <2>2. ASSUME NEW c \in Conns, NEW r \in batch', Moved(r)' PROVE Follows(r, latest[c])'
    <3>1. PICK t \in Page : r = <<t, updated[t]>>
      BY <1>1, FetchedRows
    <3>2. /\ t \in Threads /\ updated[t] > 0 /\ known[t] # updated[t]
          /\ r[2] = updated[t] /\ updated[t] \in 0..MaxPosts /\ latest[c] \in 0..MaxPosts
      BY <2>1, <2>2, <3>1 DEF Page, Moved
    <3>3. CASE latest[c] = 0
      <4>1. latest[c] <= r[2]
        BY <3>2, <3>3
      <4> QED
        BY <2>1, <3>2, <4>1, MinuteForward DEF Follows
    <3>4. ASSUME NEW s \in Threads, latest[c] <= known[s] PROVE Follows(r, latest[c])'
      <4>1. CASE r \in skipped
        BY <2>1, <4>1 DEF Follows
      <4>2. CASE r \notin skipped
        <5>1. ~Caught(t) /\ known[s] \in TakenPosts
          BY <2>1, <3>1, <3>2, <4>2 DEF Caught, TakenPosts
        <5>2. ~(updated[t] <= known[s])
          BY <5>1 DEF NoneOvertaken
        <5>3. latest[c] <= r[2]
          BY <3>2, <3>4, <5>2
        <5> QED
          BY <2>1, <3>2, <5>3, MinuteForward DEF Follows
      <4> QED
        BY <4>1, <4>2
    <3> QED
      BY <3>3, <3>4 DEF TellsForward
  <2> QED
    BY <2>1, <2>2 DEF TellsForward, NewsAfterLine
<1>2. CASE FetchFails \/ Wake \/ PollDone
  BY <1>0, <1>2 DEF FetchFails, Wake, PollDone, TellsForward, NewsAfterLine, Moved, Follows
<1>3. ASSUME NEW r \in batch, Absorb(r) PROVE Forward'
  <2>1. /\ r[1] \in Threads /\ r[2] \in Nat
        /\ known[r[1]] <= r[2] /\ r[2] <= updated[r[1]]
    BY DEF Bounded
  <2>2. /\ known' = [known EXCEPT ![r[1]] = r[2]] /\ batch' = batch \ {r}
        /\ news' = IF Moved(r) THEN news \cup {r} ELSE news
        /\ UNCHANGED <<latest, skipped>> /\ ppc' = "absorb"
    BY <1>3 DEF Absorb, Taken
  <2> SUFFICES ASSUME NEW c \in Conns
               PROVE  /\ latest[c] = 0 \/ \E t \in Threads : latest[c] <= known'[t]
                      /\ \A s \in batch' : Moved(s)' => Follows(s, latest[c])
                      /\ \A u \in news' : Follows(u, latest[c])
    BY <2>2 DEF TellsForward, NewsAfterLine, Follows
  <2>3. latest[c] = 0 \/ \E t \in Threads : latest[c] <= known'[t]
    <3>1. latest[c] \in Nat /\ \A t \in Threads : known[t] \in Nat /\ known[t] <= known'[t]
                                                /\ known'[t] \in Nat
      BY <2>1, <2>2
    <3> QED
      BY <3>1 DEF TellsForward
  <2>4. ASSUME NEW s \in batch', Moved(s)' PROVE Follows(s, latest[c])
    <3>1. s \in batch /\ s[1] \in Threads /\ s[1] # r[1]
      BY <2>2 DEF Bounded
    <3>2. Moved(s)
      BY <2>1, <2>2, <2>4, <3>1 DEF Moved
    <3> QED
      BY <3>1, <3>2 DEF TellsForward
  <2>5. ASSUME NEW u \in news' PROVE Follows(u, latest[c])
    BY <2>2 DEF TellsForward
  <2> QED
    BY <2>3, <2>4, <2>5
<1>4. ASSUME NEW a \in joined, NextAuthor(a) PROVE Forward'
  <2>1. cur'[2] = 0 /\ UNCHANGED <<known, batch, news, latest, skipped>>
    BY <1>4 DEF NextAuthor
  <2>2. ASSUME NEW u \in news PROVE Minute(cur'[2]) <= Minute(u[2])
    <3>1. u[2] \in 0..MaxPosts /\ 0 \in 0..MaxPosts /\ 0 <= u[2]
      BY ConstAssumption
    <3> QED
      BY <2>1, <3>1, MinuteForward
  <2> QED
    BY <2>1, <2>2 DEF TellsForward, NewsAfterLine, Moved, Follows
<1>5. ASSUME NEW u \in news, NextUpdate(u) PROVE Forward'
  <2>1. cur' = u /\ news' = news \ {u} /\ UNCHANGED <<known, batch, latest, skipped>>
    BY <1>5 DEF NextUpdate
  <2>2. \A v \in news' : Minute(u[2]) <= Minute(v[2])
    BY <1>5, <2>1 DEF NextUpdate
  <2> QED
    BY <2>1, <2>2 DEF TellsForward, NewsAfterLine, Moved, Follows
<1>6. ASSUME NEW c \in Conns, Tell(c) PROVE Forward'
  <2>1. /\ UNCHANGED <<known, batch, news, cur, skipped>>
        /\ ppc = "send" /\ ppc' = "send" /\ batch = {}
    BY <1>6 DEF Tell, InHand
  <2>2. CASE cur[2] = 0
    BY <1>6, <2>1, <2>2 DEF Tell, TellsForward, NewsAfterLine, Follows
  <2>3. CASE cur[2] # 0
    <3>1. latest' = [latest EXCEPT ![c] = cur[2]]
      BY <1>6, <2>3 DEF Tell
    <3>2. cur[1] \in Threads /\ cur[2] \in 0..MaxPosts /\ cur[2] <= known[cur[1]]
      BY <2>1, <2>3 DEF InHand, Bounded
    <3>3. Minute(cur[2]) <= Minute(cur[2])
      BY <3>2, MinuteForward
    <3> SUFFICES ASSUME NEW d \in Conns
                 PROVE  /\ latest'[d] = 0 \/ \E t \in Threads : latest'[d] <= known[t]
                        /\ \A u \in news : Follows(u, latest'[d])
                        /\ Follows(cur, latest'[d])
      BY <2>1 DEF TellsForward, NewsAfterLine, Follows
    <3>4. CASE d = c
      BY <2>1, <3>1, <3>2, <3>3, <3>4 DEF NewsAfterLine, Follows
    <3>5. CASE d # c
      BY <2>1, <2>3, <3>1, <3>5 DEF TellsForward
    <3> QED
      BY <3>4, <3>5
  <2> QED
    BY <2>2, <2>3
<1> QED
  BY <1>1, <1>2, <1>3, <1>4, <1>5, <1>6 DEF PollerStep, PollerWork

LEMMA ForwardStep ==
  ASSUME Typed, Bounded, NoneOvertaken, Forward, [Next]_vars
  PROVE  Forward'
<1>1. CASE UNCHANGED <<forum, pollVars, latest>>
  BY <1>1 DEF Forward, TellsForward, NewsAfterLine, Moved, Follows
<1>2. ASSUME NEW t \in Threads, Posted(t) PROVE Forward'
  BY <1>1, <1>2 DEF Posted
<1>3. ASSUME NEW c \in Conns, Join(c) \/ JoinStep(c) \/ Part(c) PROVE Forward'
  <2>1. UNCHANGED <<forum, pollVars>>
    BY <1>3, ConnFrame
  <2>2. CASE SendJoin(c)
    <3>1. \A p \in 0..MaxPosts : Minute(0) <= Minute(p)
      <4> SUFFICES ASSUME NEW p \in 0..MaxPosts PROVE Minute(0) <= Minute(p)
        OBVIOUS
      <4>1. 0 \in 0..MaxPosts /\ 0 <= p
        BY ConstAssumption
      <4> QED
        BY <4>1, MinuteForward
    <3>2. /\ \A u \in news \cup batch : u[2] \in 0..MaxPosts
          /\ ppc = "send" => cur[2] \in 0..MaxPosts
      BY ConstAssumption DEF Typed, TypeOK, PollerTypes, InHand
    <3>3. latest' = [latest EXCEPT ![c] = 0] /\ latest \in [Conns -> 0..MaxPosts]
      BY <2>2 DEF SendJoin, Typed, TypeOK, ViewTypes
    <3> QED
      BY <2>1, <3>1, <3>2, <3>3 DEF Forward, TellsForward, NewsAfterLine, Moved, Follows
  <2>3. CASE ~SendJoin(c)
    <3>1. latest' = latest
      BY <1>3, <2>3 DEF Join, JoinStep, StartListener, Subscribe, SendName, NamesDone, Hold,
         LookUp, Show, ShowDone, Part
    <3> QED
      BY <1>1, <2>1, <3>1
  <2> QED
    BY <2>2, <2>3
<1> QED
  BY <1>1, <1>2, <1>3, ForwardPoller DEF Next

\* Every state has the invariant of the order of updates.
THEOREM OrderInductive == Spec => []OInv
<1>1. Init => OInv
  BY DEF Init, OInv, NoneOvertaken, Page, TellsForward, NewsAfterLine
<1>2. IInv /\ OInv /\ [Next]_vars => OInv'
  BY NoneOvertakenStep, ForwardStep DEF IInv, OInv, Typed, Forward
<1> QED
  BY <1>1, <1>2, Inductive, PTL DEF Spec

\* The poller tells no client of an update after a later one, unless the row of
\* the older one was on a page that a poll did not get it from.
THEOREM PollerTellsInOrder == Spec => PollerInOrder
<1> DEFINE Forwards == \A c \in Conns : latest'[c] \notin {latest[c], 0} =>
                          Minute(latest[c]) <= Minute(latest'[c]) \/ cur \in skipped
<1>1. IInv /\ OInv /\ [Next]_vars => [Forwards]_vars
  <2> SUFFICES ASSUME IInv, OInv, Next, NEW c \in Conns, latest'[c] \notin {latest[c], 0}
               PROVE  Minute(latest[c]) <= Minute(latest'[c]) \/ cur \in skipped
    OBVIOUS
  <2>1. latest \in [Conns -> 0..MaxPosts]
    BY DEF IInv, TypeOK, ViewTypes
  <2>2. ~(\E t \in Threads : Posted(t))
    BY DEF Posted
  <2>3. ASSUME NEW d \in Conns, Join(d) \/ JoinStep(d) \/ Part(d) PROVE FALSE
    BY <2>1, <2>3 DEF Join, JoinStep, StartListener, Subscribe, SendJoin, SendName, NamesDone,
       Hold, LookUp, Show, ShowDone, Part
  <2>4. PICK d \in Conns : Tell(d)
    BY <2>2, <2>3 DEF Next, PollerStep, PollerWork, Fetch, FetchFails, Wake, Absorb, Taken,
       NextAuthor, NextUpdate, PollDone
  <2>5. cur[2] # 0 /\ d = c /\ latest'[c] = cur[2] /\ ppc = "send"
    BY <2>1, <2>4 DEF Tell
  <2>6. Follows(cur, latest[c])
    BY <2>5 DEF OInv, TellsForward
  <2> QED
    BY <2>5, <2>6 DEF Follows
<1> QED
  BY <1>1, Inductive, OrderInductive, PTL DEF Spec, PollerInOrder
=============================================================================
