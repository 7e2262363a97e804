-------------------------- MODULE ClientSideProofs --------------------------
(* Theorems about Reply, for any backlog, addressees and PRIVMSGs, and      *)
(* about Registration, for any nicks, commands and private messages.        *)
EXTENDS Reply, Registration, Integers, SequenceTheorems, WellFoundedInduction, TLAPS

\* Names of tuples of variables and of the frames that actions share.
USE DEF threadVars, loopVars, fate, replyVars, queueVars, Loop, Step, Privmsg, Here

Pos == Nat \ {0}
USE DEF Pos
LoopPoints == {"idle", "target", "address", "quote", "form", "post", "tell"}
Quotable == PostIds \cup {None}
Received == [targets : Seq(TargetKinds), address : Addressees, backlog : Nat]

Answers == [target : Pos \X Pos, quote : Quotable]

Types ==
    /\ posts \in Seq(PostIds) /\ (incoming => Len(posts) < ThreadPosts)
    /\ rpc \in LoopPoints /\ given \in Seq(Received)
    /\ nth \in Pos /\ quote \in Quotable
    /\ site \in Seq(Answers)

\* The loop is at a target of the last PRIVMSG, or before the first of the next.
AtTarget ==
    IF rpc = "idle" THEN nth = 1
    ELSE given # <<>> /\ nth <= Len(Privmsg.targets)

LexLess(a, b) == a[1] < b[1] \/ (a[1] = b[1] /\ a[2] < b[2])

\* What is accepted was the turn of an earlier target; at "tell", of this one.
EarlierTurns ==
    \A i \in DOMAIN site :
        LET a == site[i].target IN
        IF rpc = "idle" THEN a[1] <= Len(given)
        ELSE LexLess(a, Here) \/ (rpc = "tell" /\ a = Here)

OrderInv == Types /\ AtTarget /\ EarlierTurns /\ AcceptedInOrder

\* Splitting on where a sequence that grew by one element is looked at.
LEMMA Appended ==
  ASSUME NEW S, NEW s \in Seq(S), NEW e \in S
  PROVE  /\ Append(s, e) \in Seq(S) /\ Len(Append(s, e)) = Len(s) + 1
         /\ DOMAIN Append(s, e) = (DOMAIN s) \cup {Len(s) + 1}
         /\ Append(s, e)[Len(s) + 1] = e /\ Append(s, e) # <<>>
         /\ \A i \in DOMAIN s : Append(s, e)[i] = s[i]
         /\ Len(s) \in Nat /\ DOMAIN s = 1..Len(s)
<1>1. Len(s) \in Nat /\ DOMAIN s = 1..Len(s)
  OBVIOUS
<1>2. Append(s, e) \in Seq(S) /\ Len(Append(s, e)) = Len(s) + 1
  BY AppendProperties
<1>3. DOMAIN Append(s, e) = 1..(Len(s) + 1)
  BY <1>2
<1> QED
  BY <1>1, <1>2, <1>3, AppendProperties

\* Away from "idle" there is a PRIVMSG in hand.
LEMMA HereTyped ==
  Types /\ AtTarget /\ rpc # "idle" =>
      /\ Privmsg \in Received /\ Len(given) \in Nat /\ Here \in Pos \X Pos
      /\ Len(Privmsg.targets) \in Nat
<1> SUFFICES ASSUME Types, AtTarget, rpc # "idle"
             PROVE  /\ Privmsg \in Received /\ Len(given) \in Nat /\ Here \in Pos \X Pos
                    /\ Len(Privmsg.targets) \in Nat
  OBVIOUS
<1>1. Len(given) \in 1..Len(given) /\ Len(given) \in Pos /\ nth \in Pos
  BY DEF Types, AtTarget
<1>2. Privmsg \in Received
  BY <1>1 DEF Types
<1> QED
  BY <1>1, <1>2 DEF Received

\* A set of positions that is not empty has a last one.
LEMMA Largest ==
  ASSUME NEW n \in Nat, NEW S \in SUBSET (1..n), S # {}
  PROVE  \E m \in S : \A k \in S : k <= m
<1> DEFINE T == {n - k : k \in S}
<1>0. \A k \in S : k \in Int /\ k <= n /\ n - k \in Nat /\ n - k \in T
  OBVIOUS
<1>1. T \subseteq Nat /\ T # {}
  BY <1>0
<1>2. \E x \in T : \A y \in T : ~(<<y, x>> \in OpToRel(<, Nat))
  BY <1>1, NatLessThanWellFounded, WFMin, Zenon
<1>3. PICK x \in T : \A y \in T : ~(<<y, x>> \in OpToRel(<, Nat))
  BY <1>2, Zenon
<1>4. \A y \in T : ~(y < x)
  BY <1>1, <1>3, Zenon DEF OpToRel
<1>5. PICK m \in S : x = n - m
  OBVIOUS
<1>6. \A k \in S : k <= m
  <2> SUFFICES ASSUME NEW k \in S PROVE k <= m
    OBVIOUS
  <2>1. ~(n - k < n - m)
    BY <1>0, <1>4, <1>5
  <2> QED
    BY <1>0, <2>1
<1> QED
  BY <1>6

\* What FindPost finds is the author's latest post.
Latest == CHOOSE i \in ByAuthor : \A j \in ByAuthor : j <= i
LEMMA FoundPost ==
  ASSUME Types, ByAuthor # {}
  PROVE  /\ Latest \in ByAuthor /\ \A j \in ByAuthor : j <= Latest
         /\ posts[Latest] \in PostIds
<1>1. Len(posts) \in Nat /\ DOMAIN posts = 1..Len(posts)
  BY DEF Types
<1>2. ByAuthor \in SUBSET (1..Len(posts))
  BY <1>1 DEF ByAuthor
<1>3. \E m \in ByAuthor : \A k \in ByAuthor : k <= m
  BY <1>1, <1>2, Largest
<1>4. Latest \in ByAuthor /\ \A j \in ByAuthor : j <= Latest
  BY <1>3 DEF Latest
<1>5. posts[Latest] \in PostIds
  BY <1>2, <1>4 DEF Types
<1> QED
  BY <1>4, <1>5

\* Every target accepted so far is an earlier one, or this.
UpToHere(taken) ==
    \A i \in DOMAIN taken : LexLess(taken[i].target, Here) \/ taken[i].target = Here

\* The site accepts the message for the target in hand.
LEMMA Accepts ==
  ASSUME OrderInv, rpc \notin {"idle", "tell"}, Accept
  PROVE  /\ site' \in Seq(Answers)
         /\ AcceptedInOrder' /\ UpToHere(site')
<1> DEFINE r == [target |-> Here, quote |-> quote]
<1>1. r \in Answers /\ site \in Seq(Answers) /\ site' = Append(site, r)
  BY HereTyped DEF OrderInv, Types, Accept, Answers
<1>2. /\ site' \in Seq(Answers) /\ DOMAIN site' = (DOMAIN site) \cup {Len(site) + 1}
      /\ site'[Len(site) + 1] = r /\ \A i \in DOMAIN site : site'[i] = site[i]
      /\ Len(site) \in Nat /\ DOMAIN site = 1..Len(site)
  <2> HIDE DEF r
  <2> QED
    BY <1>1, Appended
<1>3. \A i \in DOMAIN site : LexLess(site[i].target, Here)
  BY DEF OrderInv, EarlierTurns
<1>4. UpToHere(site')
  <2> SUFFICES ASSUME NEW i \in DOMAIN site'
               PROVE  LexLess(site'[i].target, Here) \/ site'[i].target = Here
    BY DEF UpToHere
  <2>1. CASE i \in DOMAIN site
    BY <1>2, <1>3, <2>1
  <2>2. CASE i = Len(site) + 1
    BY <1>2, <2>2
  <2> QED
    BY <1>2, <2>1, <2>2
<1>5. ASSUME NEW i \in DOMAIN site', NEW j \in DOMAIN site', i < j
      PROVE  LexLess(site'[i].target, site'[j].target)
  <2>1. i \in DOMAIN site
    BY <1>2, <1>5
  <2>2. CASE j \in DOMAIN site
    <3>1. LexLess(site[i].target, site[j].target)
      BY <1>5, <2>1, <2>2 DEF OrderInv, AcceptedInOrder, LexLess
    <3>2. site'[i] = site[i] /\ site'[j] = site[j]
      BY <1>2, <2>1, <2>2
    <3> QED
      BY <3>1, <3>2, Zenon
  <2>3. CASE j = Len(site) + 1
    <3>1. site'[j].target = Here
      BY <1>2, <2>3
    <3>2. site'[i] = site[i] /\ LexLess(site[i].target, Here)
      BY <1>2, <1>3, <2>1
    <3> QED
      BY <3>1, <3>2, Zenon
  <2> QED
    BY <1>2, <2>2, <2>3
<1> QED
  BY <1>2, <1>4, <1>5 DEF AcceptedInOrder, LexLess

\* The turn of the target in hand is over.
LEMMA TurnEnds ==
  ASSUME OrderInv, rpc # "idle", NextTarget, UpToHere(site'),
         site' \in Seq(Answers)
  PROVE  Types' /\ AtTarget' /\ EarlierTurns'
<1>1. Len(given) \in Nat /\ Len(Privmsg.targets) \in Nat /\ given # <<>>
  BY HereTyped DEF OrderInv, AtTarget
<1>2. Types' /\ AtTarget'
  BY <1>1 DEF OrderInv, Types, AtTarget, NextTarget, LoopPoints, Quotable
<1>3. \A i \in DOMAIN site' : site'[i].target \in Pos \X Pos
  <2>1. \A i \in DOMAIN site' : site'[i] \in Answers
    OBVIOUS
  <2> QED
    BY <2>1 DEF Answers
<1>4. SUFFICES ASSUME NEW i \in DOMAIN site'
               PROVE  IF rpc' = "idle" THEN site'[i].target[1] <= Len(given)
                      ELSE LexLess(site'[i].target, Here')
  BY <1>2 DEF NextTarget, EarlierTurns
<1> DEFINE a == site'[i].target
<1>5. a \in Pos \X Pos /\ (LexLess(a, Here) \/ a = Here)
  BY <1>3 DEF UpToHere
<1>6. rpc' = "idle" \/ Here' = <<Len(given), nth + 1>>
  BY DEF NextTarget
<1>7. nth \in Nat
  BY DEF OrderInv, Types
<1>8. IF rpc' = "idle" THEN a[1] <= Len(given) ELSE LexLess(a, Here')
  <2> HIDE DEF a
  <2>1. a[1] \in Nat /\ a[2] \in Nat
    BY <1>5
  <2>2. a[1] < Len(given) \/ (a[1] = Len(given) /\ a[2] <= nth)
    BY <1>1, <1>5, <1>7, <2>1 DEF LexLess
  <2> QED
    BY <1>1, <1>6, <1>7, <2>1, <2>2 DEF LexLess
<1> QED
  BY <1>8

LEMMA OrderStep == OrderInv /\ [ReplyNext]_replyVars => OrderInv'
<1> SUFFICES ASSUME OrderInv, [ReplyNext]_replyVars PROVE OrderInv'
  OBVIOUS
<1>1. CASE UNCHANGED replyVars \/ Incomplete
           \/ Net(SendLoop(client)) \/ Net(ClientLeaves(client))
  <2>1. UNCHANGED <<posts, incoming, loopVars, site>>
    BY <1>1 DEF Incomplete, Net
  <2>2. Types' /\ AtTarget'
    BY <2>1 DEF OrderInv, Types, AtTarget
  <2>3. EarlierTurns' /\ AcceptedInOrder'
    BY <2>1 DEF OrderInv, EarlierTurns, AcceptedInOrder
  <2> QED
    BY <2>2, <2>3 DEF OrderInv
<1>0. CASE EnterAuthor
  BY <1>0 DEF EnterAuthor, OrderInv, Types, AtTarget, EarlierTurns, AcceptedInOrder
<1>2. CASE AppendPost
  <2>1. Len(posts) + 1 \in PostIds
    <3>1. Len(posts) \in Nat /\ Len(posts) < ThreadPosts
      BY <1>2 DEF AppendPost, OrderInv, Types
    <3> QED
      BY <3>1, ReplyAssumption DEF PostIds
  <2>2. posts' \in Seq(PostIds)
    BY <1>2, <2>1, AppendProperties DEF AppendPost, OrderInv, Types
  <2> QED
    BY <1>2, <2>2 DEF AppendPost, OrderInv, Types, AtTarget, EarlierTurns, AcceptedInOrder
<1>3. ASSUME NEW msg \in Privmsgs, Receive(msg) PROVE OrderInv'
  <2> DEFINE r == [targets |-> msg.targets, address |-> msg.address,
                   backlog |-> Len(posts)]
  <2>1. PICK n \in 1..MaxTargets : msg.targets \in [1..n -> TargetKinds]
    BY DEF Privmsgs
  <2>2. msg.targets \in Seq(TargetKinds) /\ Len(msg.targets) = n /\ n \in Nat \ {0}
    BY <2>1, ReplyAssumption
  <2>3. r \in Received /\ given \in Seq(Received) /\ given' = Append(given, r)
    BY <1>3, <2>2 DEF Receive, Received, OrderInv, Types, Privmsgs
  <2>4. /\ given' \in Seq(Received) /\ given' # <<>> /\ Len(given) \in Nat
        /\ Len(given') = Len(given) + 1 /\ given'[Len(given')] = r
    <3> HIDE DEF r
    <3> QED
      BY <2>3, Appended
  <2>5. Types' /\ AtTarget'
    BY <1>3, <2>2, <2>4 DEF Receive, OrderInv, Types, AtTarget, LoopPoints
  <2>6. EarlierTurns'
    <3>1. /\ rpc = "idle" /\ rpc' = "target" /\ UNCHANGED <<nth, site>>
          /\ site \in Seq(Answers)
      BY <1>3 DEF Receive, OrderInv, Types
    <3>2. \A i \in DOMAIN site : site[i] \in Answers
      BY <3>1
    <3>3. \A i \in DOMAIN site :
             site[i].target[1] \in Nat /\ site[i].target[1] <= Len(given)
      BY <3>1, <3>2 DEF OrderInv, EarlierTurns, Answers
    <3> QED
      BY <2>4, <3>1, <3>3 DEF EarlierTurns, LexLess
  <2> QED
    BY <1>3, <2>5, <2>6 DEF Receive, OrderInv, AcceptedInOrder
<1>4. CASE FindThread \/ LookUpAuthor \/ FindPost \/ FormArrives
  <2>1. /\ rpc \notin {"idle", "tell"} /\ rpc' \in LoopPoints \ {"idle", "tell"}
        /\ UNCHANGED <<given, nth, site, threadVars>>
    BY <1>4 DEF FindThread, LookUpAuthor, FindPost, FormArrives, LoopPoints
  <2>2. quote' \in Quotable
    <3>1. CASE FindPost /\ ByAuthor # {}
      BY <3>1, FoundPost DEF FindPost, Latest, OrderInv, Quotable
    <3> QED
      BY <1>4, <3>1 DEF FindThread, LookUpAuthor, FindPost, FormArrives, OrderInv, Types,
         Quotable
  <2> QED
    BY <2>1, <2>2 DEF OrderInv, Types, AtTarget, EarlierTurns, AcceptedInOrder
<1>5. CASE NoSuchTarget \/ FormFails \/ PostIgnored \/ PostFails \/ TellOfLost
  <2>1. rpc # "idle" /\ NextTarget /\ UNCHANGED site
    BY <1>5 DEF NoSuchTarget, FormFails, PostIgnored, PostFails, TellOfLost
  <2>2. UpToHere(site') /\ site' \in Seq(Answers)
    BY <2>1 DEF OrderInv, Types, EarlierTurns, UpToHere
  <2> QED
    BY <2>1, <2>2, TurnEnds DEF OrderInv, AcceptedInOrder
<1>6. CASE PostAccepted \/ SendPm
  <2>1. rpc \notin {"idle", "tell"} /\ NextTarget /\ (Accept \/ UNCHANGED site)
    BY <1>6 DEF PostAccepted, SendPm
  <2>2. CASE Accept
    BY <2>1, <2>2, Accepts, TurnEnds DEF OrderInv
  <2>3. CASE UNCHANGED site
    <3>1. UpToHere(site') /\ site' \in Seq(Answers)
      BY <2>1, <2>3 DEF OrderInv, Types, EarlierTurns, UpToHere
    <3> QED
      BY <2>1, <2>3, <3>1, TurnEnds DEF OrderInv, AcceptedInOrder
  <2> QED
    BY <2>1, <2>2, <2>3
<1>7. CASE PostResponseLost
  <2>1. /\ rpc = "post" /\ rpc' = "tell" /\ Accept
        /\ UNCHANGED <<given, nth, quote, threadVars>>
    BY <1>7 DEF PostResponseLost
  <2>2. /\ site' \in Seq(Answers)
        /\ AcceptedInOrder' /\ UpToHere(site')
    BY <2>1, Accepts
  <2> QED
    BY <2>1, <2>2 DEF OrderInv, Types, AtTarget, EarlierTurns, UpToHere, LoopPoints
<1> QED
  BY <1>0, <1>1, <1>2, <1>3, <1>4, <1>5, <1>6, <1>7 DEF ReplyNext

LEMMA OrderInit == ReplyInit => OrderInv
<1> SUFFICES ASSUME ReplyInit PROVE OrderInv
  OBVIOUS
<1>1. Types /\ AtTarget
  BY DEF ReplyInit, Types, LoopPoints, Quotable, AtTarget
<1>2. DOMAIN site = {}
  BY DEF ReplyInit
<1>3. EarlierTurns /\ AcceptedInOrder
  BY <1>2 DEF EarlierTurns, AcceptedInOrder
<1> QED
  BY <1>1, <1>3 DEF OrderInv

\* What the site has accepted it has accepted once, and in order.
THEOREM RepliesInOrder == ReplySpec => []AcceptedInOrder
<1>1. OrderInv => AcceptedInOrder
  BY DEF OrderInv
<1> QED
  BY <1>1, OrderInit, OrderStep, PTL DEF ReplySpec
-----------------------------------------------------------------------------
(* What a reply quotes.                                                     *)

\* q is what a reply for target t should quote, as of when it was received.
QuoteFits(t, q) ==
    /\ q # None => /\ PostAuthor[q] = given[t[1]].address
                   /\ given[t[1]].targets[t[2]] = "channel"
    /\ given[t[1]].targets[t[2]] = "channel" =>
          \A p \in PostIds :
             p <= given[t[1]].backlog /\ PostAuthor[p] = given[t[1]].address
                => q # None /\ p <= q

\* An author is entered before his post, and the backlog only grows.
Backlog ==
    /\ \A i \in DOMAIN posts : posts[i] = i /\ PostAuthor[i] \in authors
    /\ incoming => PostAuthor[Len(posts) + 1] \in authors
    /\ \A k \in DOMAIN given : given[k].backlog <= Len(posts)

\* What the loop has in hand.
InHand ==
    /\ rpc \in {"idle", "target", "address", "quote"} => quote = None
    /\ rpc \in {"address", "quote", "form", "post"} =>
          Privmsg.targets[nth] = "channel"
    /\ rpc \in {"form", "post"} => QuoteFits(Here, quote)

AllFit == \A i \in DOMAIN site : QuoteFits(site[i].target, site[i].quote)

QuoteInv == OrderInv /\ Backlog /\ InHand /\ AllFit

LEMMA QuotesFit == AllFit <=> QuotesLatest
<1>1. \A i \in DOMAIN site :
         QuoteFits(site[i].target, site[i].quote) <=>
            /\ site[i].quote # None =>
                  /\ PostAuthor[site[i].quote] = Given(site[i]).address
                  /\ Given(site[i]).targets[site[i].target[2]] = "channel"
            /\ Given(site[i]).targets[site[i].target[2]] = "channel" =>
                  \A p \in PostIds : LatestBefore(site[i], p) =>
                     site[i].quote # None /\ p <= site[i].quote
  BY DEF QuoteFits, LatestBefore, Given
<1> QED
  BY <1>1 DEF AllFit, QuotesLatest, ToSet

LEMMA BacklogStep == OrderInv /\ Backlog /\ [ReplyNext]_replyVars => Backlog'
<1> SUFFICES ASSUME OrderInv, Backlog, [ReplyNext]_replyVars PROVE Backlog'
  OBVIOUS
<1>1. CASE EnterAuthor
  BY <1>1 DEF EnterAuthor, Backlog
<1>2. CASE AppendPost
  <2> DEFINE p == Len(posts) + 1
  <2>1. Len(posts) \in Nat /\ p \in PostIds /\ posts \in Seq(PostIds)
    <3>1. Len(posts) \in Nat /\ Len(posts) < ThreadPosts
      BY <1>2 DEF AppendPost, OrderInv, Types
    <3> QED
      BY <3>1, ReplyAssumption DEF PostIds, OrderInv, Types
  <2>2. posts' = Append(posts, p) /\ PostAuthor[p] \in authors
    BY <1>2 DEF AppendPost, Backlog
  <2>3. /\ DOMAIN posts' = (DOMAIN posts) \cup {p} /\ Len(posts') = p /\ posts'[p] = p
        /\ \A i \in DOMAIN posts : posts'[i] = posts[i]
    BY <2>1, <2>2, Appended
  <2>4. \A i \in DOMAIN posts' : posts'[i] = i /\ PostAuthor[i] \in authors'
    BY <1>2, <2>2, <2>3 DEF AppendPost, Backlog
  <2>5. \A k \in DOMAIN given' : given'[k].backlog <= Len(posts')
    <3>1. \A k \in DOMAIN given : given[k].backlog \in Nat
      <4>1. \A k \in DOMAIN given : given[k] \in Received
        BY DEF OrderInv, Types
      <4> QED
        BY <4>1 DEF Received
    <3>2. \A k \in DOMAIN given : given[k].backlog <= Len(posts)
      BY DEF Backlog
    <3> QED
      BY <1>2, <2>1, <2>3, <3>1, <3>2 DEF AppendPost
  <2> QED
    BY <1>2, <2>4, <2>5 DEF AppendPost, Backlog
<1>3. ASSUME NEW msg \in Privmsgs, Receive(msg) PROVE Backlog'
  <2> DEFINE r == [targets |-> msg.targets, address |-> msg.address,
                   backlog |-> Len(posts)]
  <2>1. r \in Received /\ given \in Seq(Received) /\ given' = Append(given, r)
    <3>1. PICK n \in 1..MaxTargets : msg.targets \in [1..n -> TargetKinds]
      BY DEF Privmsgs
    <3>2. msg.targets \in Seq(TargetKinds)
      BY <3>1, ReplyAssumption
    <3> QED
      BY <1>3, <3>2 DEF Receive, Received, OrderInv, Types, Privmsgs
  <2>2. /\ DOMAIN given' = (DOMAIN given) \cup {Len(given) + 1}
        /\ given'[Len(given) + 1] = r
        /\ \A k \in DOMAIN given : given'[k] = given[k]
    <3> HIDE DEF r
    <3> QED
      BY <2>1, Appended
  <2>3. Len(posts) \in Nat /\ UNCHANGED <<posts, authors, incoming>>
    BY <1>3 DEF Receive, OrderInv, Types
  <2>4. \A k \in DOMAIN given' : given'[k].backlog <= Len(posts)
    BY <2>2, <2>3 DEF Backlog
  <2> QED
    BY <2>3, <2>4 DEF Backlog
<1>4. CASE UNCHANGED <<authors, posts, incoming, given>>
  BY <1>4 DEF Backlog
<1> QED
  BY <1>1, <1>2, <1>3, <1>4 DEF ReplyNext, Incomplete, NoSuchTarget, FindThread,
     LookUpAuthor, FindPost, FormArrives, FormFails, PostAccepted, PostIgnored,
     PostFails, PostResponseLost, TellOfLost, SendPm, NextTarget, Net

\* With the same PRIVMSGs, what fits still fits.
LEMMA FitsStays ==
  ASSUME UNCHANGED <<given, site>>, AllFit PROVE AllFit'
  BY DEF AllFit, QuoteFits

\* The message in hand is accepted, and quotes what it should.
LEMMA AcceptedFits ==
  ASSUME OrderInv, AllFit, Accept, UNCHANGED given, rpc # "idle", QuoteFits(Here, quote)
  PROVE  AllFit'
<1> DEFINE r == [target |-> Here, quote |-> quote]
<1>1. r \in Answers /\ site \in Seq(Answers) /\ site' = Append(site, r)
  BY HereTyped DEF OrderInv, Types, Accept, Answers
<1>2. /\ DOMAIN site' = (DOMAIN site) \cup {Len(site) + 1}
      /\ site'[Len(site) + 1] = r /\ \A i \in DOMAIN site : site'[i] = site[i]
  <2> HIDE DEF r
  <2> QED
    BY <1>1, Appended
<1>3. SUFFICES ASSUME NEW i \in DOMAIN site'
               PROVE  QuoteFits(site'[i].target, site'[i].quote)
  BY DEF AllFit, QuoteFits
<1>4. QuoteFits(site'[i].target, site'[i].quote)
  <2>1. CASE i \in DOMAIN site
    BY <1>2, <2>1, Zenon DEF AllFit
  <2>2. CASE i = Len(site) + 1
    <3>1. site'[i].target = Here /\ site'[i].quote = quote
      BY <1>2, <2>2
    <3> QED
      BY <3>1, Zenon
  <2> QED
    BY <1>2, <2>1, <2>2
<1> QED
  BY <1>4

\* What was in the backlog when the PRIVMSG came is there still.
LEMMA BacklogHasAll ==
  ASSUME OrderInv, Backlog, rpc # "idle"
  PROVE  \A p \in PostIds : p <= Privmsg.backlog => p \in DOMAIN posts
<1>1. Len(given) \in DOMAIN given /\ Privmsg.backlog \in Nat
  <2>1. Len(given) \in DOMAIN given /\ Privmsg \in Received
    BY HereTyped DEF OrderInv, Types
  <2> QED
    BY <2>1 DEF Received
<1>2. Privmsg.backlog <= Len(posts)
  BY <1>1 DEF Backlog
<1>3. Len(posts) \in Nat /\ DOMAIN posts = 1..Len(posts)
  BY DEF OrderInv, Types
<1> QED
  BY <1>1, <1>2, <1>3, ReplyAssumption DEF PostIds

LEMMA HandStep == QuoteInv /\ [ReplyNext]_replyVars => InHand' /\ AllFit'
<1> SUFFICES ASSUME QuoteInv, [ReplyNext]_replyVars PROVE InHand' /\ AllFit'
  OBVIOUS
<1> OrderInv /\ Backlog /\ InHand /\ AllFit
  BY DEF QuoteInv
<1>1. CASE UNCHANGED <<given, site, rpc, nth, quote>>
  BY <1>1, FitsStays DEF InHand, QuoteFits
<1>2. ASSUME NEW msg \in Privmsgs, Receive(msg) PROVE InHand' /\ AllFit'
  <2> DEFINE r == [targets |-> msg.targets, address |-> msg.address,
                   backlog |-> Len(posts)]
  <2>1. given \in Seq(Received) /\ given' = Append(given, r)
    BY <1>2 DEF Receive, OrderInv, Types
  <2>2. \A k \in 1..Len(given) : given'[k] = given[k]
    BY <2>1, AppendProperties
  <2>3. \A i \in DOMAIN site : site[i].target[1] \in 1..Len(given)
    <3>1. \A i \in DOMAIN site : site[i] \in Answers
      BY DEF OrderInv, Types
    <3>2. \A i \in DOMAIN site : site[i].target[1] \in Pos /\ site[i].target[1] <= Len(given)
      BY <1>2, <3>1 DEF Receive, OrderInv, EarlierTurns, Answers
    <3> QED
      BY <2>1, <3>2
  <2>4. AllFit'
    <3> SUFFICES ASSUME NEW i \in DOMAIN site
                 PROVE  QuoteFits(site[i].target, site[i].quote)'
      BY <1>2 DEF Receive, AllFit
    <3>1. given'[site[i].target[1]] = given[site[i].target[1]]
      BY <2>2, <2>3
    <3>2. QuoteFits(site[i].target, site[i].quote)
      BY DEF AllFit
    <3> QED
      BY <1>2, <3>1, <3>2 DEF Receive, QuoteFits
  <2> QED
    BY <1>2, <2>4 DEF Receive, InHand
<1>3. CASE FindThread
  <2>1. Privmsg.address = None => QuoteFits(Here, None)
    BY ReplyAssumption DEF QuoteFits
  <2>2. AllFit' /\ quote = None /\ UNCHANGED <<given, nth, quote>>
    BY <1>3, FitsStays DEF FindThread, InHand
  <2> QED
    BY <1>3, <2>1, <2>2 DEF FindThread, InHand, QuoteFits
<1>4. CASE LookUpAuthor
  <2>1. AllFit' /\ quote = None /\ UNCHANGED <<given, nth, quote>>
    BY <1>4, FitsStays DEF LookUpAuthor, InHand
  <2>2. Privmsg.address \notin authors => QuoteFits(Here, None)
    BY <1>4, BacklogHasAll DEF LookUpAuthor, QuoteFits, Backlog
  <2> QED
    BY <1>4, <2>1, <2>2 DEF LookUpAuthor, InHand, QuoteFits
<1>5. CASE FindPost
  <2>1. AllFit' /\ UNCHANGED <<given, nth>>
    BY <1>5, FitsStays DEF FindPost
  <2>2. QuoteFits(Here, quote')
    <3>1. CASE ByAuthor = {}
      BY <1>5, <3>1, BacklogHasAll DEF FindPost, QuoteFits, ByAuthor, Backlog
    <3>2. CASE ByAuthor # {}
      <4>1. quote' = posts[Latest]
        BY <1>5, <3>2 DEF FindPost, Latest
      <4>2. /\ quote' = Latest /\ PostAuthor[Latest] = Privmsg.address /\ Latest # None
            /\ \A j \in ByAuthor : j <= Latest
        BY <3>2, <4>1, FoundPost, ReplyAssumption DEF OrderInv, Backlog, ByAuthor
      <4>3. Privmsg.targets[nth] = "channel"
        BY <1>5 DEF FindPost, InHand
      <4>4. \A p \in PostIds : p <= Privmsg.backlog /\ PostAuthor[p] = Privmsg.address
                                  => p \in ByAuthor
        BY <1>5, BacklogHasAll DEF FindPost, ByAuthor, Backlog
      <4> QED
        BY <4>2, <4>3, <4>4 DEF QuoteFits
    <3> QED
      BY <3>1, <3>2
  <2> QED
    BY <1>5, <2>1, <2>2 DEF FindPost, InHand, QuoteFits
<1>6. CASE FormArrives
  BY <1>6, FitsStays DEF FormArrives, InHand, QuoteFits
<1>7. CASE NoSuchTarget \/ FormFails \/ PostIgnored \/ PostFails \/ TellOfLost
  BY <1>7, FitsStays
     DEF NoSuchTarget, FormFails, PostIgnored, PostFails, TellOfLost, NextTarget, InHand
<1>8. CASE PostAccepted \/ PostResponseLost
  <2>1. rpc = "post" /\ Accept /\ UNCHANGED given /\ QuoteFits(Here, quote)
    BY <1>8 DEF PostAccepted, PostResponseLost, NextTarget, InHand
  <2> QED
    BY <1>8, <2>1, AcceptedFits DEF PostAccepted, PostResponseLost, NextTarget, InHand
<1>9. CASE SendPm
  <2>1. /\ rpc = "target" /\ UNCHANGED given /\ quote = None
        /\ Privmsg.targets[nth] = "nick" /\ NextTarget /\ (Accept \/ UNCHANGED site)
    BY <1>9 DEF SendPm, NextTarget, InHand
  <2>2. QuoteFits(Here, quote)
    BY <2>1 DEF QuoteFits
  <2>3. AllFit'
    BY <2>1, <2>2, AcceptedFits, FitsStays
  <2> QED
    BY <2>1, <2>3 DEF NextTarget, InHand
<1> QED
  BY <1>1, <1>2, <1>3, <1>4, <1>5, <1>6, <1>7, <1>8, <1>9
     DEF ReplyNext, EnterAuthor, AppendPost, Incomplete, Net

\* A reply quotes the author it addresses, and nothing older than his latest
\* post when the PRIVMSG was received.
THEOREM RepliesQuoteLatest == ReplySpec => []QuotesLatest
<1>1. ReplyInit => QuoteInv
  <2> SUFFICES ASSUME ReplyInit PROVE QuoteInv
    OBVIOUS
  <2>1. posts = <<>> /\ given = <<>> /\ site = <<>> /\ ~incoming
    BY Zenon DEF ReplyInit
  <2>2. Backlog /\ AllFit
    BY <2>1 DEF Backlog, AllFit
  <2>3. InHand
    BY DEF ReplyInit, InHand
  <2> QED
    BY <2>2, <2>3, OrderInit DEF QuoteInv
<1>2. QuoteInv /\ [ReplyNext]_replyVars => QuoteInv'
  BY OrderStep, BacklogStep, HandStep DEF QuoteInv
<1>3. QuoteInv => QuotesLatest
  BY QuotesFit DEF QuoteInv
<1> QED
  BY <1>1, <1>2, <1>3, PTL DEF ReplySpec
-----------------------------------------------------------------------------
(* What the client is told.                                                 *)

\* The targets that had their turn, of which alone the client was told.
Passed(t) == IF rpc = "idle" THEN t[1] <= Len(given) ELSE LexLess(t, Here)
ToldPassed == told \subseteq Pos \X Pos /\ \A t \in told : Passed(t)

\* The loop tells of a reply that was posted only after the response was lost.
TellsOfLost == rpc = "tell" => Here \in Posted /\ Here \in lost

KnowsInv == OrderInv /\ ToldPassed /\ TellsOfLost /\ ClientKnows

LEMMA HereOnce ==
  ASSUME OrderInv, rpc # "idle"
  PROVE  /\ Here \in Pos \X Pos /\ ~LexLess(Here, Here)
         /\ rpc # "tell" => Here \notin Posted
<1>1. Here \in Pos \X Pos /\ ~LexLess(Here, Here)
  BY HereTyped DEF OrderInv, LexLess
<1>2. rpc # "tell" => Here \notin Posted
  <2> SUFFICES ASSUME rpc # "tell", Here \in Posted PROVE FALSE
    OBVIOUS
  <2>1. PICK i \in DOMAIN site : site[i].target = Here
    BY DEF Posted, ToSet
  <2> QED
    BY <1>1, <2>1, Zenon DEF OrderInv, EarlierTurns
<1> QED
  BY <1>1, <1>2

LEMMA PostedMore ==
  ASSUME OrderInv, rpc # "idle", Accept
  PROVE  Posted' = Posted \cup {Here}
<1> DEFINE r == [target |-> Here, quote |-> quote]
<1>1. r \in Answers /\ site \in Seq(Answers) /\ site' = Append(site, r)
  BY HereTyped DEF OrderInv, Types, Accept, Answers
<1>2. r.target = Here
  OBVIOUS
<1> HIDE DEF r
<1>3. /\ DOMAIN site' = (DOMAIN site) \cup {Len(site) + 1}
      /\ site'[Len(site) + 1] = r /\ \A i \in DOMAIN site : site'[i] = site[i]
  BY <1>1, Appended
<1>4. /\ Posted = {site[i].target : i \in DOMAIN site}
      /\ Posted' = {site'[i].target : i \in DOMAIN site'}
  BY DEF Posted, ToSet
<1> HIDE DEF Here
<1>5. Posted' = {site[i].target : i \in DOMAIN site} \cup {r.target}
  <2>1. Posted' = {site'[i].target : i \in DOMAIN site} \cup {site'[Len(site) + 1].target}
    BY <1>3, <1>4
  <2> QED
    BY <1>3, <2>1
<1> QED
  BY <1>2, <1>4, <1>5

LEMMA DoneNext ==
  ASSUME OrderInv, rpc # "idle", NextTarget
  PROVE  Done' \subseteq Done \cup {Here}
<1> SUFFICES ASSUME NEW t \in Done' PROVE t \in Done \cup {Here}
  OBVIOUS
<1>1. /\ Len(given) \in Nat /\ nth \in Pos /\ nth <= Len(Privmsg.targets)
      /\ Len(Privmsg.targets) \in Nat /\ Privmsg \in Received /\ MaxTargets \in Nat
  BY HereTyped, ReplyAssumption DEF OrderInv, AtTarget, Types
<1>2. /\ t \in (1..Len(given)) \X (1..MaxTargets) /\ t[2] \in DOMAIN given[t[1]].targets
      /\ rpc' = "idle" \/ t[1] < Len(given) \/ t[2] < nth'
  BY DEF Done, NextTarget
<1>3. t[1] \in 1..Len(given) /\ t[2] \in Nat /\ t = <<t[1], t[2]>>
  BY <1>2
<1>4. CASE t[1] < Len(given)
  BY <1>2, <1>4 DEF Done
<1>5. CASE t[1] = Len(given)
  <2>1. t[2] \in 1..Len(Privmsg.targets)
    <3>1. Privmsg.targets \in Seq(TargetKinds)
      BY <1>1 DEF Received
    <3> QED
      BY <1>2, <1>5, <3>1
  <2>2. t[2] <= nth
    <3>1. CASE nth < Len(Privmsg.targets)
      <4>1. nth' = nth + 1 /\ rpc' = "target"
        BY <3>1 DEF NextTarget
      <4> QED
        BY <1>1, <1>2, <1>3, <1>5, <4>1
    <3>2. CASE ~(nth < Len(Privmsg.targets))
      BY <1>1, <1>3, <2>1, <3>2
    <3> QED
      BY <3>1, <3>2
  <2>3. CASE t[2] = nth
    BY <1>3, <1>5, <2>3
  <2>4. CASE t[2] < nth
    BY <1>2, <2>4 DEF Done
  <2> QED
    BY <1>1, <1>3, <2>2, <2>3, <2>4
<1> QED
  BY <1>1, <1>3, <1>4, <1>5

\* The turn of the target in hand is over: it was posted, or the client told, or
\* the site ignored it.
LEMMA TurnEndsKnown ==
  ASSUME KnowsInv, rpc # "idle", NextTarget, UNCHANGED <<lost, cancelled>>,
         told' = told \/ told' = told \cup {Here},
         Posted' = Posted \/ Posted' = Posted \cup {Here},
         Here \in told' \cap Posted' => Here \in lost,
         ~cancelled[client] =>
            Privmsg.targets[nth] = "nick" \/ Here \in Posted' \cup told' \cup ignored',
         ignored \subseteq ignored'
  PROVE  ToldPassed' /\ TellsOfLost' /\ ClientKnows'
<1>1. OrderInv /\ ToldPassed /\ ClientKnows /\ Here \in Pos \X Pos
  BY HereOnce DEF KnowsInv
<1>2. TellsOfLost'
  BY DEF NextTarget, TellsOfLost
<1>3. ToldPassed'
  <2>1. told' \subseteq Pos \X Pos
    BY <1>1 DEF ToldPassed
  <2>2. ASSUME NEW t \in told' PROVE Passed(t)'
    <3>1. t \in Pos \X Pos /\ (LexLess(t, Here) \/ t = Here)
      BY <1>1, <2>1 DEF ToldPassed, Passed
    <3>2. t[1] \in Nat /\ t[2] \in Nat /\ Len(given) \in Nat /\ nth \in Nat
      BY <1>1, <3>1
    <3>3. t[1] < Len(given) \/ (t[1] = Len(given) /\ t[2] <= nth)
      BY <3>1, <3>2 DEF LexLess
    <3>4. CASE rpc' = "idle"
      BY <3>2, <3>3, <3>4 DEF NextTarget, Passed
    <3>5. CASE rpc' # "idle"
      <4>1. nth' = nth + 1 /\ given' = given
        BY <3>5 DEF NextTarget
      <4>2. LexLess(t, <<Len(given), nth + 1>>)
        BY <3>2, <3>3 DEF LexLess
      <4> QED
        BY <3>5, <4>1, <4>2 DEF Passed, LexLess
    <3> QED
      BY <3>4, <3>5
  <2> QED
    BY <2>1, <2>2 DEF ToldPassed
<1>4. ClientKnows'
  <2> SUFFICES ASSUME ~cancelled[client]
               PROVE  /\ \A t \in Done' : given'[t[1]].targets[t[2]] # "nick" =>
                                     t \in Posted' \cup told' \cup ignored'
                      /\ told' \cap Posted' \subseteq lost
    BY DEF ClientKnows
  <2>1. told' \cap Posted' \subseteq lost
    BY <1>1 DEF ClientKnows
  <2>2. ASSUME NEW t \in Done', given'[t[1]].targets[t[2]] # "nick"
        PROVE  t \in Posted' \cup told' \cup ignored'
    <3>1. given' = given
      BY DEF NextTarget
    <3>2. CASE t \in Done
      BY <1>1, <2>2, <3>1, <3>2 DEF ClientKnows
    <3>3. CASE t = Here
      BY <2>2, <3>1, <3>3
    <3> QED
      BY <1>1, <3>2, <3>3, DoneNext
  <2> QED
    BY <2>1, <2>2
<1> QED
  BY <1>2, <1>3, <1>4

LEMMA KnowsStep == KnowsInv /\ [ReplyNext]_replyVars => KnowsInv'
<1> SUFFICES ASSUME KnowsInv, [ReplyNext]_replyVars
             PROVE  ToldPassed' /\ TellsOfLost' /\ ClientKnows'
  BY OrderStep DEF KnowsInv
<1> OrderInv /\ ToldPassed /\ TellsOfLost /\ ClientKnows
  BY DEF KnowsInv
<1>1. CASE UNCHANGED <<loopVars, fate>> /\ (cancelled[client] => cancelled'[client])
  BY <1>1 DEF ToldPassed, Passed, TellsOfLost, ClientKnows, Done, Posted, LexLess
<1>2. ASSUME NEW msg \in Privmsgs, Receive(msg)
      PROVE  ToldPassed' /\ TellsOfLost' /\ ClientKnows'
  <2> DEFINE r == [targets |-> msg.targets, address |-> msg.address,
                   backlog |-> Len(posts)]
  <2>1. r \in Received /\ given \in Seq(Received) /\ given' = Append(given, r)
    <3>1. PICK n \in 1..MaxTargets : msg.targets \in [1..n -> TargetKinds]
      BY DEF Privmsgs
    <3>2. msg.targets \in Seq(TargetKinds)
      BY <3>1, ReplyAssumption
    <3> QED
      BY <1>2, <3>2 DEF Receive, Received, OrderInv, Types, Privmsgs
  <2> HIDE DEF r
  <2>2. /\ Len(given) \in Nat /\ Len(given') = Len(given) + 1
        /\ \A i \in 1..Len(given) : given'[i] = given[i]
    BY <2>1, Appended
  <2>3. /\ rpc = "idle" /\ rpc' = "target" /\ nth = 1 /\ nth' = 1
        /\ UNCHANGED <<fate, cancelled>>
    BY <1>2 DEF Receive, OrderInv, AtTarget
  <2>4. ToldPassed'
    <3>1. ASSUME NEW t \in told PROVE LexLess(t, <<Len(given'), nth'>>)
      <4>1. t[1] \in Nat /\ t[1] <= Len(given)
        BY <2>3 DEF ToldPassed, Passed
      <4> QED
        BY <2>2, <4>1 DEF LexLess
    <3> QED
      BY <2>3, <3>1 DEF ToldPassed, Passed, LexLess
  <2>5. TellsOfLost'
    BY <2>3 DEF TellsOfLost
  <2>6. ASSUME NEW t \in Done' PROVE t \in Done /\ given'[t[1]] = given[t[1]]
    <3>1. /\ t \in (1..Len(given')) \X (1..MaxTargets)
          /\ t[2] \in DOMAIN given'[t[1]].targets
          /\ t[1] < Len(given') \/ t[2] < 1
      BY <2>3 DEF Done
    <3>2. t[1] \in 1..Len(given)
      BY <2>2, <3>1, ReplyAssumption
    <3> QED
      BY <2>2, <2>3, <3>1, <3>2 DEF Done
  <2>7. ClientKnows'
    BY <2>3, <2>6 DEF ClientKnows, Posted
  <2> QED
    BY <2>4, <2>5, <2>7
<1>3. CASE FindThread \/ LookUpAuthor \/ FindPost \/ FormArrives
  <2>1. /\ rpc # "idle" /\ rpc' \notin {"idle", "tell"}
        /\ UNCHANGED <<given, nth, fate, cancelled>>
    BY <1>3 DEF FindThread, LookUpAuthor, FindPost, FormArrives
  <2> QED
    BY <2>1 DEF ToldPassed, Passed, TellsOfLost, ClientKnows, Done, Posted, LexLess
<1>4. CASE NoSuchTarget \/ FormFails \/ PostFails \/ TellOfLost
  <2>1. /\ rpc # "idle" /\ NextTarget /\ UNCHANGED <<site, lost, ignored, cancelled>>
        /\ \/ told' = told \cup {Here}
           \/ cancelled[client] /\ told' = told
    BY <1>4 DEF NoSuchTarget, FormFails, PostFails, TellOfLost, Tell, Enqueue
  <2>2. Posted' = Posted
    BY <2>1 DEF Posted
  <2>3. Here \in Posted => Here \in lost
    BY <2>1, HereOnce DEF TellsOfLost
  <2> QED
    BY <2>1, <2>2, <2>3, TurnEndsKnown
<1>5. CASE PostAccepted
  <2>1. /\ rpc = "post" /\ NextTarget /\ Accept /\ UNCHANGED <<told, lost, ignored, cancelled>>
    BY <1>5 DEF PostAccepted
  <2>2. Posted' = Posted \cup {Here}
    BY <2>1, PostedMore
  <2>3. Here \notin told
    BY <2>1, HereOnce DEF ToldPassed, Passed
  <2> QED
    BY <2>1, <2>2, <2>3, TurnEndsKnown
<1>6. CASE SendPm
  <2>1. /\ rpc = "target" /\ NextTarget /\ UNCHANGED <<told, lost, ignored, cancelled>>
        /\ Privmsg.targets[nth] = "nick" /\ (Accept \/ UNCHANGED site)
    BY <1>6 DEF SendPm
  <2>2. Posted' = Posted \/ Posted' = Posted \cup {Here}
    BY <2>1, PostedMore DEF Posted
  <2>3. Here \notin told
    BY <2>1, HereOnce DEF ToldPassed, Passed
  <2> QED
    BY <2>1, <2>2, <2>3, TurnEndsKnown
<1>10. CASE PostIgnored
  <2>1. /\ rpc = "post" /\ NextTarget /\ ignored' = ignored \cup {Here}
        /\ UNCHANGED <<site, told, lost, cancelled>>
    BY <1>10 DEF PostIgnored
  <2>2. Posted' = Posted
    BY <2>1 DEF Posted
  <2>3. Here \notin told
    BY <2>1, HereOnce DEF ToldPassed, Passed
  <2> QED
    BY <2>1, <2>2, <2>3, TurnEndsKnown
<1>7. CASE PostResponseLost
  <2>1. /\ rpc = "post" /\ rpc' = "tell" /\ Accept /\ lost' = lost \cup {Here}
        /\ UNCHANGED <<given, nth, told, ignored, cancelled>>
    BY <1>7 DEF PostResponseLost
  <2>2. Posted' = Posted \cup {Here}
    BY <2>1, PostedMore
  <2> QED
    BY <2>1, <2>2 DEF ToldPassed, Passed, TellsOfLost, ClientKnows, Done, LexLess
<1>8. Incomplete \/ EnterAuthor \/ AppendPost \/ UNCHANGED replyVars
         => UNCHANGED <<loopVars, fate, cancelled>>
  BY DEF Incomplete, EnterAuthor, AppendPost, Enqueue
<1>9. Net(SendLoop(client)) \/ Net(ClientLeaves(client))
         => UNCHANGED <<loopVars, fate>> /\ (cancelled[client] => cancelled'[client])
  BY DEF Net, SendLoop, Copied, CopyFails, Dequeue, ClientLeaves
<1> QED
  BY <1>1, <1>2, <1>3, <1>4, <1>5, <1>6, <1>7, <1>8, <1>9, <1>10 DEF ReplyNext

\* A client whose connection works learns the fate of every message to a
\* channel, but for replies that the site answers with a 200 and does not take,
\* and is not told that a reply failed when it was posted, unless the response was
\* lost.
THEOREM ClientIsTold == ReplySpec => []ClientKnows
<1>1. ReplyInit => KnowsInv
  <2> SUFFICES ASSUME ReplyInit PROVE KnowsInv
    OBVIOUS
  <2>1. given = <<>> /\ site = <<>> /\ told = {} /\ rpc = "idle"
    BY Zenon DEF ReplyInit
  <2>2. Done = {}
    BY <2>1 DEF Done
  <2> QED
    BY <2>1, <2>2, OrderInit DEF KnowsInv, ToldPassed, TellsOfLost, ClientKnows
<1>2. KnowsInv => ClientKnows
  BY DEF KnowsInv
<1> QED
  BY <1>1, <1>2, KnowsStep, PTL DEF ReplySpec
-----------------------------------------------------------------------------
(* Registration: the lines on their way to the client.                      *)
Names == Nicks \cup {NoName}
ToClient == ({"001"} \X Names) \cup ({"NICK"} \X Names \X Names)
            \cup ({"PM"} \X (Names \cup {"*"}) \X Nat) \cup {<<"other">>}
Messages == {"PM"} \X (Names \cup {"*"}) \X Nat

\* What a client knows, and how a line changes it, as in ClientReads.
Views == [nick : Names, names : Seq(Names), welcomes : 0..1]
Named(ns, line) == CASE line[1] = "001"  -> Append(ns, line[2])
                     [] line[1] = "NICK" -> Append(ns, line[3])
                     [] OTHER -> ns
ReadLine(view, line) ==
    LET changed == line[1] = "NICK" /\ line[2] = view.nick /\ line[3] # NoName
    IN [nick     |-> IF line[1] = "001" THEN line[2]
                     ELSE IF changed THEN line[3] ELSE view.nick,
        names    |-> Named(view.names, line),
        welcomes |-> IF line[1] = "001" THEN view.welcomes + 1 ELSE view.welcomes]

\* v[i] is what the client will know when it has read i lines of q.  A private
\* message is addressed by the nicks that the client will have been told by then.
Foresees(v, q) ==
    /\ v \in [0..Len(q) -> Views]
    /\ v[0] = [nick |-> clientNick, names |-> names, welcomes |-> welcomes]
    /\ \A i \in 1..Len(q) : v[i] = ReadLine(v[i - 1], q[i])
    /\ \A i \in 1..Len(q) : q[i][1] = "PM" => AddressedBy(v[i - 1].names, q[i][2], q[i][3])

\* Its last line will leave the client with what the server knows, or with the
\* nick that the server is about to set; the last nick told is that one.
NickTold(ns) ==
    /\ Len(ns) = namings /\ namings \in Nat /\ (namings > 0 => registered)
    /\ registered => IF npc = "nick"
                     THEN namings >= 2 /\ ns[namings] = arg /\ ns[namings - 1] = nick
                     ELSE namings >= 1 /\ ns[namings] = nick
HandFits(ns) == hand # <<>> => hand \in Messages /\ AddressedBy(ns, hand[2], hand[3])
NickKnown(view) ==
    /\ view.welcomes = IF registered THEN 1 ELSE 0
    /\ registered /\ ~emptied =>
          nick # NoName /\ view.nick = IF npc = "nick" /\ arg # NoName THEN arg ELSE nick
UpToDate(view) == NickKnown(view) /\ NickTold(view.names) /\ HandFits(view.names)

InSight(q) == \E v : Foresees(v, q) /\ UpToDate(v[Len(q)])

NickInv ==
    /\ RegistrationTypeOK /\ queue \in Seq(ToClient)
    /\ npc = "welcome" => ~registered /\ nick # NoName
    /\ InSight(queue) /\ PmAddressed

\* A nick more leaves what was addressed by those before.
LEMMA AddressedStays ==
  ASSUME NEW ns \in Seq(Names), NEW n \in Names, NEW to, NEW since \in Nat,
         AddressedBy(ns, to, since)
  PROVE  AddressedBy(Append(ns, n), to, since)
<1>1. PICK ms \in Seq(Names) : ms = Append(ns, n)
  BY Appended
<1>2. Len(ns) \in Nat /\ Len(ms) = Len(ns) + 1 /\ \A i \in 1..Len(ns) : ms[i] = ns[i]
  BY <1>1
<1>3. AddressedBy(ms, to, since)
  <2> SUFFICES ASSUME since > 0
               PROVE  /\ since <= Len(ms)
                      /\ \E k \in {since - 1, since} \ {0} : to \in Shown(ms[k])
    BY DEF AddressedBy
  <2>1. since <= Len(ns)
    BY DEF AddressedBy
  <2>2. PICK k \in {since - 1, since} \ {0} : to \in Shown(ns[k])
    BY DEF AddressedBy
  <2>3. k \in 1..Len(ns)
    BY <1>2, <2>1
  <2> QED
    BY <1>2, <2>1, <2>2, <2>3
<1> QED
  BY <1>1, <1>3

LEMMA HandStays ==
  ASSUME NEW ns \in Seq(Names), NEW n \in Names, HandFits(ns)
  PROVE  HandFits(Append(ns, n))
<1> SUFFICES ASSUME hand # <<>> PROVE HandFits(Append(ns, n))
  BY DEF HandFits
<1>1. hand \in Messages /\ AddressedBy(ns, hand[2], hand[3]) /\ hand[3] \in Nat
  BY DEF HandFits, Messages
<1>2. PICK to, since : to = hand[2] /\ since = hand[3] /\ since \in Nat
  BY <1>1
<1>3. AddressedBy(Append(ns, n), to, since)
  <2>1. AddressedBy(ns, to, since)
    BY <1>1, <1>2, Zenon
  <2> QED
    BY <1>2, <2>1, AddressedStays, Zenon
<1> QED
  BY <1>1, <1>2, <1>3, Zenon DEF HandFits

\* No line is put.
LEMMA NoLine ==
  ASSUME NEW v, Foresees(v, queue),
         UNCHANGED <<queue, clientNick, names, welcomes>>,
         UpToDate(v[Len(queue)])'
  PROVE  InSight(queue)'
<1>1. Foresees(v, queue)'
  BY DEF Foresees
<1> QED
  BY <1>1 DEF InSight

\* One line is put.
LEMMA OneLine ==
  ASSUME NEW v, Foresees(v, queue), queue \in Seq(ToClient), NEW line \in ToClient,
         queue' = Append(queue, line),
         UNCHANGED <<clientNick, names, welcomes>>,
         line[1] = "PM" => AddressedBy(v[Len(queue)].names, line[2], line[3]),
         NEW view \in Views, view = ReadLine(v[Len(queue)], line), UpToDate(view)'
  PROVE  InSight(queue)' /\ queue' \in Seq(ToClient)
<1>1. PICK n \in Nat : n = Len(queue)
  OBVIOUS
<1>2. PICK w : w = [i \in 0..(n + 1) |-> IF i = n + 1 THEN view ELSE v[i]]
  OBVIOUS
<1>3. /\ queue' \in Seq(ToClient) /\ Len(queue') = n + 1
      /\ \A i \in 1..n : queue'[i] = queue[i]
      /\ queue'[n + 1] = line
  BY <1>1, Appended
<1>4. /\ v \in [0..n -> Views]
      /\ v[0] = [nick |-> clientNick, names |-> names, welcomes |-> welcomes]
      /\ \A i \in 1..n : v[i] = ReadLine(v[i - 1], queue[i])
      /\ \A i \in 1..n : queue[i][1] = "PM"
                            => AddressedBy(v[i - 1].names, queue[i][2], queue[i][3])
  BY <1>1 DEF Foresees
<1>5. w \in [0..(n + 1) -> Views] /\ w[0] = v[0] /\ w[n + 1] = view
  BY <1>2, <1>4
<1>6. ASSUME NEW i \in 1..(n + 1)
      PROVE  /\ w[i] = ReadLine(w[i - 1], queue'[i])
             /\ queue'[i][1] = "PM"
                  => AddressedBy(w[i - 1].names, queue'[i][2], queue'[i][3])
  <2>1. w[i - 1] = v[i - 1]
    BY <1>2
  <2>2. CASE i = n + 1
    <3>1. w[i] = view /\ w[i - 1] = v[n] /\ queue'[i] = line
      BY <1>3, <1>5, <2>1, <2>2
    <3> QED
      BY <1>1, <3>1, Zenon
  <2>3. CASE i # n + 1
    <3>1. i \in 1..n /\ w[i] = v[i] /\ queue'[i] = queue[i]
      BY <1>2, <1>3, <2>3
    <3> QED
      BY <1>4, <2>1, <3>1, Zenon
  <2> QED
    BY <2>2, <2>3
<1>7. Foresees(w, queue)'
  BY <1>3, <1>4, <1>5, <1>6 DEF Foresees
<1>8. UpToDate(w[Len(queue)])'
  BY <1>3, <1>5
<1> QED
  BY <1>3, <1>7, <1>8 DEF InSight

\* What the views are used for.
LEMMA LastView ==
  ASSUME NEW v, Foresees(v, queue), queue \in Seq(ToClient), UpToDate(v[Len(queue)])
  PROVE  /\ v[Len(queue)] \in Views
         /\ v[Len(queue)].nick \in Names /\ v[Len(queue)].names \in Seq(Names)
         /\ v[Len(queue)].welcomes = IF registered THEN 1 ELSE 0
<1>1. Len(queue) \in 0..Len(queue)
  OBVIOUS
<1>2. v[Len(queue)] \in Views
  BY <1>1 DEF Foresees
<1> QED
  BY <1>2 DEF Views, UpToDate, NickKnown

LEMMA Types1 ==
  ASSUME NickInv
  PROVE  /\ nick \in Names /\ user \in Users \cup {NoName} /\ registered \in BOOLEAN
         /\ npc \in {"ready", "nick", "welcome"} /\ arg \in Names
         /\ commands \in Seq(Commands) /\ Len(queue) <= LineCap
         /\ cmds \in 0..MaxNickCmds /\ pms \in 0..MaxFanOuts
         /\ dump \in {"before", "during", "after"} /\ emptied \in BOOLEAN /\ namings \in Nat
         /\ hand \in {<<>>} \cup Messages
         /\ clientNick \in Names /\ names \in Seq(Names)
         /\ welcomes \in 0..1 /\ pmTarget \in Nicks \cup {NoName, "*", "none"}
         /\ pmSince \in Nat /\ queue \in Seq(ToClient)
  BY DEF NickInv, RegistrationTypeOK, Names, Messages

\* A command is read: the rest are commands.
LEMMA CommandTaken ==
  ASSUME NickInv, NEW kind, TakeCommand(kind)
  PROVE  /\ commands' \in Seq(Commands) /\ npc = "ready" /\ Head(commands)[1] = kind
         /\ kind = "NICK" => Head(commands)[2] \in Nicks
         /\ kind = "USER" => Head(commands)[2] \in Users
         /\ UNCHANGED <<cmds, pmVars, emptied, viewVars>>
<1>1. commands \in Seq(Commands) /\ commands # <<>>
  BY Types1 DEF TakeCommand
<1>2. Head(commands) \in Commands /\ Tail(commands) \in Seq(Commands)
  BY <1>1
<1> QED
  BY <1>2 DEF TakeCommand, Commands

\* Room for a line.
LEMMA LinePut ==
  ASSUME queue \in Seq(ToClient), NEW line, PutLine(line), line \in ToClient
  PROVE  queue' = Append(queue, line) /\ Len(queue') <= LineCap
<1>1. Len(queue) \in Nat /\ Len(Append(queue, line)) = Len(queue) + 1
  OBVIOUS
<1> QED
  BY <1>1, RegistrationAssumption DEF PutLine

\* The steps of NICK: the line is put before the nick is set.
LEMMA NickKeeps ==
  ASSUME NickInv, OnNick \/ SetNick
  PROVE  NickInv'
<1>1. PICK v : Foresees(v, queue) /\ UpToDate(v[Len(queue)])
  BY DEF NickInv, InSight
<1>2. queue \in Seq(ToClient)
  BY Types1
<1>0. /\ v[Len(queue)].nick \in Names /\ v[Len(queue)].names \in Seq(Names)
      /\ v[Len(queue)].welcomes = IF registered THEN 1 ELSE 0
      /\ registered \in BOOLEAN /\ nick \in Names
  BY <1>1, <1>2, LastView, Types1
<1>3. CASE OnNick
  <2>1. /\ commands' \in Seq(Commands) /\ npc = "ready" /\ npc' = "nick" /\ arg' \in Names
        /\ UNCHANGED <<cmds, pmVars, emptied, viewVars, nick, user, registered>>
    BY <1>3, CommandTaken DEF OnNick, Names
  <2>2. CASE registered
    <3>1. PICK line : line = <<"NICK", nick, arg'>>
      OBVIOUS
    <3>2. PICK view : view = ReadLine(v[Len(queue)], line)
      OBVIOUS
    <3>3. line \in ToClient /\ PutLine(line) /\ line[1] = "NICK" /\ namings' = namings + 1
      BY <1>0, <1>3, <2>1, <2>2, <3>1 DEF OnNick, ToClient
    <3>4. PICK ns \in Seq(Names) : ns = v[Len(queue)].names
      BY <1>0
    <3>5. PICK ms \in Seq(Names) : ms = Append(ns, arg')
      BY <2>1, Appended
    <3>6. view = [nick |-> IF nick = v[Len(queue)].nick /\ arg' # NoName THEN arg'
                           ELSE v[Len(queue)].nick,
                  names |-> ms, welcomes |-> 1]
      <4>1. Named(ns, line) = ms
        BY <3>1, <3>5 DEF Named
      <4> QED
        BY <1>0, <2>2, <3>1, <3>2, <3>4, <4>1 DEF ReadLine
    <3>7. view \in Views
      BY <1>0, <2>1, <3>6 DEF Views
    <3>8. NickKnown(view)'
      <4>1. ~emptied => nick # NoName /\ v[Len(queue)].nick = nick
        BY <1>1, <2>1, <2>2 DEF UpToDate, NickKnown
      <4> QED
        BY <2>1, <2>2, <3>6, <4>1 DEF NickKnown
    <3>9. NickTold(ms)'
      <4>1. /\ Len(ns) = namings /\ namings \in Nat /\ namings >= 1 /\ ns[namings] = nick
        BY <1>1, <2>1, <2>2, <3>4 DEF UpToDate, NickTold
      <4>2. Len(ms) = namings + 1 /\ ms[namings + 1] = arg' /\ ms[namings] = ns[namings]
        BY <2>1, <3>5, <4>1
      <4> QED
        BY <2>1, <2>2, <3>3, <4>1, <4>2 DEF NickTold
    <3>10. HandFits(ms)'
      <4>1. HandFits(ms)
        BY <1>1, <2>1, <3>4, <3>5, HandStays DEF UpToDate
      <4> QED
        BY <2>1, <4>1 DEF HandFits, pmVars
    <3>11. UpToDate(view)'
      BY <3>6, <3>8, <3>9, <3>10 DEF UpToDate
    <3>12. queue' = Append(queue, line) /\ Len(queue') <= LineCap
      BY <1>2, <3>3, LinePut
    <3>13. InSight(queue)' /\ queue' \in Seq(ToClient)
      BY <1>1, <1>2, <2>1, <3>2, <3>3, <3>7, <3>11, <3>12, OneLine DEF viewVars
    <3>14. namings' \in Nat
      BY <3>3, Types1
    <3> QED
      BY <2>1, <3>12, <3>13, <3>14, Types1
         DEF NickInv, RegistrationTypeOK, PmAddressed, viewVars, pmVars, Messages, Names
  <2>3. CASE ~registered
    <3>1. UNCHANGED <<queue, namings>>
      BY <1>3, <2>3 DEF OnNick
    <3>2. UpToDate(v[Len(queue)])'
      BY <1>1, <2>1, <2>3, <3>1 DEF UpToDate, NickKnown, NickTold, HandFits, pmVars
    <3>3. InSight(queue)'
      BY <1>1, <2>1, <3>1, <3>2, NoLine DEF viewVars
    <3> QED
      BY <2>1, <3>1, <3>3, Types1
         DEF NickInv, RegistrationTypeOK, PmAddressed, viewVars, pmVars, Messages, Names
  <2> QED
    BY <2>2, <2>3, Types1
<1>4. CASE SetNick
  <2>1. /\ npc = "nick" /\ nick' = arg /\ arg' = NoName
        /\ npc' = (IF ~registered /\ arg # NoName /\ user # NoName
                   THEN "welcome" ELSE "ready")
        /\ emptied' = (emptied \/ (registered /\ arg = NoName))
        /\ UNCHANGED <<user, registered, commands, queue, cmds, pmVars, namings, viewVars>>
    BY <1>4 DEF SetNick, maybeRegister
  <2>2. UpToDate(v[Len(queue)])'
    <3>1. NickKnown(v[Len(queue)])'
      BY <1>1, <2>1 DEF UpToDate, NickKnown
    <3>2. NickTold(v[Len(queue)].names)'
      BY <1>1, <2>1 DEF UpToDate, NickTold
    <3>3. HandFits(v[Len(queue)].names)'
      BY <1>1, <2>1 DEF UpToDate, HandFits, pmVars
    <3> QED
      BY <2>1, <3>1, <3>2, <3>3 DEF UpToDate
  <2>3. InSight(queue)'
    BY <1>1, <2>1, <2>2, NoLine DEF viewVars
  <2> QED
    BY <2>1, <2>3, Types1
       DEF NickInv, RegistrationTypeOK, PmAddressed, viewVars, pmVars, Names, Messages
<1> QED
  BY <1>3, <1>4

\* The welcome has the nick.
LEMMA WelcomeKeeps ==
  ASSUME NickInv, Welcome
  PROVE  NickInv'
<1>1. PICK v : Foresees(v, queue) /\ UpToDate(v[Len(queue)])
  BY DEF NickInv, InSight
<1>2. /\ queue \in Seq(ToClient) /\ nick \in Names /\ nick # NoName /\ ~registered
      /\ npc = "welcome" /\ npc' = "ready" /\ registered' = TRUE /\ namings' = namings + 1
      /\ UNCHANGED <<nick, user, arg, commands, cmds, pmVars, emptied, viewVars>>
  BY Types1 DEF Welcome, NickInv
<1>3. PICK line : line = <<"001", nick>>
  OBVIOUS
<1>4. PICK view : view = ReadLine(v[Len(queue)], line)
  OBVIOUS
<1>5. line \in ToClient /\ PutLine(line) /\ line[1] = "001"
  BY <1>2, <1>3 DEF Welcome, ToClient, nickArgument
<1>6. PICK ns \in Seq(Names) : ns = v[Len(queue)].names /\ v[Len(queue)].welcomes = 0
  BY <1>1, <1>2, LastView
<1>7. PICK ms \in Seq(Names) : ms = Append(ns, nick)
  BY <1>2, Appended
<1>8. view = [nick |-> nick, names |-> ms, welcomes |-> 1]
  <2>1. Named(ns, line) = ms
    BY <1>3, <1>7 DEF Named
  <2> QED
    BY <1>3, <1>4, <1>6, <2>1 DEF ReadLine
<1>9. view \in Views
  BY <1>2, <1>8 DEF Views
<1>10. UpToDate(view)'
  <2>1. NickKnown(view)'
    BY <1>2, <1>8 DEF NickKnown
  <2>2. NickTold(ms)'
    <3>1. Len(ns) = namings /\ namings \in Nat /\ ~(namings > 0)
      BY <1>1, <1>2, <1>6 DEF UpToDate, NickTold
    <3>2. Len(ms) = 1 /\ ms[1] = nick /\ namings' = 1
      BY <1>2, <1>7, <3>1
    <3> QED
      BY <1>2, <3>2 DEF NickTold
  <2>3. HandFits(ms)'
    <3>1. HandFits(ms)
      BY <1>1, <1>2, <1>6, <1>7, HandStays DEF UpToDate
    <3> QED
      BY <1>2, <3>1 DEF HandFits, pmVars
  <2> QED
    BY <1>8, <2>1, <2>2, <2>3 DEF UpToDate
<1>11. queue' = Append(queue, line) /\ Len(queue') <= LineCap
  BY <1>2, <1>5, LinePut
<1>12. InSight(queue)' /\ queue' \in Seq(ToClient)
  BY <1>1, <1>2, <1>4, <1>5, <1>9, <1>10, <1>11, OneLine DEF viewVars
<1>13. namings' \in Nat
  BY <1>2, Types1
<1> QED
  BY <1>2, <1>11, <1>12, <1>13, Types1
     DEF NickInv, RegistrationTypeOK, PmAddressed, viewVars, pmVars, Messages, Names

\* A line that changes nothing of what the client knows: a private message in hand
\* is one.
LEMMA OtherLine ==
  ASSUME NickInv, NEW line \in ToClient, queue' = Append(queue, line),
         line[1] \notin {"001", "NICK"},
         UNCHANGED <<clientNick, names, welcomes, emptied, nick, arg, registered, npc,
                     namings>>,
         hand' \in {hand, <<>>}, line[1] = "PM" => line = hand /\ hand # <<>>
  PROVE  InSight(queue)' /\ queue' \in Seq(ToClient)
<1>1. PICK v : Foresees(v, queue) /\ UpToDate(v[Len(queue)])
  BY DEF NickInv, InSight
<1>2. queue \in Seq(ToClient) /\ registered \in BOOLEAN
  BY Types1
<1>3. PICK view : view = v[Len(queue)]
  OBVIOUS
<1>4. view \in Views
  BY <1>1, <1>2, <1>3, LastView
<1>5. view = ReadLine(view, line)
  <2>1. Named(view.names, line) = view.names
    BY DEF Named
  <2> QED
    BY <1>4, <2>1 DEF ReadLine, Views
<1>6. line[1] = "PM" => AddressedBy(v[Len(queue)].names, line[2], line[3])
  BY <1>1 DEF UpToDate, HandFits
<1>7. UpToDate(view)'
  BY <1>1, <1>3 DEF UpToDate, NickKnown, NickTold, HandFits
<1> QED
  BY <1>1, <1>2, <1>3, <1>4, <1>5, <1>6, <1>7, OneLine

\* USER, CAP END and the other commands.
LEMMA CommandsKeep ==
  ASSUME NickInv, OnUser \/ OnCapEnd \/ OnOther
  PROVE  NickInv'
<1>1. PICK v : Foresees(v, queue) /\ UpToDate(v[Len(queue)])
  BY DEF NickInv, InSight
<1>2. queue \in Seq(ToClient)
  BY Types1
<1>3. /\ commands' \in Seq(Commands) /\ npc = "ready"
      /\ UNCHANGED <<cmds, pmVars, emptied, namings, viewVars, nick, registered, arg>>
  BY CommandTaken DEF OnUser, OnCapEnd, OnOther, nickVars
<1>4. ASSUME PutLine(<<"other">>), UNCHANGED <<npc, user>> PROVE NickInv'
  <2>1. PICK line : line = <<"other">>
    OBVIOUS
  <2>2. line \in ToClient /\ line[1] = "other"
    BY <2>1 DEF ToClient
  <2>3. queue' = Append(queue, line) /\ Len(queue') <= LineCap
    BY <1>2, <1>4, <2>1, <2>2, LinePut
  <2>4. InSight(queue)' /\ queue' \in Seq(ToClient)
    BY <1>3, <1>4, <2>2, <2>3, OtherLine DEF viewVars, pmVars
  <2> QED
    BY <1>3, <1>4, <2>3, <2>4, Types1
       DEF NickInv, RegistrationTypeOK, PmAddressed, viewVars, pmVars, Messages, Names
<1>5. ASSUME UNCHANGED queue, user' \in Users \cup {NoName}, npc' = maybeRegister(nick, user')
      PROVE  NickInv'
  <2>1. npc' \in {"ready", "welcome"} /\ (npc' = "welcome" => ~registered /\ nick # NoName)
    BY <1>5 DEF maybeRegister
  <2>2. UpToDate(v[Len(queue)])'
    BY <1>1, <1>3, <1>5, <2>1 DEF UpToDate, NickKnown, NickTold, HandFits, pmVars
  <2>3. InSight(queue)'
    BY <1>1, <1>3, <1>5, <2>2, NoLine DEF viewVars
  <2> QED
    BY <1>3, <1>5, <2>1, <2>3, Types1
       DEF NickInv, RegistrationTypeOK, PmAddressed, viewVars, pmVars, Messages, Names
<1>6. CASE OnUser
  <2>1. CASE user # NoName
    BY <1>4, <1>6, <2>1 DEF OnUser
  <2>2. CASE user = NoName
    <3>1. user' \in Users /\ npc' = maybeRegister(nick, user') /\ UNCHANGED queue
      BY <1>6, <2>2, CommandTaken DEF OnUser
    <3> QED
      BY <1>5, <3>1
  <2> QED
    BY <2>1, <2>2
<1>7. CASE OnCapEnd
  <2>1. UNCHANGED <<queue, user>> /\ npc' = maybeRegister(nick, user)
    BY <1>7 DEF OnCapEnd
  <2> QED
    BY <1>5, <2>1, Types1
<1>8. CASE OnOther
  BY <1>4, <1>8 DEF OnOther, nickVars
<1> QED
  BY <1>6, <1>7, <1>8

\* A private message is addressed to the nick as it is, and put later.
LEMMA MessagesKeep ==
  ASSUME NickInv, Dump \/ FanOut \/ PutMessage
  PROVE  NickInv'
<1>1. PICK v : Foresees(v, queue) /\ UpToDate(v[Len(queue)])
  BY DEF NickInv, InSight
<1>2. queue \in Seq(ToClient) /\ nick \in Names /\ namings \in Nat
  BY Types1
<1>3. PICK ns \in Seq(Names) : ns = v[Len(queue)].names
  BY <1>1, <1>2, LastView
<1>4. ASSUME NEW to \in {nick, nickArgument}, Address(to),
             dump' \in {"before", "during", "after"}
      PROVE  NickInv'
  <2>1. /\ hand' = <<"PM", to, namings>> /\ pms < MaxFanOuts /\ pms' = pms + 1
        /\ UNCHANGED <<nickVars, commands, queue, cmds, emptied, namings, viewVars>>
    BY <1>4 DEF Address
  <2>2. to \in Names \cup {"*"} /\ to \in Shown(nick)
    BY <1>2 DEF nickArgument, Shown
  <2>3. hand' \in Messages /\ hand'[2] = to /\ hand'[3] = namings
    BY <1>2, <2>1, <2>2 DEF Messages
  <2>4. AddressedBy(ns, to, namings)
    <3> SUFFICES ASSUME namings > 0
                 PROVE  /\ namings <= Len(ns)
                        /\ \E k \in {namings - 1, namings} \ {0} : to \in Shown(ns[k])
      BY DEF AddressedBy
    <3>1. /\ Len(ns) = namings
          /\ \/ namings >= 2 /\ ns[namings - 1] = nick
             \/ ns[namings] = nick
      BY <1>1, <1>3 DEF UpToDate, NickTold
    <3> QED
      BY <1>2, <2>2, <3>1
  <2>5. HandFits(ns)'
    BY <2>3, <2>4 DEF HandFits
  <2>6. UpToDate(v[Len(queue)])'
    <3>1. NickKnown(v[Len(queue)])'
      BY <1>1, <2>1 DEF UpToDate, NickKnown, nickVars
    <3>2. NickTold(v[Len(queue)].names)'
      BY <1>1, <2>1 DEF UpToDate, NickTold, nickVars
    <3> QED
      BY <1>3, <2>1, <2>5, <3>1, <3>2 DEF UpToDate
  <2>7. InSight(queue)'
    BY <1>1, <2>1, <2>6, NoLine DEF viewVars
  <2>8. pms' \in 0..MaxFanOuts
    BY <2>1, Types1, RegistrationAssumption
  <2> QED
    BY <1>4, <2>1, <2>3, <2>7, <2>8, Types1
       DEF NickInv, RegistrationTypeOK, PmAddressed, viewVars, nickVars, Messages, Names
<1>5. CASE UNCHANGED <<nickVars, commands, queue, cmds, pms, hand, emptied, namings, viewVars>>
           /\ dump' = "after"
  <2>1. UpToDate(v[Len(queue)])'
    BY <1>1, <1>5 DEF UpToDate, NickKnown, NickTold, HandFits, nickVars
  <2>2. InSight(queue)'
    BY <1>1, <1>5, <2>1, NoLine DEF viewVars
  <2> QED
    BY <1>5, <2>2, Types1
       DEF NickInv, RegistrationTypeOK, PmAddressed, viewVars, nickVars, Messages, Names
<1>6. CASE PutMessage
  <2>1. /\ hand # <<>> /\ PutLine(hand) /\ hand' = <<>>
        /\ UNCHANGED <<nickVars, commands, cmds, pms, dump, emptied, namings, viewVars>>
    BY <1>6 DEF PutMessage
  <2>2. hand \in Messages /\ hand[1] = "PM"
    BY <2>1, Types1 DEF Messages
  <2>3. hand \in ToClient
    BY <2>2 DEF ToClient, Messages
  <2>4. queue' = Append(queue, hand) /\ Len(queue') <= LineCap
    BY <1>2, <2>1, <2>3, LinePut
  <2>5. PICK line : line = hand
    OBVIOUS
  <2>6. InSight(queue)' /\ queue' \in Seq(ToClient)
    BY <2>1, <2>2, <2>3, <2>4, <2>5, OtherLine DEF viewVars, nickVars
  <2> QED
    BY <2>1, <2>4, <2>6, Types1
       DEF NickInv, RegistrationTypeOK, PmAddressed, viewVars, nickVars
<1>7. CASE Dump
  <2>1. CASE Address(nickArgument) /\ dump' = "during"
    BY <1>4, <2>1
  <2> QED
    BY <1>5, <1>7, <2>1 DEF Dump
<1>8. CASE FanOut
  BY <1>4, <1>8, Types1 DEF FanOut
<1> QED
  BY <1>6, <1>7, <1>8

LEMMA SendsKeep ==
  ASSUME NickInv, (\E cmd \in Commands : ClientSends(cmd)) \/ UNCHANGED registrationVars
  PROVE  NickInv'
<1>1. PICK v : Foresees(v, queue) /\ UpToDate(v[Len(queue)])
  BY DEF NickInv, InSight
<1>2. UNCHANGED <<nickVars, queue, pmVars, emptied, namings, viewVars>>
  BY DEF ClientSends, registrationVars
<1>3. commands' \in Seq(Commands) /\ cmds' \in 0..MaxNickCmds
  <2>1. CASE UNCHANGED registrationVars
    BY <2>1, Types1 DEF registrationVars
  <2>2. ASSUME NEW cmd \in Commands, ClientSends(cmd)
        PROVE  commands' \in Seq(Commands) /\ cmds' \in 0..MaxNickCmds
    BY <2>2, Types1, RegistrationAssumption DEF ClientSends
  <2> QED
    BY <2>1, <2>2
<1>4. UpToDate(v[Len(queue)])'
  BY <1>1, <1>2 DEF UpToDate, NickKnown, NickTold, HandFits, nickVars, pmVars
<1>5. InSight(queue)'
  BY <1>1, <1>2, <1>4, NoLine DEF viewVars
<1> QED
  BY <1>2, <1>3, <1>5, Types1
     DEF NickInv, RegistrationTypeOK, PmAddressed, viewVars, nickVars, pmVars, Messages, Names

\* The client reads a line: it knows what it was foreseen to know.
LEMMA ReadsKeep ==
  ASSUME NickInv, ClientReads
  PROVE  NickInv'
<1>1. PICK v : Foresees(v, queue) /\ UpToDate(v[Len(queue)])
  BY DEF NickInv, InSight
<1>2. PICK n \in Nat : n = Len(queue)
  BY Types1
<1>3. PICK line : line = Head(queue)
  OBVIOUS
<1>4. /\ queue \in Seq(ToClient) /\ n >= 1 /\ line \in ToClient /\ queue[1] = line
      /\ queue' = Tail(queue) /\ queue' \in Seq(ToClient) /\ Len(queue') = n - 1
      /\ \A i \in 1..(n - 1) : queue'[i] = queue[i + 1]
  BY <1>2, <1>3, Types1 DEF ClientReads
<1>5. /\ v \in [0..n -> Views]
      /\ v[0] = [nick |-> clientNick, names |-> names, welcomes |-> welcomes]
      /\ \A i \in 1..n : v[i] = ReadLine(v[i - 1], queue[i])
      /\ \A i \in 1..n : queue[i][1] = "PM"
                            => AddressedBy(v[i - 1].names, queue[i][2], queue[i][3])
  BY <1>1, <1>2 DEF Foresees
<1>6. 1 \in 1..n /\ 1 - 1 = 0
  BY <1>4
<1>7. /\ v[1] = ReadLine(v[0], line) /\ v[1] \in Views
      /\ line[1] = "PM" => AddressedBy(names, line[2], line[3])
  BY <1>4, <1>5, <1>6
<1>8. /\ UNCHANGED <<nickVars, commands, cmds, pmVars, emptied, namings>>
      /\ v[1] = [nick |-> clientNick', names |-> names', welcomes |-> welcomes']
      /\ pmTarget' = IF line[1] = "PM" THEN line[2] ELSE "none"
      /\ pmSince' = IF line[1] = "PM" THEN line[3] ELSE 0
      /\ line[1] = "PM" => UNCHANGED names
  BY <1>3, <1>5, <1>7 DEF ClientReads, ReadLine, Named
<1>9. clientNick' \in Names /\ names' \in Seq(Names) /\ welcomes' \in 0..1
  <2>1. v[1].nick = clientNick' /\ v[1].names = names' /\ v[1].welcomes = welcomes'
    BY <1>8
  <2> QED
    BY <1>7, <2>1 DEF Views
<1>10. pmTarget' \in Nicks \cup {NoName, "*", "none"} /\ pmSince' \in Nat
  <2>1. line[1] = "PM" => line[2] \in Names \cup {"*"} /\ line[3] \in Nat
    BY <1>4 DEF ToClient
  <2> QED
    BY <1>8, <2>1 DEF Names
<1>11. InSight(queue)'
  <2>1. PICK w : w = [i \in 0..(n - 1) |-> v[i + 1]]
    OBVIOUS
  <2>2. /\ w \in [0..(n - 1) -> Views]
        /\ w[0] = [nick |-> clientNick', names |-> names', welcomes |-> welcomes']
        /\ w[n - 1] = v[n]
    BY <1>4, <1>5, <1>8, <2>1
  <2>3. ASSUME NEW i \in 1..(n - 1)
        PROVE  /\ w[i] = ReadLine(w[i - 1], queue'[i])
               /\ queue'[i][1] = "PM"
                    => AddressedBy(w[i - 1].names, queue'[i][2], queue'[i][3])
    <3>1. i + 1 \in 1..n /\ (i + 1) - 1 = i /\ queue'[i] = queue[i + 1]
      BY <1>4
    <3>2. w[i] = v[i + 1] /\ w[i - 1] = v[i]
      BY <1>4, <2>1
    <3>3. /\ v[i + 1] = ReadLine(v[i], queue[i + 1])
          /\ queue[i + 1][1] = "PM"
               => AddressedBy(v[i].names, queue[i + 1][2], queue[i + 1][3])
      BY <1>5, <3>1
    <3> QED
      BY <3>1, <3>2, <3>3, Zenon
  <2>4. Foresees(w, queue)'
    BY <1>4, <1>8, <2>2, <2>3 DEF Foresees
  <2>5. UpToDate(w[Len(queue)])'
    BY <1>1, <1>2, <1>4, <1>8, <2>2
       DEF UpToDate, NickKnown, NickTold, HandFits, nickVars, pmVars
  <2> QED
    BY <2>4, <2>5 DEF InSight
<1>12. PmAddressed'
  BY <1>7, <1>8 DEF PmAddressed
<1>13. Len(queue') <= LineCap
  BY <1>2, <1>4, Types1, RegistrationAssumption
<1> QED
  BY <1>4, <1>8, <1>9, <1>10, <1>11, <1>12, <1>13, Types1
     DEF NickInv, RegistrationTypeOK, nickVars, pmVars, Names, Messages

LEMMA NickInit == RegistrationInit => NickInv
<1> SUFFICES ASSUME RegistrationInit PROVE NickInv
  OBVIOUS
<1>1. /\ queue = <<>> /\ commands = <<>> /\ ~registered /\ npc = "ready" /\ ~emptied
      /\ clientNick = NoName /\ names = <<>> /\ welcomes = 0 /\ pmTarget = "none"
      /\ nick = NoName /\ pmSince = 0 /\ namings = 0 /\ hand = <<>>
  BY DEF RegistrationInit
<1>2. RegistrationTypeOK /\ queue \in Seq(ToClient)
  <2>1. /\ queue \in Seq(ToClient) /\ commands \in Seq(Commands)
        /\ Len(queue) = 0 /\ 0 <= LineCap
    BY <1>1, RegistrationAssumption
  <2>2. cmds \in 0..MaxNickCmds /\ pms \in 0..MaxFanOuts
    BY RegistrationAssumption DEF RegistrationInit
  <2>3. /\ user = NoName /\ arg = NoName /\ registered \in BOOLEAN /\ dump = "before"
        /\ emptied \in BOOLEAN
    BY <1>1 DEF RegistrationInit
  <2>4. names \in Seq(Nicks \cup {NoName})
    <3>1. <<>> \in Seq(Nicks \cup {NoName})
      OBVIOUS
    <3> QED
      BY <1>1, <3>1
  <2> QED
    BY <1>1, <2>1, <2>2, <2>3, <2>4 DEF RegistrationTypeOK
<1>3. <<>> \in Seq(Names) /\ Len(<<>>) = 0
  OBVIOUS
<1>4. PICK v : v = [i \in 0..0 |-> [nick |-> NoName, names |-> <<>>, welcomes |-> 0]]
  OBVIOUS
<1>5. v \in [0..0 -> Views]
  BY <1>3, <1>4 DEF Views, Names
<1>6. v[0] = [nick |-> NoName, names |-> <<>>, welcomes |-> 0]
  BY <1>4
<1>7. Foresees(v, queue)
  <2>1. Len(queue) = 0 /\ 1..Len(queue) = {}
    BY <1>1, <1>3
  <2> QED
    BY <1>1, <1>5, <1>6, <2>1 DEF Foresees
<1>8. UpToDate(v[Len(queue)])
  <2>1. v[Len(queue)] = [nick |-> NoName, names |-> <<>>, welcomes |-> 0]
    BY <1>1, <1>3, <1>6
  <2>2. /\ v[Len(queue)].nick = NoName /\ v[Len(queue)].names = <<>>
        /\ v[Len(queue)].welcomes = 0
    BY <2>1
  <2>3. NickKnown(v[Len(queue)])
    BY <1>1, <2>2 DEF NickKnown
  <2>4. NickTold(v[Len(queue)].names)
    BY <1>1, <1>3, <2>2 DEF NickTold
  <2>5. HandFits(v[Len(queue)].names)
    BY <1>1 DEF HandFits
  <2> QED
    BY <2>3, <2>4, <2>5 DEF UpToDate
<1> QED
  <2>1. InSight(queue)
    BY <1>7, <1>8, Zenon DEF InSight
  <2> QED
    BY <1>1, <1>2, <2>1 DEF NickInv, PmAddressed

LEMMA NickInductive ==
  /\ RegistrationInit => NickInv
  /\ NickInv /\ [RegistrationNext]_registrationVars => NickInv'
  BY NickInit, NickKeeps, WelcomeKeeps, CommandsKeep, MessagesKeep, SendsKeep, ReadsKeep
     DEF RegistrationNext

\* A client that has read its lines knows its nick and whether it is
\* registered, whatever it sent and however far behind it was.
THEOREM NickIsKnown == RegistrationSpec => []NickAgrees
<1>1. NickInv => NickAgrees
  <2> SUFFICES ASSUME NickInv PROVE NickAgrees
    OBVIOUS
  <2>1. PICK v : Foresees(v, queue) /\ UpToDate(v[Len(queue)])
    BY DEF NickInv, InSight
  <2>2. registered \in BOOLEAN /\ RegistrationTypeOK
    BY Types1 DEF NickInv
  <2>3. registered /\ ~emptied => nickArgument = nick
    BY <2>1 DEF UpToDate, NickKnown, nickArgument
  <2>4. ASSUME queue = <<>>, npc = "ready"
        PROVE  /\ registered <=> welcomes = 1
               /\ registered /\ ~emptied => clientNick = nick
    <3>1. Len(queue) = 0
      BY <2>4
    <3>2. v[0].nick = clientNick /\ v[0].welcomes = welcomes /\ UpToDate(v[0])
      BY <2>1, <3>1 DEF Foresees
    <3> QED
      BY <2>2, <2>4, <3>2 DEF UpToDate, NickKnown
  <2> QED
    BY <2>2, <2>3, <2>4 DEF NickAgrees
<1> QED
  BY <1>1, NickInductive, PTL DEF RegistrationSpec

\* A private message that a client reads was addressed to the last nick that the
\* client had been told by then or to the one before, however long it was in hand.
THEOREM MessagesAddressed == RegistrationSpec => []PmAddressed
<1>1. NickInv => PmAddressed
  BY DEF NickInv
<1> QED
  BY <1>1, NickInductive, PTL DEF RegistrationSpec
=============================================================================
