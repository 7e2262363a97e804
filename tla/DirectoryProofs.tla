-------------------------- MODULE DirectoryProofs --------------------------
(* Theorems about Directory, for any connections, threads, titles, words    *)
(* that cleaning leaves of them, well-known threads and bookmark lists.      *)
EXTENDS DirectoryInvariant, Integers, SequenceTheorems, FiniteSetTheorems,
        WellFoundedInduction, TLAPS

\* Names of tuples of variables and of the frames that actions share.
USE DEF tables, updVars, connVars, vars, Upd, Conn
-----------------------------------------------------------------------------
(* Channel names.                                                           *)

\* A set of numbers that is not empty has a least one.
LEMMA Least ==
  ASSUME NEW S \in SUBSET Nat, S # {}
  PROVE  \E m \in S : \A k \in S : m <= k
<1>1. \E m \in S : \A k \in S : ~(<<k, m>> \in OpToRel(<, Nat))
  BY NatLessThanWellFounded, WFMin, Zenon
<1>2. PICK m \in S : \A k \in S : ~(<<k, m>> \in OpToRel(<, Nat))
  BY <1>1, Zenon
<1>3. \A k \in S : ~(k < m)
  BY <1>2, Zenon DEF OpToRel
<1>4. \A k \in S : k \in Nat /\ m \in Nat
  OBVIOUS
<1> QED
  BY <1>3, <1>4

LEMMA Single ==
  ASSUME NEW S, NEW a \in S
  PROVE  <<a>> \in Seq(S)
  OBVIOUS

LEMMA Pair ==
  ASSUME NEW S, NEW a \in S, NEW b \in S
  PROVE  <<a, b>> \in Seq(S)
  OBVIOUS

\* What is left of a title without its leading articles is a list of words.
LEMMA SignificantTyped ==
  ASSUME NEW words \in Names
  PROVE  Significant(words) \in Names
<1> USE DEF Names
<1> DEFINE I == {i \in 1..Len(words) : words[i] \notin Articles}
<1>1. CASE I = {}
  BY <1>1 DEF Significant
<1>2. CASE I # {}
  <2>1. Min(I) \in I
    <3>1. I \in SUBSET Nat /\ I # {}
      BY <1>2
    <3> HIDE DEF I
    <3>2. \E m \in I : \A k \in I : m <= k
      BY <3>1, Least, Zenon
    <3> QED
      BY <3>2, Zenon DEF Min
  <2>2. \A i \in Min(I)..Len(words) : words[i] \in STRING
    BY <2>1
  <2>3. SubSeq(words, Min(I), Len(words)) \in Seq(STRING)
    BY <2>1, <2>2, SubSeqProperties
  <2> QED
    BY <1>2, <2>3 DEF Significant
<1> QED
  BY <1>1, <1>2

\* A word has more numbered variants than there are names in use.
LEMMA VariantFree ==
  ASSUME NEW v \in STRING, NEW used, IsFiniteSet(used),
         Cardinality(used) <= Cardinality(Threads)
  PROVE  LET V == [n \in 1..Cardinality(used) + 1 |-> <<v, Digit[n - 1]>>]
         IN  /\ V \in Seq(Names) /\ Len(V) = Cardinality(used) + 1
             /\ \E n \in 1..Len(V) : V[n] \notin used
<1> DEFINE k == Cardinality(used)
           V == [n \in 1..k + 1 |-> <<v, Digit[n - 1]>>]
<1>1. k \in Nat /\ k <= Cardinality(Threads) /\ Cardinality(Threads) \in Nat
  BY ConstAssumption, FS_CardinalityType
<1> HIDE DEF k
<1>2. \A n \in 1..k + 1 : n - 1 \in 0..Cardinality(Threads)
  BY <1>1
<1>3. \A n \in 1..k + 1 : <<v, Digit[n - 1]>> \in Names
  <2>1. \A n \in 1..k + 1 : Digit[n - 1] \in STRING
    BY <1>2, ConstAssumption
  <2>2. \A d \in STRING : <<v, d>> \in Seq(STRING)
    BY Pair, Zenon
  <2> QED
    BY <2>1, <2>2, Zenon DEF Names
<1>4. V \in Seq(Names) /\ Len(V) = k + 1
  <2> HIDE DEF Names
  <2>1. V \in [1..k + 1 -> Names]
    BY <1>3, Zenon
  <2>2. k + 1 \in Nat
    BY <1>1
  <2> HIDE DEF V
  <2> QED
    BY <2>1, <2>2
<1>5. ASSUME \A n \in 1..k + 1 : V[n] \in used PROVE FALSE
  <2>1. ASSUME NEW m \in 1..k + 1, NEW n \in 1..k + 1, V[m] = V[n] PROVE m = n
    <3>1. Digit[m - 1] = Digit[n - 1]
      BY <2>1
    <3>2. m - 1 = n - 1
      BY <1>2, <3>1, ConstAssumption
    <3> QED
      BY <3>2
  <2>2. V \in Injection(1..k + 1, used)
    BY <1>5, <2>1 DEF Injection, IsInjective
  <2>3. Cardinality(1..k + 1) <= k
    BY <2>2, FS_Injection DEF k
  <2>4. Cardinality(1..k + 1) = k + 1
    BY <1>1, FS_Interval
  <2> QED
    BY <1>1, <2>3, <2>4
<1> QED
  BY <1>4, <1>5 DEF k

\* lockedMakeShortName "is guaranteed to eventually work": it makes a name that
\* no thread has.
LEMMA NameFree ==
  ASSUME NEW words \in Names \ {<<>>}, NEW used, IsFiniteSet(used),
         Cardinality(used) <= Cardinality(Threads)
  PROVE  lockedMakeShortName(words, used) \in Names \ used
<1> DEFINE w == Significant(words)
           V(v) == [n \in 1..Cardinality(used) + 1 |-> <<v, Digit[n - 1]>>]
           c == Candidates(words, used)
<1>1. w \in Names
  BY SignificantTyped
<1>2. c \in Seq(Names) /\ \E i \in 1..Len(c) : c[i] \notin used
  <2>1. CASE w = <<>>
    <3>1. c = V("empty")
      BY <2>1 DEF Candidates
    <3>2. /\ V("empty") \in Seq(Names)
          /\ \E n \in 1..Len(V("empty")) : V("empty")[n] \notin used
      <4>1. "empty" \in STRING
        BY LiteralAssumption
      <4> QED
        BY <4>1, VariantFree, Zenon
    <3> QED
      BY <3>1, <3>2, Zenon
  <2>2. CASE w # <<>>
    <3> DEFINE P == [i \in 1..Len(w) |-> SubSeq(w, 1, i)]
    <3>1. Len(w) \in Nat /\ w[1] \in STRING /\ \A i \in 1..Len(w) : w[i] \in STRING
      BY <1>1, <2>2 DEF Names
    <3>2. \A i \in 1..Len(w) : SubSeq(w, 1, i) \in Names
      BY <3>1, SubSeqProperties DEF Names
    <3>3. P \in Seq(Names) /\ Len(P) = Len(w)
      BY <3>1, <3>2
    <3>4. c = P \o V(w[1])
      BY <2>2 DEF Candidates
    <3>5. /\ V(w[1]) \in Seq(Names)
          /\ \E n \in 1..Len(V(w[1])) : V(w[1])[n] \notin used
      BY <3>1, VariantFree
    <3> HIDE DEF P, V, c, w
    <3>6. c \in Seq(Names) /\ Len(c) = Len(P) + Len(V(w[1]))
      BY <3>3, <3>4, <3>5, ConcatProperties
    <3>7. PICK n \in 1..Len(V(w[1])) : V(w[1])[n] \notin used
      BY <3>5
    <3>8. /\ Len(P) + n \in 1..Len(c) /\ c[Len(P) + n] = V(w[1])[n]
      <4>1. Len(P) \in Nat /\ Len(V(w[1])) \in Nat /\ Len(P) + n \in 1..Len(P) + Len(V(w[1]))
        BY <3>3, <3>5
      <4>2. c[Len(P) + n] = V(w[1])[(Len(P) + n) - Len(P)]
        BY <3>3, <3>4, <3>5, <4>1, ConcatProperties
      <4> QED
        BY <3>6, <4>1, <4>2
    <3> QED
      BY <3>6, <3>7, <3>8
  <2> QED
    BY <2>1, <2>2
<1> HIDE DEF c
<1>3. \E i \in 1..Len(c) : c[i] \notin used /\ \A j \in 1..i - 1 : c[j] \in used
  <2> DEFINE S == {i \in 1..Len(c) : c[i] \notin used}
  <2>1. \E m \in S : \A k \in S : m <= k
    <3>1. S \in SUBSET Nat /\ S # {}
      BY <1>2
    <3> HIDE DEF S
    <3> QED
      BY <3>1, Least, Zenon
  <2>2. PICK m \in S : \A k \in S : m <= k
    BY <2>1
  <2>3. ASSUME NEW j \in 1..m - 1 PROVE c[j] \in used
    <3>1. j \in 1..Len(c) /\ ~(m <= j)
      BY <1>2
    <3> QED
      BY <2>2, <3>1
  <2> QED
    BY <2>3
<1> QED
  BY <1>2, <1>3 DEF lockedMakeShortName, c
-----------------------------------------------------------------------------
(* What a state with the invariant gives each action to work on.            *)

LEMMA ElementOf ==
  ASSUME NEW S, NEW s \in Seq(S), NEW k \in DOMAIN s
  PROVE  s[k] \in S
  OBVIOUS

\* Titles leave words, and so do the hints of the well-known threads.
LEMMA RowTyped ==
  ASSUME TypeOK, rows # <<>>
  PROVE  /\ Head(rows).id \in Ids /\ Head(rows).title \in Titles
         /\ Head(rows).words \in Names \ {<<>>}
         /\ Tail(rows) \in Seq(Rows \cup Range(WellKnown))
<1>1. rows \in Seq(Rows \cup Range(WellKnown))
  BY DEF TypeOK
<1>2. Head(rows) \in Rows \cup Range(WellKnown) /\ Tail(rows) \in Seq(Rows \cup Range(WellKnown))
  BY <1>1
<1>0. /\ Words \in [Titles -> Names \ {<<>>}]
      /\ WellKnown \in Seq([id : Ids, title : Titles, words : Names \ {<<>>}])
  BY ConstAssumption, Zenon DEF Names
<1>3. CASE Head(rows) \in Rows
  <2>1. PICK i \in Ids, t \in Titles : Head(rows) = Row(i, t)
    BY <1>3 DEF Rows
  <2> QED
    BY <1>0, <1>2, <2>1 DEF Row
<1>4. CASE Head(rows) \in Range(WellKnown)
  <2>1. PICK k \in DOMAIN WellKnown : Head(rows) = WellKnown[k]
    BY <1>4, Zenon DEF Range
  <2>2. WellKnown[k] \in [id : Ids, title : Titles, words : Names \ {<<>>}]
    BY <1>0, ElementOf, Zenon
  <2> QED
    BY <1>2, <2>1, <2>2
<1> QED
  BY <1>2, <1>3, <1>4

\* There are no more names than threads.
LEMMA NamesFew ==
  ASSUME TypeOK, TablesAgree
  PROVE  /\ IsFiniteSet(DOMAIN shortNames)
         /\ Cardinality(DOMAIN shortNames) <= Cardinality(Threads)
<1> DEFINE f == [n \in DOMAIN shortNames |-> shortNames[n]]
<1>1. f \in [DOMAIN shortNames -> Threads]
  BY DEF TypeOK
<1>2. ASSUME NEW m \in DOMAIN shortNames, NEW n \in DOMAIN shortNames,
             shortNames[m] = shortNames[n]
      PROVE  m = n
  <2>1. LC \notin DOMAIN threads
    BY ConstAssumption DEF TypeOK
  <2> QED
    BY <1>2, <2>1 DEF TablesAgree
<1>3. f \in Injection(DOMAIN shortNames, Threads)
  BY <1>1, <1>2 DEF Injection, IsInjective
<1> QED
  BY <1>3, FS_Injection, ConstAssumption

\* The name made for a thread is a new one.
LEMMA NewName ==
  ASSUME TypeOK, TablesAgree, rows # <<>>
  PROVE  lockedMakeShortName(Head(rows).words, DOMAIN shortNames) \in Names \ DOMAIN shortNames
BY RowTyped, NamesFew, NameFree

\* A thread is added under a new name; every other one keeps its name.
LEMMA Added ==
  ASSUME TypeOK, TablesAgree, AddThread
  PROVE  \E i \in Ids \ DOMAIN threads, m \in Names \ DOMAIN shortNames, x \in Titles :
            /\ threads' = Entered(threads, i, m) /\ shortNames' = Entered(shortNames, m, i)
            /\ title' = Entered(title, i, x)
            /\ i = Head(rows).id /\ m = lockedMakeShortName(Head(rows).words, DOMAIN shortNames)
BY RowTyped, NewName, Zenon DEF AddThread, Add

\* A JOIN under way is of a thread that the tables have.
LEMMA TargetKnown ==
  ASSUME TypeOK, TablesAgree, Entries, NEW c \in Conns, cpc[c] # "idle"
  PROVE  target[c] \in DOMAIN threads \cup {LC} /\ target[c] \in Threads
<1>1. PICK n \in DOMAIN mine[c] : target[c] = mine[c][n]
  BY DEF Entries, Range
<1>2. n \in DOMAIN shortNames /\ shortNames[n] = target[c]
  BY <1>1 DEF Entries
<1> QED
  BY <1>2 DEF TablesAgree, TypeOK

\* What the steps of the updater, and those of a connection, leave alone.
LEMMA UpdaterFrame == Updater => UNCHANGED <<connVars, subscribers>>
BY DEF Updater, UpdateThreads, ForumUpdated, AddThread, Add, TakeTitle, Broadcast,
   BroadcastDone, RowsDone

ConnStep(c) ==
    \/ \E n \in DOMAIN shortNames : Join(c, n) \/ Part(c, n)
    \/ Subscribe(c) \/ SendTopic(c) \/ Joined(c)

LEMMA ConnFrame ==
  ASSUME NEW c \in Conns, ConnStep(c)
  PROVE  UNCHANGED <<slock, tables, updVars>>
BY DEF ConnStep, Join, Part, Subscribe, SendTopic, Joined
-----------------------------------------------------------------------------
(* The inductive invariant, one lemma per conjunct.                         *)
LEMMA TypeStep ==
  ASSUME TypeOK, UpdaterPlace, TablesAgree, Entries, [Next]_vars
  PROVE  TypeOK'
<1>1. CASE UpdateThreads
  <2>1. rows' \in Seq(Rows \cup Range(WellKnown))
    <3>1. WellKnown \in Seq(Range(WellKnown))
      BY ConstAssumption DEF Range
    <3>2. \A l \in Lists : l \in Seq(Rows)
      BY ConstAssumption
    <3> QED
      BY <1>1, <3>1, <3>2 DEF UpdateThreads
  <2> QED
    BY <1>1, <2>1 DEF UpdateThreads, TypeOK
<1>2. CASE ForumUpdated \/ RowsDone
  BY <1>2 DEF ForumUpdated, RowsDone, TypeOK
<1>3. CASE AddThread
  <2>1. PICK i \in Ids \ DOMAIN threads, m \in Names \ DOMAIN shortNames, x \in Titles :
            /\ threads' = Entered(threads, i, m) /\ shortNames' = Entered(shortNames, m, i)
            /\ title' = Entered(title, i, x)
    BY <1>3, Added
  <2>2. rows # <<>> /\ rows' = Tail(rows) /\ upc' = "row"
        /\ UNCHANGED <<slock, tlock, subscribers, left, connVars, told>>
    BY <1>3 DEF AddThread, Add
  <2>3. i \in Threads
    BY DEF Threads
  <2>4. DOMAIN threads' \subseteq Ids /\ \A k \in DOMAIN threads' : threads'[k] \in Names
    BY <2>1 DEF TypeOK, Entered
  <2>5. \A n \in DOMAIN shortNames' : n \in Names /\ shortNames'[n] \in Threads
    BY <2>1, <2>3 DEF TypeOK, Entered
  <2>6. title' \in [DOMAIN threads' \cup {LC} -> Titles]
    BY <2>1 DEF TypeOK, Entered
  <2> QED
    BY <2>2, <2>4, <2>5, <2>6, RowTyped DEF TypeOK
<1>4. CASE TakeTitle
  <2>1. Head(rows).id \in DOMAIN threads /\ Head(rows).title \in Titles /\ Head(rows).id \in Threads
    BY <1>4, RowTyped DEF TakeTitle, Threads
  <2>2. subscribers[Head(rows).id] \subseteq Conns
    BY <2>1 DEF TypeOK
  <2> QED
    BY <1>4, <2>1, <2>2 DEF TakeTitle, TypeOK
<1>5. ASSUME NEW c \in Conns, Broadcast(c) PROVE TypeOK'
  <2>1. rows # <<>>
    BY <1>5 DEF Broadcast, UpdaterPlace
  <2>2. BareLines(Head(rows).title) \in Notices
    BY <2>1, RowTyped DEF BareLines, Notices
  <2> QED
    BY <1>5, <2>2 DEF Broadcast, TypeOK
<1>6. CASE BroadcastDone
  <2>1. Tail(rows) \in Seq(Rows \cup Range(WellKnown))
    BY <1>6, RowTyped DEF BroadcastDone, UpdaterPlace
  <2> QED
    BY <1>6, <2>1 DEF BroadcastDone, TypeOK
<1>7. ASSUME NEW c \in Conns, NEW n \in DOMAIN shortNames, Join(c, n) PROVE TypeOK'
  <2>1. shortNames[n] \in Threads
    BY DEF TypeOK
  <2>2. DOMAIN mine' = Conns /\ \A d \in Conns : \A m \in DOMAIN mine'[d] : mine'[d][m] \in Threads
    BY <1>7, <2>1 DEF Join, TypeOK, Entered
  <2> QED
    BY <1>7, <2>1, <2>2 DEF Join, TypeOK
<1>8. ASSUME NEW c \in Conns, NEW n \in DOMAIN shortNames, Part(c, n) PROVE TypeOK'
  <2>1. DOMAIN mine' = Conns /\ \A d \in Conns : \A m \in DOMAIN mine'[d] : mine'[d][m] \in Threads
    BY <1>8 DEF Part, TypeOK
  <2> QED
    BY <1>8, <2>1 DEF Part, TypeOK
<1>9. ASSUME NEW c \in Conns, Subscribe(c) \/ SendTopic(c) \/ Joined(c) PROVE TypeOK'
  <2>1. cpc[c] # "idle"
    BY <1>9 DEF Subscribe, SendTopic, Joined
  <2>2. target[c] \in DOMAIN threads \cup {LC} /\ target[c] \in Threads
    BY <2>1, TargetKnown
  <2>3. TopicLine(title[target[c]]) \in Notices
    BY <2>2 DEF TypeOK, TopicLine, Notices
  <2>4. CASE Subscribe(c)
    BY <2>2, <2>4 DEF Subscribe, TypeOK
  <2>5. CASE SendTopic(c)
    BY <2>2, <2>3, <2>5 DEF SendTopic, TypeOK
  <2>6. CASE Joined(c)
    BY <2>2, <2>6 DEF Joined, TypeOK
  <2> QED
    BY <1>9, <2>4, <2>5, <2>6
<1>10. CASE UNCHANGED vars
  BY <1>10 DEF TypeOK
<1> QED
  BY <1>1, <1>2, <1>3, <1>4, <1>5, <1>6, <1>7, <1>8, <1>9, <1>10 DEF Next, Updater

LEMMA UpdaterPlaceStep ==
  ASSUME TypeOK, UpdaterPlace, [Next]_vars
  PROVE  UpdaterPlace'
<1>1. CASE Updater
  BY <1>1 DEF Updater, UpdateThreads, ForumUpdated, AddThread, Add, TakeTitle, Broadcast,
     BroadcastDone, RowsDone, UpdaterPlace, TypeOK
<1>2. ASSUME NEW c \in Conns, ConnStep(c) PROVE UpdaterPlace'
  BY <1>2, ConnFrame DEF UpdaterPlace
<1>3. CASE UNCHANGED vars
  BY <1>3 DEF UpdaterPlace
<1> QED
  BY <1>1, <1>2, <1>3 DEF Next, ConnStep

LEMMA TablesAgreeStep ==
  ASSUME TypeOK, TablesAgree, [Next]_vars
  PROVE  TablesAgree'
<1>1. CASE AddThread
  <2>1. PICK i \in Ids \ DOMAIN threads, m \in Names \ DOMAIN shortNames :
            threads' = Entered(threads, i, m) /\ shortNames' = Entered(shortNames, m, i)
    BY <1>1, Added
  <2> QED
    BY <2>1 DEF TablesAgree, Entered
<1>2. CASE ~AddThread
  <2>1. UNCHANGED <<threads, shortNames>>
    BY <1>2 DEF Next, Updater, UpdateThreads, ForumUpdated, TakeTitle, Broadcast,
       BroadcastDone, RowsDone, Join, Part, Subscribe, SendTopic, Joined
  <2> QED
    BY <2>1 DEF TablesAgree
<1> QED
  BY <1>1, <1>2

LEMMA LocksHeldStep ==
  ASSUME TypeOK, UpdaterPlace, TablesAgree, LocksHeld, Entries, [Next]_vars
  PROVE  LocksHeld'
<1>1. /\ None \notin Conns /\ "updater" \notin Conns /\ "updater" # None
      /\ tlock \in [Threads -> Conns \cup {"updater", None}]
      /\ target \in [Conns -> Threads \cup {None}]
      /\ cpc \in [Conns -> {"idle", "subscribe", "topic", "joined"}]
  BY ConstAssumption DEF TypeOK
<1>2. CASE UpdateThreads \/ ForumUpdated \/ AddThread \/ RowsDone
  BY <1>2 DEF UpdateThreads, ForumUpdated, AddThread, Add, RowsDone, LocksHeld
<1>3. CASE TakeTitle
  BY <1>1, <1>3 DEF TakeTitle, LocksHeld
<1>4. ASSUME NEW c \in Conns, Broadcast(c) PROVE LocksHeld'
  BY <1>4 DEF Broadcast, LocksHeld
<1>5. CASE BroadcastDone
  BY <1>1, <1>5 DEF BroadcastDone, LocksHeld
<1>6. ASSUME NEW c \in Conns, NEW n \in DOMAIN shortNames, Join(c, n) \/ Part(c, n)
      PROVE  LocksHeld'
  <2>1. /\ UNCHANGED <<upc, rows, tlock>> /\ cpc[c] = "idle" /\ cpc'[c] \in {"idle", "subscribe"}
        /\ \A d \in Conns \ {c} : cpc'[d] = cpc[d] /\ target'[d] = target[d]
    BY <1>1, <1>6 DEF Join, Part
  <2> QED
    BY <2>1 DEF LocksHeld
<1>7. ASSUME NEW c \in Conns, Subscribe(c) \/ SendTopic(c) \/ Joined(c) PROVE LocksHeld'
  <2>1. cpc[c] # "idle"
    BY <1>7 DEF Subscribe, SendTopic, Joined
  <2>2. target[c] \in Threads
    BY <2>1, TargetKnown
  <2>3. CASE Subscribe(c)
    BY <1>1, <2>2, <2>3 DEF Subscribe, LocksHeld
  <2>4. CASE SendTopic(c)
    BY <1>1, <2>4 DEF SendTopic, LocksHeld
  <2>5. CASE Joined(c)
    BY <1>1, <2>2, <2>5 DEF Joined, LocksHeld
  <2> QED
    BY <1>7, <2>3, <2>4, <2>5
<1>8. CASE UNCHANGED vars
  BY <1>8 DEF LocksHeld
<1> QED
  BY <1>2, <1>3, <1>4, <1>5, <1>6, <1>7, <1>8 DEF Next, Updater

\* A name that is entered has been joined: no other name leads to its thread.
LEMMA EntriesDistinct ==
  ASSUME TypeOK, TablesAgree, Entries, NEW c \in Conns, NEW n \in DOMAIN shortNames,
         NEW m \in DOMAIN mine[c], mine[c][m] = shortNames[n]
  PROVE  m = n
<1>1. m \in DOMAIN shortNames /\ shortNames[m] = shortNames[n]
  BY DEF Entries
<1>2. LC \notin DOMAIN threads
  BY ConstAssumption DEF TypeOK
<1> QED
  BY <1>1, <1>2 DEF TablesAgree

LEMMA EntriesStep ==
  ASSUME TypeOK, TablesAgree, Entries, [Next]_vars
  PROVE  Entries'
<1>0. /\ subscribers \in [Threads -> SUBSET Conns] /\ DOMAIN mine = Conns
      /\ cpc \in [Conns -> {"idle", "subscribe", "topic", "joined"}]
      /\ target \in [Conns -> Threads \cup {None}]
  BY DEF TypeOK
<1>1. CASE Updater
  <2>1. UNCHANGED <<connVars, subscribers>>
    BY <1>1, UpdaterFrame
  <2>2. \A n \in DOMAIN shortNames : n \in DOMAIN shortNames' /\ shortNames'[n] = shortNames[n]
    <3>1. CASE AddThread
      BY <3>1, Added DEF Entered
    <3>2. CASE ~AddThread
      BY <1>1, <3>2 DEF Updater, UpdateThreads, ForumUpdated, TakeTitle, Broadcast,
         BroadcastDone, RowsDone
    <3> QED
      BY <3>1, <3>2
  <2> QED
    BY <2>1, <2>2 DEF Entries, Joining
<1>2. ASSUME NEW c \in Conns, NEW n \in DOMAIN shortNames, Join(c, n) PROVE Entries'
  <2> DEFINE t == shortNames[n]
  <2>1. t \in Threads /\ t \notin Range(mine[c])
    BY <1>2, EntriesDistinct DEF TypeOK, Join, Range
  <2>2. /\ mine'[c] = Entered(mine[c], n, t) /\ \A d \in Conns \ {c} : mine'[d] = mine[d]
        /\ cpc[c] = "idle" /\ cpc' = [cpc EXCEPT ![c] = "subscribe"]
        /\ target' = [target EXCEPT ![c] = t]
        /\ UNCHANGED <<shortNames, subscribers>> /\ n \notin DOMAIN mine[c]
    BY <1>0, <1>2 DEF Join
  <2>3. Range(mine'[c]) = Range(mine[c]) \cup {t}
    BY <2>2 DEF Range, Entered
  <2>4. \A m \in DOMAIN mine'[c] : m \in DOMAIN shortNames /\ shortNames[m] = mine'[c][m]
    BY <2>2 DEF Entries, Entered
  <2> QED
    BY <1>0, <2>1, <2>2, <2>3, <2>4 DEF Entries, Joining
<1>3. ASSUME NEW c \in Conns, NEW n \in DOMAIN shortNames, Part(c, n) PROVE Entries'
  <2> DEFINE t == shortNames[n]
  <2>1. /\ mine'[c] = [m \in DOMAIN mine[c] \ {n} |-> mine[c][m]]
        /\ \A d \in Conns \ {c} : mine'[d] = mine[d]
        /\ cpc[c] = "idle" /\ cpc' = [cpc EXCEPT ![c] = "idle"]
        /\ subscribers' = [subscribers EXCEPT ![t] = @ \ {c}]
        /\ UNCHANGED <<shortNames, target>> /\ n \in DOMAIN mine[c]
    BY <1>0, <1>3 DEF Part
  <2>2. t \in Threads /\ mine[c][n] = t
    BY <2>1 DEF TypeOK, Entries
  <2>3. \A m \in DOMAIN mine[c] : mine[c][m] = t => m = n
    BY EntriesDistinct
  <2>4. Range(mine'[c]) = Range(mine[c]) \ {t}
    BY <2>1, <2>2, <2>3 DEF Range
  <2> HIDE DEF t
  <2>5. ASSUME NEW u \in Threads, NEW d \in Conns
        PROVE  d \in subscribers'[u] <=> u \in Range(mine'[d]) \ Joining(d)'
    <3>1. d \in subscribers[u] <=> u \in Range(mine[d]) \ Joining(d)
      BY DEF Entries
    <3>2. CASE d = c
      BY <1>0, <2>1, <2>2, <2>4, <3>1, <3>2 DEF Joining
    <3>3. CASE d # c
      BY <1>0, <2>1, <2>2, <3>1, <3>3 DEF Joining
    <3> QED
      BY <3>2, <3>3
  <2>6. \A d \in Conns : cpc'[d] # "idle" => target'[d] \in Range(mine'[d])
    BY <1>0, <2>1 DEF Entries
  <2>7. \A d \in Conns : \A m \in DOMAIN mine'[d] :
           m \in DOMAIN shortNames' /\ shortNames'[m] = mine'[d][m]
    BY <2>1 DEF Entries
  <2> QED
    BY <2>5, <2>6, <2>7, Zenon DEF Entries
<1>4. ASSUME NEW c \in Conns, Subscribe(c) PROVE Entries'
  <2>1. target[c] \in Threads /\ target[c] \in Range(mine[c])
    BY <1>4, TargetKnown DEF Subscribe, Entries
  <2>2. /\ cpc[c] = "subscribe" /\ cpc' = [cpc EXCEPT ![c] = "topic"]
        /\ subscribers' = [subscribers EXCEPT ![target[c]] = @ \cup {c}]
        /\ UNCHANGED <<shortNames, mine, target>>
    BY <1>4 DEF Subscribe
  <2>3. Joining(c) = {target[c]} /\ Joining(c)' = {}
    BY <1>0, <2>2 DEF Joining
  <2>4. \A d \in Conns \ {c} : Joining(d)' = Joining(d) /\ cpc'[d] = cpc[d]
    BY <1>0, <2>2 DEF Joining
  <2>5. ASSUME NEW t \in Threads, NEW d \in Conns
        PROVE  d \in subscribers'[t] <=> t \in Range(mine'[d]) \ Joining(d)'
    <3>1. d \in subscribers[t] <=> t \in Range(mine[d]) \ Joining(d)
      BY DEF Entries
    <3>2. CASE d = c
      BY <1>0, <2>1, <2>2, <2>3, <3>1, <3>2
    <3>3. CASE d # c
      BY <1>0, <2>1, <2>2, <2>4, <3>1, <3>3
    <3> QED
      BY <3>2, <3>3
  <2>6. \A d \in Conns : cpc'[d] # "idle" => target'[d] \in Range(mine'[d])
    BY <2>1, <2>2, <2>4 DEF Entries
  <2>7. \A d \in Conns : \A n \in DOMAIN mine'[d] :
           n \in DOMAIN shortNames' /\ shortNames'[n] = mine'[d][n]
    BY <2>2 DEF Entries
  <2> QED
    BY <2>5, <2>6, <2>7, Zenon DEF Entries
<1>5. ASSUME NEW c \in Conns, SendTopic(c) \/ Joined(c) PROVE Entries'
  BY <1>0, <1>5 DEF SendTopic, Joined, Entries, Joining
<1>6. CASE UNCHANGED vars
  BY <1>6 DEF Entries, Joining
<1> QED
  BY <1>1, <1>2, <1>3, <1>4, <1>5, <1>6 DEF Next

\* A thread with subscribers is one that the tables have.
LEMMA SubscribedKnown ==
  ASSUME TypeOK, TablesAgree, Entries, NEW t \in Threads, NEW c \in subscribers[t]
  PROVE  c \in Conns /\ t \in DOMAIN threads \cup {LC}
<1>1. c \in Conns
  BY DEF TypeOK
<1>2. PICK n \in DOMAIN mine[c] : mine[c][n] = t
  BY <1>1 DEF Entries, Range
<1> QED
  BY <1>1, <1>2 DEF Entries, TablesAgree

LEMMA TitlesOwedStep ==
  ASSUME TypeOK, UpdaterPlace, TablesAgree, LocksHeld, Entries, TitlesOwed, [Next]_vars
  PROVE  TitlesOwed'
<1>0. /\ None \notin Conns /\ "updater" \notin Conns /\ "updater" # None
      /\ tlock \in [Threads -> Conns \cup {"updater", None}]
      /\ subscribers \in [Threads -> SUBSET Conns] /\ left \subseteq Conns
      /\ cpc \in [Conns -> {"idle", "subscribe", "topic", "joined"}]
      /\ target \in [Conns -> Threads \cup {None}]
      /\ title \in [DOMAIN threads \cup {LC} -> Titles]
      /\ told \in [Conns -> [Threads -> Notices \cup {None}]]
  BY ConstAssumption DEF TypeOK
<1>1. CASE UpdateThreads \/ ForumUpdated \/ RowsDone
  BY <1>1 DEF UpdateThreads, ForumUpdated, RowsDone, TitlesOwed, TitleDue, OwesTitle
<1>2. CASE AddThread
  <2>1. PICK i \in Ids \ DOMAIN threads, x \in Titles : title' = Entered(title, i, x)
    BY <1>2, Added
  <2>2. upc' = "row" /\ UNCHANGED <<tlock, subscribers, left, connVars, told>>
    BY <1>2 DEF AddThread, Add
  <2>3. i # LC
    BY ConstAssumption
  <2>4. ASSUME NEW t \in Threads, NEW c \in subscribers[t] PROVE title'[t] = title[t]
    BY <1>0, <2>1, <2>3, SubscribedKnown DEF Entered
  <2> QED
    BY <2>2, <2>4 DEF TitlesOwed, TitleDue, OwesTitle
<1>3. CASE TakeTitle
  <2> DEFINE r == Head(rows)
  <2>1. /\ upc = "row" /\ UNCHANGED <<subscribers, rows, told, connVars>>
        /\ r.id \in DOMAIN threads /\ tlock[r.id] = None
        /\ tlock' = [tlock EXCEPT ![r.id] = "updater"]
        /\ title' = [title EXCEPT ![r.id] = r.title]
        /\ left' = IF title[r.id] # r.title THEN subscribers[r.id] ELSE {}
    BY <1>3 DEF TakeTitle
  <2>2. r.id \in Threads
    BY <2>1 DEF TypeOK, Threads
  <2> HIDE DEF r
  <2>3. ASSUME NEW t \in Threads, NEW c \in subscribers[t] PROVE TitleDue(c, t)'
    <3>1. TitleDue(c, t) /\ c \in Conns /\ tlock[t] # "updater"
      BY <1>0, <2>1 DEF TitlesOwed, LocksHeld
    <3>2. CASE t = r.id
      BY <1>0, <2>1, <2>2, <3>1, <3>2 DEF TitleDue, OwesTitle
    <3>3. CASE t # r.id
      BY <1>0, <2>1, <2>2, <3>1, <3>3 DEF TitleDue, OwesTitle
    <3> QED
      BY <3>2, <3>3
  <2>4. title'[r.id] = r.title
    BY <1>0, <2>1
  <2> QED
    BY <2>1, <2>3, <2>4 DEF TitlesOwed, r
<1>4. ASSUME NEW c \in Conns, Broadcast(c) PROVE TitlesOwed'
  <2> DEFINE r == Head(rows)
  <2>1. /\ upc = "broadcast" /\ left' = left \ {c}
        /\ told' = [told EXCEPT ![c][r.id] = BareLines(r.title)]
        /\ UNCHANGED <<tables, tlock, subscribers, rows, connVars>>
    BY <1>4 DEF Broadcast
  <2>2. title[r.id] = r.title
    BY <2>1 DEF TitlesOwed
  <2>3. \A t \in Threads : tlock[t] = "updater" => t = r.id
    BY DEF LocksHeld
  <2> HIDE DEF r
  <2>4. ASSUME NEW t \in Threads, NEW d \in subscribers[t] PROVE TitleDue(d, t)'
    <3>1. TitleDue(d, t) /\ d \in Conns
      BY <1>0 DEF TitlesOwed
    <3>2. CASE told[d][t] \in Shows(title[t])
      BY <1>0, <2>1, <2>2, <3>1, <3>2 DEF TitleDue, Shows
    <3>3. CASE OwesTitle(d, t)
      BY <1>0, <2>1, <2>2, <2>3, <3>1, <3>3 DEF TitleDue, OwesTitle, Shows
    <3> QED
      BY <3>1, <3>2, <3>3 DEF TitleDue
  <2> QED
    BY <2>1, <2>2, <2>4 DEF TitlesOwed, r
<1>5. CASE BroadcastDone
  <2> DEFINE r == Head(rows)
  <2>1. /\ upc = "broadcast" /\ upc' = "row" /\ left = {}
        /\ tlock' = [tlock EXCEPT ![r.id] = None]
        /\ UNCHANGED <<tables, subscribers, told, left, connVars>>
    BY <1>5 DEF BroadcastDone
  <2>2. \A t \in Threads : tlock[t] = "updater" <=> t = r.id
    BY <2>1 DEF LocksHeld
  <2> HIDE DEF r
  <2>3. ASSUME NEW t \in Threads, NEW c \in subscribers[t] PROVE TitleDue(c, t)'
    <3>1. TitleDue(c, t) /\ c \in Conns
      BY <1>0 DEF TitlesOwed
    <3>2. CASE told[c][t] \in Shows(title[t])
      BY <2>1, <3>2 DEF TitleDue
    <3>3. CASE OwesTitle(c, t)
      <4>1. tlock[t] = c /\ cpc[c] = "topic" /\ t # r.id
        BY <2>1, <2>2, <3>1, <3>3, ConstAssumption DEF OwesTitle
      <4>2. tlock'[t] = tlock[t] /\ cpc' = cpc
        BY <2>1, <4>1
      <4> QED
        BY <4>1, <4>2 DEF TitleDue, OwesTitle
    <3> QED
      BY <3>1, <3>2, <3>3 DEF TitleDue
  <2> QED
    BY <2>1, <2>3 DEF TitlesOwed
<1>6. ASSUME NEW c \in Conns, ConnStep(c) PROVE TitlesOwed'
  <2>1. UNCHANGED <<slock, tables, updVars>>
    BY <1>6, ConnFrame
  <2>2. ASSUME NEW t \in Threads, NEW d \in subscribers'[t] PROVE TitleDue(d, t)'
    <3>1. ASSUME NEW n \in DOMAIN shortNames, Join(c, n) PROVE TitleDue(d, t)'
      <4>1. /\ UNCHANGED <<tlock, told, title, left>> /\ subscribers' = subscribers
            /\ cpc[c] = "idle" /\ \A e \in Conns : cpc'[e] = cpc[e] \/ e = c
        BY <1>0, <2>1, <3>1 DEF Join
      <4>2. TitleDue(d, t) /\ d \in Conns
        BY <1>0, <4>1 DEF TitlesOwed
      <4> QED
        BY <4>1, <4>2 DEF TitleDue, OwesTitle
    <3>2. ASSUME NEW n \in DOMAIN shortNames, Part(c, n) PROVE TitleDue(d, t)'
      BY <1>0, <2>1, <3>2 DEF Part, TitlesOwed, TitleDue, OwesTitle
    <3>3. CASE Subscribe(c) \/ SendTopic(c) \/ Joined(c)
      <4>1. target[c] \in Threads
        BY <3>3, TargetKnown DEF Subscribe, SendTopic, Joined
      <4>2. CASE Subscribe(c)
        BY <1>0, <2>1, <4>1, <4>2 DEF Subscribe, TitlesOwed, TitleDue, OwesTitle
      <4>3. CASE SendTopic(c)
        BY <1>0, <2>1, <4>1, <4>3 DEF SendTopic, TitlesOwed, TitleDue, OwesTitle, LocksHeld, Shows
      <4>4. CASE Joined(c)
        BY <1>0, <2>1, <4>1, <4>4 DEF Joined, TitlesOwed, TitleDue, OwesTitle, LocksHeld
      <4> QED
        BY <3>3, <4>2, <4>3, <4>4
    <3> QED
      BY <1>6, <3>1, <3>2, <3>3 DEF ConnStep
  <2> QED
    BY <2>1, <2>2 DEF TitlesOwed
<1>7. CASE UNCHANGED vars
  BY <1>7 DEF TitlesOwed, TitleDue, OwesTitle
<1> QED
  BY <1>1, <1>2, <1>3, <1>4, <1>5, <1>6, <1>7 DEF Next, Updater, ConnStep
-----------------------------------------------------------------------------
\* Every state has the inductive invariant.
THEOREM Inductive == Spec => []IInv
<1>1. Init => IInv
  <2> SUFFICES ASSUME Init PROVE IInv
    OBVIOUS
  <2>1. TypeOK
    <3>1. slock \in BOOLEAN
      BY Zenon DEF Init
    <3>2. LCName \in Names
      <4>1. "lc" \in STRING
        BY LiteralAssumption
      <4> QED
        BY <4>1, Single, Zenon DEF LCName, Names
    <3>3. rows \in Seq(Rows \cup Range(WellKnown))
      BY DEF Init
    <3> QED
      BY <3>1, <3>2, <3>3, ConstAssumption DEF Init, TypeOK, Threads
  <2>2. UpdaterPlace /\ TablesAgree
    BY DEF Init, UpdaterPlace, TablesAgree
  <2>3. LocksHeld /\ Entries /\ TitlesOwed
    BY ConstAssumption DEF Init, LocksHeld, Entries, Joining, TitlesOwed, Range
  <2> QED
    BY <2>1, <2>2, <2>3 DEF IInv
<1>2. IInv /\ [Next]_vars => IInv'
  BY TypeStep, UpdaterPlaceStep, TablesAgreeStep, LocksHeldStep, EntriesStep, TitlesOwedStep
  DEF IInv
<1> QED
  BY <1>1, <1>2, PTL DEF Spec

\* A thread keeps its name, and a name its thread.
Kept ==
    /\ \A n \in DOMAIN shortNames : n \in DOMAIN shortNames' /\ shortNames'[n] = shortNames[n]
    /\ \A i \in DOMAIN threads : i \in DOMAIN threads' /\ threads'[i] = threads[i]

LEMMA KeptStep == IInv /\ [Next]_vars => Kept
<1> SUFFICES ASSUME IInv, [Next]_vars PROVE Kept
  OBVIOUS
<1>1. CASE AddThread
  BY <1>1, Added DEF IInv, Entered, Kept
<1>2. CASE ~AddThread
  BY <1>2 DEF Next, Updater, UpdateThreads, ForumUpdated, TakeTitle, Broadcast,
     BroadcastDone, RowsDone, Join, Part, Subscribe, SendTopic, Joined, Kept
<1> QED
  BY <1>1, <1>2

\* "Threads are persistent for each server invocation by thread ID": a name
\* never passes to another thread, nor a thread to another name.
THEOREM NamesArePermanent == Spec => NamesPermanent
<1>1. IInv /\ [Next]_vars => [Kept]_vars
  BY KeptStep
<1> QED
  BY <1>1, Inductive, PTL DEF Spec, NamesPermanent, Kept

\* PART finds the thread that JOIN entered, and between commands both sides of
\* the mapping agree.
THEOREM MappingsAgree == Spec => []MappingAgrees
<1>1. IInv => MappingAgrees
  <2> SUFFICES ASSUME IInv, NEW c \in Conns
               PROVE  /\ \A n \in DOMAIN mine[c] :
                            n \in DOMAIN shortNames /\ shortNames[n] = mine[c][n]
                      /\ cpc[c] = "idle" =>
                            {t \in Threads : c \in subscribers[t]} = Range(mine[c])
    BY DEF MappingAgrees
  <2>1. Range(mine[c]) \subseteq Threads
    BY DEF IInv, TypeOK, Range
  <2> QED
    BY <2>1 DEF IInv, Entries, Joining
<1> QED
  BY <1>1, Inductive, PTL

\* Between two locks of a thread, what each of its subscribers was last sent about
\* its title, in the topic line of its JOIN or in the lines of a broadcast, shows
\* the current one.
THEOREM TitlesShown == Spec => []TitleShown
<1>1. IInv => TitleShown
  <2> SUFFICES ASSUME IInv, NEW t \in Threads, NEW c \in subscribers[t], tlock[t] = None
               PROVE  told[c][t] \in Shows(title[t])
    BY DEF TitleShown
  <2>1. c \in Conns
    BY DEF IInv, TypeOK
  <2> QED
    BY <2>1, ConstAssumption DEF IInv, TitlesOwed, TitleDue, OwesTitle
<1> QED
  BY <1>1, Inductive, PTL
-----------------------------------------------------------------------------
(* The reserved names.                                                      *)

\* A name that is free is the first to be tried.
LEMMA FirstFree ==
  ASSUME NEW words \in Names, NEW used, IsFiniteSet(used),
         Significant(words) # <<>>, SubSeq(Significant(words), 1, 1) \notin used
  PROVE  lockedMakeShortName(words, used) = SubSeq(Significant(words), 1, 1)
<1> DEFINE w == Significant(words)
           P == [i \in 1..Len(w) |-> SubSeq(w, 1, i)]
           V == [n \in 1..Cardinality(used) + 1 |-> <<w[1], Digit[n - 1]>>]
           c == Candidates(words, used)
<1>1. w \in Names /\ w # <<>>
  BY SignificantTyped
<1>2. Len(w) \in Nat /\ Len(w) >= 1
  BY <1>1 DEF Names
<1>3. c = P \o V
  BY <1>1 DEF Candidates
<1>4. Cardinality(used) \in Nat
  BY FS_CardinalityType
<1> HIDE DEF w
<1>5. Len(P) = Len(w) /\ Len(V) = Cardinality(used) + 1
  BY <1>2, <1>4
<1>6. Len(c) \in Nat /\ Len(c) >= 1 /\ c[1] = SubSeq(w, 1, 1)
  BY <1>2, <1>3, <1>4, <1>5
<1> HIDE DEF c, P, V
<1>7. \A i \in 1..Len(c) :
         (c[i] \notin used /\ \A j \in 1..i - 1 : c[j] \in used) <=> i = 1
  <2>1. c[1] \notin used
    BY <1>6 DEF w
  <2>2. 1 \in 1..Len(c) /\ \A i \in 1..Len(c) : i # 1 => 1 \in 1..i - 1
    BY <1>6
  <2> QED
    BY <2>1, <2>2
<1>8. (CHOOSE i \in 1..Len(c) : c[i] \notin used /\ \A j \in 1..i - 1 : c[j] \in used) = 1
  BY <1>6, <1>7
<1>9. lockedMakeShortName(words, used) = c[1]
  BY <1>8 DEF lockedMakeShortName, c
<1> QED
  BY <1>6, <1>9 DEF w

\* A row of the list that is not known yet is named by its hint, and one that is
\* known already has the name.
LEMMA ReserveOne ==
  ASSUME IInv, HintsDistinct, NEW k \in 0..Len(WellKnown) - 1, Reserved(k),
         Head(rows) = WellKnown[k + 1], rows # <<>>
  PROVE  /\ Head(rows).id \in DOMAIN threads => Named(k + 1)
         /\ Head(rows).id \notin DOMAIN threads =>
               lockedMakeShortName(Head(rows).words, DOMAIN shortNames) = Hint(k + 1)
<1> DEFINE i == Head(rows).id
<1>1. k + 1 \in DOMAIN WellKnown /\ \A j \in 1..k : j \in DOMAIN WellKnown
  BY ConstAssumption
<1>2. TypeOK /\ TablesAgree /\ LC \notin DOMAIN threads
  BY ConstAssumption DEF IInv, TypeOK
<1>3. ASSUME i \in DOMAIN threads PROVE Named(k + 1)
  <2>1. threads[i] \in DOMAIN shortNames /\ shortNames[threads[i]] = i
    BY <1>2, <1>3 DEF TablesAgree
  <2>2. threads[i] # LCName
    BY <1>2, <1>3, <2>1 DEF Reserved
  <2>3. PICK j \in 1..k : threads[i] = Hint(j)
    BY <2>1, <2>2 DEF Reserved
  <2>4. WellKnown[j].id = i
    BY <1>2, <2>1, <2>3 DEF Reserved, Named, TablesAgree
  <2> QED
    BY <1>1, <1>3, <2>3, <2>4 DEF HintsDistinct, Named
<1>4. ASSUME i \notin DOMAIN threads
      PROVE  lockedMakeShortName(Head(rows).words, DOMAIN shortNames) = Hint(k + 1)
  <2>1. Hint(k + 1) \notin DOMAIN shortNames
    <3>1. Hint(k + 1) # LCName
      BY <1>1 DEF HintsDistinct
    <3>2. ASSUME NEW j \in 1..k, Hint(k + 1) = Hint(j) PROVE FALSE
      BY <1>1, <1>4, <3>2 DEF HintsDistinct, Reserved, Named
    <3> QED
      BY <3>1, <3>2 DEF Reserved
  <2>2. /\ Head(rows).words \in Names /\ IsFiniteSet(DOMAIN shortNames)
        /\ Significant(Head(rows).words) # <<>>
    BY <1>1, <1>2, RowTyped, NamesFew DEF HintsDistinct
  <2> QED
    BY <2>1, <2>2, FirstFree DEF Hint
<1> QED
  BY <1>3, <1>4

LEMMA ReservingStep ==
  ASSUME IInv, HintsDistinct, Reserving, [Next]_vars
  PROVE  Reserving'
<1>0. WellKnown \in Seq(Range(WellKnown)) /\ DOMAIN WellKnown = 1..Len(WellKnown)
      /\ Len(WellKnown) \in Nat
  BY ConstAssumption DEF Range
<1>1. CASE \A k \in DOMAIN WellKnown : Named(k)
  BY <1>1, KeptStep DEF Kept, Named, Reserving
<1>2. CASE upc = "idle" /\ threads = <<>> /\ Reserved(0)
  <2>1. CASE UpdateThreads
    <3>1. rows' = WellKnown /\ upc' = "forum" /\ UNCHANGED tables
      BY <1>2, <2>1 DEF UpdateThreads
    <3>2. SubSeq(WellKnown, 0 + 1, Len(WellKnown)) = WellKnown
      BY <1>0
    <3>3. Reserved(0)'
      BY <1>2, <3>1 DEF Reserved, Named
    <3> QED
      BY <1>0, <3>1, <3>2, <3>3 DEF Reserving
  <2>2. CASE ~UpdateThreads
    <3>1. UNCHANGED <<upc, tables>>
      BY <1>2, <2>2, ConnFrame DEF Next, Updater, ForumUpdated, AddThread, Add, TakeTitle,
         Broadcast, BroadcastDone, RowsDone, ConnStep
    <3> QED
      BY <1>2, <3>1 DEF Reserving, Reserved, Named
  <2> QED
    BY <2>1, <2>2
<1>3. ASSUME upc # "idle", NEW k \in 0..Len(WellKnown), Reserved(k),
             rows = SubSeq(WellKnown, k + 1, Len(WellKnown))
      PROVE  Reserving'
  <2>1. ASSUME rows # <<>>
        PROVE  /\ k \in 0..Len(WellKnown) - 1 /\ Head(rows) = WellKnown[k + 1]
               /\ Tail(rows) = SubSeq(WellKnown, k + 2, Len(WellKnown))
    BY <1>0, <1>3, <2>1
  <2>2. CASE AddThread
    <3>1. rows # <<>> /\ rows' = Tail(rows) /\ upc' = "row" /\ Head(rows).id \notin DOMAIN threads
      BY <2>2 DEF AddThread, Add
    <3>2. /\ threads' = Entered(threads, WellKnown[k + 1].id, Hint(k + 1))
          /\ shortNames' = Entered(shortNames, Hint(k + 1), WellKnown[k + 1].id)
      BY <1>3, <2>1, <2>2, <3>1, ReserveOne DEF AddThread, Add
    <3>3. Named(k + 1)'
      BY <3>2 DEF Named, Entered
    <3>4. Kept
      BY KeptStep
    <3>5. Reserved(k + 1)'
      <4>1. \A j \in 1..k + 1 : Named(j)'
        BY <1>3, <3>3, <3>4 DEF Reserved, Named, Kept
      <4>2. \A n \in DOMAIN shortNames' : n = LCName \/ \E j \in 1..k + 1 : n = Hint(j)
        <5>1. \A n \in DOMAIN shortNames' : n \in DOMAIN shortNames \/ n = Hint(k + 1)
          BY <3>2 DEF Entered
        <5>2. k + 1 \in 1..k + 1 /\ \A j \in 1..k : j \in 1..k + 1
          OBVIOUS
        <5> QED
          BY <1>3, <5>1, <5>2 DEF Reserved
      <4>3. LCName \in DOMAIN shortNames' /\ shortNames'[LCName] = LC
        BY <1>3, <3>4 DEF Kept, Reserved
      <4> QED
        BY <4>1, <4>2, <4>3, Zenon DEF Reserved
    <3>6. k + 1 \in 0..Len(WellKnown) /\ rows' = SubSeq(WellKnown, (k + 1) + 1, Len(WellKnown))
      BY <1>0, <2>1, <3>1
    <3> QED
      BY <3>1, <3>5, <3>6 DEF Reserving
  <2>3. CASE BroadcastDone
    <3>1. /\ rows # <<>> /\ rows' = Tail(rows) /\ upc' = "row" /\ UNCHANGED tables
          /\ Head(rows).id \in DOMAIN threads
      BY <2>3 DEF BroadcastDone, IInv, UpdaterPlace
    <3>2. Named(k + 1)
      BY <1>3, <2>1, <3>1, ReserveOne
    <3>3. Reserved(k + 1)'
      <4>1. \A j \in 1..k + 1 : Named(j)'
        BY <1>3, <3>1, <3>2 DEF Reserved, Named
      <4>2. \A j \in 1..k : j \in 1..k + 1
        OBVIOUS
      <4>3. \A n \in DOMAIN shortNames' : n = LCName \/ \E j \in 1..k + 1 : n = Hint(j)
        BY <1>3, <3>1, <4>2 DEF Reserved
      <4>4. LCName \in DOMAIN shortNames' /\ shortNames'[LCName] = LC
        BY <1>3, <3>1 DEF Reserved
      <4> QED
        BY <4>1, <4>3, <4>4, Zenon DEF Reserved
    <3>4. k + 1 \in 0..Len(WellKnown) /\ rows' = SubSeq(WellKnown, (k + 1) + 1, Len(WellKnown))
      BY <1>0, <2>1, <3>1
    <3> QED
      BY <3>1, <3>3, <3>4 DEF Reserving
  <2>4. CASE RowsDone
    <3>1. k = Len(WellKnown) /\ UNCHANGED tables
      <4>1. rows = <<>> /\ UNCHANGED tables
        BY <2>4 DEF RowsDone
      <4> DEFINE L == Len(WellKnown)
      <4>2. L \in Nat /\ k \in 0..L
        BY <1>0
      <4>3. Len(SubSeq(WellKnown, k + 1, L)) = IF k + 1 <= L THEN L - (k + 1) + 1 ELSE 0
        <5>1. \A i \in k + 1..L : WellKnown[i] \in Range(WellKnown)
          BY <1>0, <4>2
        <5> QED
          BY <4>2, <5>1, SubSeqProperties
      <4>4. Len(SubSeq(WellKnown, k + 1, L)) = 0
        BY <1>3, <4>1, SMTT(30)
      <4> HIDE DEF L
      <4>5. k = L
        BY <4>2, <4>3, <4>4
      <4> QED
        BY <4>1, <4>5 DEF L
    <3> QED
      BY <1>0, <1>3, <3>1 DEF Reserving, Reserved, Named
  <2>5. CASE ~AddThread /\ ~BroadcastDone /\ ~RowsDone
    <3>1. UNCHANGED <<rows, threads, shortNames>> /\ upc' # "idle"
      BY <1>3, <2>5, ConnFrame DEF Next, Updater, UpdateThreads, ForumUpdated, TakeTitle,
         Broadcast, ConnStep
    <3> QED
      BY <1>3, <3>1 DEF Reserving, Reserved, Named
  <2> QED
    BY <2>2, <2>3, <2>4, <2>5
<1> QED
  BY <1>1, <1>2, <1>3 DEF Reserving

\* The tables agree in every state and, when the hints tell the well-known threads
\* apart, each of them is named by its hint before a bookmark is processed.
THEOREM TablesAlwaysHold == ASSUME HintsDistinct PROVE Spec => []TablesHold
<1>1. Init => Reserving
  BY DEF Init, Reserving, Reserved
<1>2. IInv /\ Reserving /\ [Next]_vars => Reserving'
  BY ReservingStep
<1>3. IInv /\ Reserving => TablesHold
  BY DEF IInv, Reserving, Named, Hint, TablesHold, WellKnownReserved
<1> QED
  BY <1>1, <1>2, <1>3, Inductive, PTL DEF Spec
=============================================================================
