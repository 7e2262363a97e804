-------------------------- MODULE SiteClientProofs --------------------------
(* Theorems about the parts of the site client: for any callers, burst and  *)
(* lateness of the limiter.                                                 *)
EXTENDS SiteClientInvariant, FiniteSetTheorems, TLAPS

(* The limiter.  Counting callers.                                          *)
LEMMA Counted ==
  ASSUME NEW S \in SUBSET Callers
  PROVE  IsFiniteSet(S) /\ Cardinality(S) \in Nat
  BY FS_Subset, FS_CardinalityType, LimiterAssumption

LEMMA CountedIn ==
  ASSUME NEW T \in SUBSET Callers, NEW S \in SUBSET T
  PROVE  Cardinality(S) <= Cardinality(T)
  BY FS_Subset, Counted

LEMMA CountedMore ==
  ASSUME NEW S \in SUBSET Callers, NEW c \in Callers
  PROVE  /\ Cardinality(S \cup {c}) <= Cardinality(S) + 1
         /\ c \notin S => Cardinality(S \cup {c}) = Cardinality(S) + 1
  BY FS_AddElement, Counted

LEMMA CountedLess ==
  ASSUME NEW S \in SUBSET Callers, NEW c \in Callers
  PROVE  /\ Cardinality(S \ {c}) >= Cardinality(S) - 1
         /\ Cardinality(S \ {c}) <= Cardinality(S)
         /\ c \in S => Cardinality(S \ {c}) = Cardinality(S) - 1
  BY FS_RemoveElement, Counted

LEMMA MinMax ==
  ASSUME NEW a \in Int, NEW b \in Int
  PROVE  /\ Min({a, b}) = IF a <= b THEN a ELSE b
         /\ Max({a, b}) = IF a <= b THEN b ELSE a
<1>1. \E x \in {a, b} : \A y \in {a, b} : x <= y
  OBVIOUS
<1>2. \E x \in {a, b} : \A y \in {a, b} : x >= y
  OBVIOUS
<1>3. Min({a, b}) \in {a, b} /\ \A y \in {a, b} : Min({a, b}) <= y
  BY <1>1 DEF Min
<1>4. Max({a, b}) \in {a, b} /\ \A y \in {a, b} : Max({a, b}) >= y
  BY <1>2 DEF Max
<1> QED
  BY <1>3, <1>4

\* The sets that are counted are sets of callers.
LEMMA CountsTyped ==
  ASSUME LimiterTypes
  PROVE  /\ waiting \in SUBSET Callers
         /\ \A x \in Int : AtLeast(x) \in SUBSET waiting /\ AtLeast(x) \in SUBSET Callers
         /\ \A x, y \in Int : /\ Between(x, y) \in SUBSET waiting
                              /\ Between(x, y) \in SUBSET Callers
  BY DEF LimiterTypes, AtLeast, Between

LEMMA CountsNat ==
  ASSUME LimiterTypes
  PROVE  /\ Cardinality(waiting) \in Nat
         /\ \A x \in Int : Cardinality(AtLeast(x)) \in Nat
         /\ \A x, y \in Int : Cardinality(Between(x, y)) \in Nat
  BY CountsTyped, Counted

LEMMA CountsNatNext ==
  ASSUME LimiterTypes'
  PROVE  /\ \A x \in Int : Cardinality(AtLeast(x))' \in Nat
         /\ \A x, y \in Int : Cardinality(Between(x, y))' \in Nat
<1>1. /\ \A x \in Int : AtLeast(x)' \in SUBSET Callers
      /\ \A x, y \in Int : Between(x, y)' \in SUBSET Callers
  BY DEF LimiterTypes, AtLeast, Between
<1> QED
  BY <1>1, Counted

LEMMA Numbers ==
  ASSUME LimiterTypes
  PROVE  /\ tokens \in Int /\ tokens <= Burst /\ level \in Nat /\ left \in Nat
         /\ Burst \in Nat /\ Burst > 0 /\ Late \in Nat /\ -Late \in Int
         /\ Cardinality(waiting) \in Nat
  BY LimiterAssumption, CountsNat DEF LimiterTypes

\* What Spread, Rated and Reserved say of one period.
LEMMA SpreadAt ==
  ASSUME Spread(Int), NEW x \in Int
  PROVE  /\ x <= 0 \/ x <= -tokens => Cardinality(AtLeast(x)) <= Burst - tokens - x
         /\ \A y \in Int : x <= y => Cardinality(Between(x, y)) <= Burst + y - x
  BY DEF Spread

LEMMA RatedAt ==
  ASSUME Rated(Int), NEW y \in Int, y >= 0
  PROVE  /\ level + Cardinality(waiting) <= Burst - tokens + Late
         /\ level + Cardinality(Between(-Late, y)) <= Burst + Late + y
  BY DEF Rated
-----------------------------------------------------------------------------
\* A reservation: the caller is counted where its delay is.
LEMMA AskKeeps ==
  ASSUME LimiterInv, NEW c \in Callers, Ask(c)
  PROVE  LimiterInv'
<1> DEFINE d == IF tokens > 0 THEN 0 ELSE 1 - tokens
<1> USE LimiterAssumption
<1>1. LimiterTypes /\ Slots /\ Spread(Int) /\ Rated(Int) /\ Reserved
  BY DEF LimiterInv, LimiterInvOver
<1>2. /\ tokens \in Int /\ d \in Nat /\ c \notin waiting /\ tokens' = tokens - 1
      /\ waiting' = waiting \cup {c} /\ due' = [due EXCEPT ![c] = d]
      /\ UNCHANGED <<left, level>>
  BY <1>1 DEF Ask, LimiterTypes
<1>3. LimiterTypes'
  BY <1>1, <1>2 DEF LimiterTypes
<1>4. due'[c] = d /\ \A e \in waiting : due'[e] = due[e]
  BY <1>1, <1>2 DEF LimiterTypes
<1>5. \A e \in waiting : due[e] \in Int /\ (tokens > 0 => due[e] <= 0)
                         /\ (tokens <= 0 => due[e] < d)
  BY <1>1 DEF LimiterTypes, Slots
<1>6. /\ \A x \in Int : AtLeast(x)' = IF x <= d THEN AtLeast(x) \cup {c} ELSE AtLeast(x)
      /\ \A x, y \in Int : Between(x, y)' = IF x <= d /\ d <= y THEN Between(x, y) \cup {c}
                                            ELSE Between(x, y)
  <2> HIDE DEF d
  <2> QED
    BY <1>2, <1>4, <1>5 DEF AtLeast, Between
<1>7. /\ Cardinality(waiting') = Cardinality(waiting) + 1
      /\ \A x \in Int : Cardinality(AtLeast(x))' =
            IF x <= d THEN Cardinality(AtLeast(x)) + 1 ELSE Cardinality(AtLeast(x))
      /\ \A x, y \in Int : Cardinality(Between(x, y))' =
            IF x <= d /\ d <= y THEN Cardinality(Between(x, y)) + 1
            ELSE Cardinality(Between(x, y))
  <2> HIDE DEF d
  <2>1. /\ c \notin waiting /\ \A x \in Int : c \notin AtLeast(x)
        /\ \A x, y \in Int : c \notin Between(x, y)
    BY <1>2 DEF AtLeast, Between
  <2>2. \A S \in SUBSET waiting : Cardinality(S \cup {c}) = Cardinality(S) + 1
    BY <1>2, <1>1, CountedMore DEF LimiterTypes
  <2> QED
    BY <1>1, <1>2, <1>6, <2>1, <2>2, CountsTyped
<1>8. Slots'
  <2>1. \A e \in waiting' : due'[e] >= -Late /\ (due'[e] <= 0 \/ due'[e] <= -tokens')
    BY <1>1, <1>2, <1>4 DEF Slots, LimiterTypes
  <2>2. \A e, f \in waiting' : due'[e] = due'[f] /\ e # f => due'[e] <= 0
    BY <1>1, <1>2, <1>4, <1>5 DEF Slots
  <2> QED
    BY <2>1, <2>2 DEF Slots
<1>9. Spread(Int)'
  <2>1. ASSUME NEW x \in Int, x <= 0 \/ x <= -tokens'
        PROVE  Cardinality(AtLeast(x))' <= Burst - tokens' - x
    <3>1. CASE x <= 0 \/ x <= -tokens
      <4>1. /\ Cardinality(AtLeast(x)) \in Nat
            /\ Cardinality(AtLeast(x)) <= Burst - tokens - x
        BY <1>1, <3>1, SpreadAt, CountsNat
      <4>2. Cardinality(AtLeast(x))' <= Cardinality(AtLeast(x)) + 1
        <5>1. \/ Cardinality(AtLeast(x))' = Cardinality(AtLeast(x)) + 1
              \/ Cardinality(AtLeast(x))' = Cardinality(AtLeast(x))
          BY <1>7, Zenon
        <5> QED
          BY <4>1, <5>1
      <4>3. Burst \in Nat /\ tokens' = tokens - 1 /\ tokens \in Int
        BY <1>1, <1>2, Numbers
      <4>4. Cardinality(AtLeast(x))' \in Nat
        BY <1>3, CountsNatNext
      <4> QED
        BY <4>1, <4>2, <4>3, <4>4
    <3>2. CASE x > 0 /\ x = 1 - tokens
      <4>1. AtLeast(x) = {}
        BY <1>2, <1>5, <3>2 DEF AtLeast
      <4>2. Cardinality(AtLeast(x)) = 0
        BY <4>1, FS_EmptySet
      <4> QED
        BY <1>2, <1>7, <3>2, <4>2
    <3> QED
      BY <1>2, <2>1, <3>1, <3>2
  <2>2. ASSUME NEW x \in Int, NEW y \in Int, x <= y
        PROVE  Cardinality(Between(x, y))' <= Burst + y - x
    <3>1. CASE x <= d /\ d <= y
      <4>1. Cardinality(Between(x, y)) <= Cardinality(AtLeast(x))
        <5>1. Between(x, y) \in SUBSET AtLeast(x)
          BY <1>5 DEF AtLeast, Between
        <5> QED
          BY <1>1, <5>1, CountedIn, CountsTyped
      <4>2. CASE x <= 0 \/ x <= -tokens
        <5>1. /\ Cardinality(AtLeast(x)) \in Nat /\ Cardinality(Between(x, y)) \in Nat
              /\ Cardinality(AtLeast(x)) <= Burst - tokens - x
          BY <1>1, <4>2, SpreadAt, CountsNat
        <5>2. Cardinality(Between(x, y))' = Cardinality(Between(x, y)) + 1
          BY <1>7, <3>1
        <5>3. Burst \in Nat /\ Burst - tokens - x + 1 <= Burst + y - x
          BY <1>2, <2>2, <3>1
        <5> QED
          BY <1>2, <4>1, <5>1, <5>2, <5>3
      <4>3. CASE x > 0 /\ x = 1 - tokens
        <5>1. AtLeast(x) = {}
          BY <1>2, <1>5, <4>3 DEF AtLeast
        <5>2. Cardinality(AtLeast(x)) = 0
          BY <5>1, FS_EmptySet
        <5> QED
          <6>1. Cardinality(Between(x, y)) \in Nat /\ Cardinality(Between(x, y)) <= 0
            BY <1>1, <4>1, <5>2, CountsNat
          <6>2. Cardinality(Between(x, y))' = Cardinality(Between(x, y)) + 1
            BY <1>7, <3>1
          <6> QED
            BY <2>2, <6>1, <6>2
      <4> QED
        BY <1>2, <3>1, <4>2, <4>3
    <3>2. CASE ~(x <= d /\ d <= y)
      BY <1>1, <1>7, <2>2, <3>2 DEF Spread
    <3> QED
      BY <3>1, <3>2
  <2> QED
    BY <2>1, <2>2 DEF Spread
<1>10. Rated(Int)'
  <2>1. (level + Cardinality(waiting) <= Burst - tokens + Late)'
    <3>1. level + Cardinality(waiting) <= Burst - tokens + Late
      BY <1>1 DEF Rated
    <3>2. Cardinality(waiting') = Cardinality(waiting) + 1 /\ level' = level
      BY <1>2, <1>7
    <3>3. level \in Nat /\ Cardinality(waiting) \in Nat
      BY <1>1, Numbers
    <3> QED
      BY <1>2, <3>1, <3>2, <3>3
  <2>2. ASSUME NEW y \in Int, y >= 0
        PROVE  level' + Cardinality(Between(-Late, y))' <= Burst + Late + y
    <3>1. -Late \in Int /\ -Late <= d
      BY <1>2
    <3>2. Cardinality(Between(-Late, y)) <= Cardinality(waiting)
      BY <1>1, <3>1, CountedIn, CountsTyped
    <3>3. CASE d <= y
      <4>1. Cardinality(Between(-Late, y))' = Cardinality(Between(-Late, y)) + 1
        BY <1>7, <3>1, <3>3
      <4>2. level + Cardinality(waiting) <= Burst - tokens + Late
        BY <1>1 DEF Rated
      <4>3. /\ level \in Nat /\ Cardinality(waiting) \in Nat
            /\ Cardinality(Between(-Late, y)) \in Nat
        BY <1>1, <3>1, Numbers, CountsNat
      <4>4. -tokens + 1 <= y
        BY <1>2, <3>3, <2>2
      <4>5. level' = level
        BY <1>2
      <4> QED
        BY <1>2, <2>2, <3>2, <4>1, <4>2, <4>3, <4>4, <4>5
    <3>4. CASE ~(d <= y)
      BY <1>1, <1>2, <1>7, <2>2, <3>1, <3>4 DEF Rated
    <3> QED
      BY <3>3, <3>4
  <2> QED
    BY <2>1, <2>2 DEF Rated
<1>11. Reserved'
  <2>1. -tokens <= Cardinality(AtLeast(1)) + left /\ left' = left /\ left \in Nat
    BY <1>1, <1>2, Numbers DEF Reserved
  <2>2. /\ Cardinality(AtLeast(1)) \in Nat
        /\ Cardinality(AtLeast(1))' =
              IF 1 <= d THEN Cardinality(AtLeast(1)) + 1 ELSE Cardinality(AtLeast(1))
    <3>1. 1 \in Int
      OBVIOUS
    <3>2. Cardinality(AtLeast(1)) \in Nat
      BY <1>1, <3>1, CountsNat, Zenon
    <3> QED
      BY <1>7, <3>1, <3>2, Zenon
  <2>3. -tokens' <= Cardinality(AtLeast(1))' + left'
    BY <1>2, <2>1, <2>2
  <2> QED
    BY <2>3 DEF Reserved
<1> QED
  BY <1>3, <1>8, <1>9, <1>10, <1>11 DEF LimiterInv, LimiterInvOver

\* A caller leaves, and is counted in level if it has sent its request.
LEMMA LeaveKeeps ==
  ASSUME LimiterInv, NEW c \in Callers, Send(c) \/ GiveUp(c)
  PROVE  LimiterInv'
<1> USE LimiterAssumption
<1>1. LimiterTypes /\ Slots /\ Spread(Int) /\ Rated(Int) /\ Reserved
  BY DEF LimiterInv, LimiterInvOver
<1>2. /\ tokens \in Int /\ UNCHANGED <<tokens, due>>
      /\ c \in waiting /\ waiting' = waiting \ {c} /\ due[c] \in Int
      /\ \/ due[c] <= 0 /\ level' = level + 1 /\ left' = left
         \/ level' = level /\ left' = left + 1
  BY <1>1 DEF Send, GiveUp, LimiterTypes
<1>3. LimiterTypes'
  BY <1>1, <1>2 DEF LimiterTypes
<1>4. /\ \A x \in Int : AtLeast(x)' = AtLeast(x) \ {c}
      /\ \A x, y \in Int : Between(x, y)' = Between(x, y) \ {c}
  BY <1>2 DEF AtLeast, Between
<1>5. \A S \in SUBSET Callers : /\ Cardinality(S) \in Nat /\ Cardinality(S \ {c}) \in Nat
                                /\ Cardinality(S \ {c}) >= Cardinality(S) - 1
                                /\ Cardinality(S \ {c}) <= Cardinality(S)
                                /\ c \in S => Cardinality(S \ {c}) = Cardinality(S) - 1
  BY CountedLess, Counted
<1>6. /\ Cardinality(waiting') = Cardinality(waiting) - 1
      /\ \A x \in Int : Cardinality(AtLeast(x))' <= Cardinality(AtLeast(x))
      /\ \A x, y \in Int : Cardinality(Between(x, y))' <= Cardinality(Between(x, y))
  BY <1>1, <1>2, <1>4, <1>5, CountsTyped
<1>7. Slots'
  BY <1>1, <1>2 DEF Slots
<1>8. Spread(Int)'
  <2>1. ASSUME NEW x \in Int
        PROVE  /\ Cardinality(AtLeast(x)) \in Nat /\ Cardinality(AtLeast(x))' \in Nat
               /\ Cardinality(AtLeast(x))' <= Cardinality(AtLeast(x))
    BY <1>1, <1>3, <1>6, CountsNat, CountsNatNext, Zenon
  <2>2. ASSUME NEW x \in Int, NEW y \in Int
        PROVE  /\ Cardinality(Between(x, y)) \in Nat /\ Cardinality(Between(x, y))' \in Nat
               /\ Cardinality(Between(x, y))' <= Cardinality(Between(x, y))
    BY <1>1, <1>3, <1>6, CountsNat, CountsNatNext, Zenon
  <2>3. ASSUME NEW x \in Int, x <= 0 \/ x <= -tokens
        PROVE  Cardinality(AtLeast(x))' <= Burst - tokens - x
    <3>1. Cardinality(AtLeast(x)) <= Burst - tokens - x
      BY <1>1, <2>3, SpreadAt
    <3> QED
      BY <1>2, <2>1, <3>1
  <2>4. ASSUME NEW x \in Int, NEW y \in Int, x <= y
        PROVE  Cardinality(Between(x, y))' <= Burst + y - x
    <3>1. Cardinality(Between(x, y)) <= Burst + y - x
      BY <1>1, <2>4, SpreadAt
    <3> QED
      BY <2>2, <3>1
  <2>5. tokens' = tokens
    BY <1>2
  <2> QED
    BY <2>3, <2>4, <2>5 DEF Spread
<1>9. Rated(Int)'
  <2>1. (level + Cardinality(waiting) <= Burst - tokens + Late)'
    <3>1. level + Cardinality(waiting) <= Burst - tokens + Late
      BY <1>1 DEF Rated
    <3>2. level \in Nat /\ Cardinality(waiting) \in Nat
      BY <1>1, Numbers
    <3>3. /\ Cardinality(waiting') = Cardinality(waiting) - 1
          /\ level' = level \/ level' = level + 1
      BY <1>2, <1>6
    <3>4. tokens' = tokens /\ tokens \in Int
      BY <1>2
    <3> QED
      BY <3>1, <3>2, <3>3, <3>4
  <2>2. ASSUME NEW y \in Int, y >= 0
        PROVE  level' + Cardinality(Between(-Late, y))' <= Burst + Late + y
    <3>1. -Late \in Int /\ Cardinality(Between(-Late, y))' \in Nat
      <4>1. -Late \in Int
        OBVIOUS
      <4>2. (Cardinality(Between(-Late, y)) \in Nat)'
        BY <1>3, <4>1, CountsNatNext
      <4> QED
        BY <4>1, <4>2
    <3>4. /\ Cardinality(Between(-Late, y)) \in Nat /\ level \in Nat
          /\ level + Cardinality(Between(-Late, y)) <= Burst + Late + y
      BY <1>1, <2>2, <3>1, CountsNat, Numbers, RatedAt
    <3>2. CASE level' = level
      <4>1. Cardinality(Between(-Late, y))' <= Cardinality(Between(-Late, y))
        BY <1>6, <3>1
      <4> QED
        BY <3>1, <3>2, <3>4, <4>1
    <3>3. CASE due[c] <= 0 /\ level' = level + 1
      <4>1. c \in Between(-Late, y)
        BY <1>1, <1>2, <2>2, <3>3 DEF Between, Slots
      <4>2. Cardinality(Between(-Late, y))' = Cardinality(Between(-Late, y)) - 1
        BY <1>1, <1>4, <1>5, <3>1, <4>1, CountsTyped
      <4> QED
        BY <3>1, <3>3, <3>4, <4>2
    <3> QED
      BY <1>2, <3>2, <3>3
  <2> QED
    BY <2>1, <2>2 DEF Rated
<1>10. Reserved'
  <2>1. CASE due[c] <= 0 /\ left' = left
    <3>1. AtLeast(1)' = AtLeast(1)
      BY <1>2, <1>4, <2>1 DEF AtLeast
    <3> QED
      BY <1>1, <1>2, <2>1, <3>1 DEF Reserved
  <2>2. CASE left' = left + 1
    <3>1. Cardinality(AtLeast(1))' >= Cardinality(AtLeast(1)) - 1
      BY <1>1, <1>4, <1>5, CountsTyped
    <3>2. /\ Cardinality(AtLeast(1)) \in Nat /\ Cardinality(AtLeast(1))' \in Nat
          /\ -tokens <= Cardinality(AtLeast(1)) + left /\ left \in Nat
      <4>1. 1 \in Int
        OBVIOUS
      <4>2. Cardinality(AtLeast(1)) \in Nat /\ Cardinality(AtLeast(1))' \in Nat
        BY <1>1, <1>3, <4>1, CountsNat, CountsNatNext, Zenon
      <4> QED
        BY <1>1, <4>2, Numbers DEF Reserved
    <3>3. tokens' = tokens /\ tokens \in Int
      BY <1>2
    <3>4. -tokens' <= Cardinality(AtLeast(1))' + left'
      BY <2>2, <3>1, <3>2, <3>3
    <3> QED
      BY <3>4 DEF Reserved
  <2> QED
    BY <1>2, <2>1, <2>2
<1> QED
  BY <1>3, <1>7, <1>8, <1>9, <1>10 DEF LimiterInv, LimiterInvOver

\* A period: everything that is due comes nearer, and the bucket fills.
LEMMA PeriodKeeps ==
  ASSUME LimiterInv, PeriodPasses
  PROVE  LimiterInv'
<1> USE LimiterAssumption
<1>1. LimiterTypes /\ Slots /\ Spread(Int) /\ Rated(Int) /\ Reserved
  BY DEF LimiterInv, LimiterInvOver
<1>2. /\ tokens \in Int /\ level \in Nat /\ UNCHANGED <<waiting, left>>
      /\ tokens' = (IF tokens < Burst THEN tokens + 1 ELSE Burst)
      /\ level' = (IF level > 0 THEN level - 1 ELSE 0)
  <2>1. tokens \in Int /\ tokens <= Burst /\ level \in Nat /\ Burst \in Int
    BY <1>1, Numbers
  <2>2. tokens + 1 \in Int /\ level - 1 \in Int /\ 0 \in Int
    BY <2>1
  <2>3. /\ Min({Burst, tokens + 1}) = IF Burst <= tokens + 1 THEN Burst ELSE tokens + 1
        /\ Max({0, level - 1}) = IF 0 <= level - 1 THEN level - 1 ELSE 0
    BY <2>1, <2>2, MinMax
  <2>4. /\ tokens' = Min({Burst, tokens + 1}) /\ level' = Max({0, level - 1})
        /\ UNCHANGED <<waiting, left>>
    BY DEF PeriodPasses
  <2> QED
    BY <2>1, <2>3, <2>4
<1>3. LimiterTypes'
  BY <1>1, <1>2 DEF LimiterTypes, PeriodPasses
<1>4. \A e \in waiting : /\ due[e] \in Int /\ due'[e] = due[e] - 1
                         /\ due[e] >= 1 - Late
                         /\ due[e] <= 0 \/ due[e] <= -tokens
  BY <1>1 DEF PeriodPasses, LimiterTypes, Slots
<1>5. /\ \A x \in Int : AtLeast(x)' = AtLeast(x + 1)
      /\ \A x, y \in Int : Between(x, y)' = Between(x + 1, y + 1)
  BY <1>2, <1>4 DEF AtLeast, Between
<1>6. Slots'
  BY <1>1, <1>2, <1>4 DEF Slots
<1>7. \A x \in Int : x > 0 /\ x > -tokens => Cardinality(AtLeast(x)) = 0
  <2>1. \A x \in Int : x > 0 /\ x > -tokens => AtLeast(x) = {}
    BY <1>2, <1>4 DEF AtLeast
  <2> QED
    BY <2>1, FS_EmptySet
<1>8. Spread(Int)'
  <2>1. ASSUME NEW x \in Int, x <= 0 \/ x <= -tokens'
        PROVE  Cardinality(AtLeast(x))' <= Burst - tokens' - x
    <3>1. x + 1 \in Int /\ Cardinality(AtLeast(x + 1)) \in Nat
      <4>1. x + 1 \in Int
        OBVIOUS
      <4>2. \A z \in Int : Cardinality(AtLeast(z)) \in Nat
        BY <1>1, CountsNat
      <4> HIDE <1>1
      <4> QED
        BY <4>1, <4>2
    <3>4. Cardinality(AtLeast(x))' = Cardinality(AtLeast(x + 1))
      BY <1>5
    <3>2. CASE x + 1 <= 0 \/ x + 1 <= -tokens
      <4>1. Cardinality(AtLeast(x + 1)) <= Burst - tokens - (x + 1)
        BY <1>1, <3>1, <3>2, SpreadAt
      <4> QED
        BY <1>2, <3>1, <3>4, <4>1
    <3>3. CASE x + 1 > 0 /\ x + 1 > -tokens
      <4>1. Cardinality(AtLeast(x))' = 0
        BY <1>7, <3>1, <3>3, <3>4
      <4>2. x <= 0 /\ x <= Burst - tokens'
        BY <1>2, <2>1, <3>3, <1>3, Numbers
      <4> QED
        BY <1>2, <2>1, <3>3, <4>1, <4>2
    <3> QED
      BY <1>2, <3>1, <3>2, <3>3
  <2>2. ASSUME NEW x \in Int, NEW y \in Int, x <= y
        PROVE  Cardinality(Between(x, y))' <= Burst + y - x
    <3>1. x + 1 \in Int /\ y + 1 \in Int /\ x + 1 <= y + 1
      BY <2>2
    <3>2. Cardinality(Between(x + 1, y + 1)) <= Burst + (y + 1) - (x + 1)
      BY <1>1, <3>1 DEF Spread
    <3> QED
      BY <1>1, <1>5, <2>2, <3>1, <3>2, CountsNat
  <2> QED
    BY <2>1, <2>2 DEF Spread
<1>9. Rated(Int)'
  <2>1. (level + Cardinality(waiting) <= Burst - tokens + Late)'
    <3>1. CASE level > 0
      <4>1. /\ level + Cardinality(waiting) <= Burst - tokens + Late
            /\ Cardinality(waiting) \in Nat /\ tokens <= Burst
        BY <1>1, Numbers DEF Rated
      <4>2. waiting' = waiting
        BY <1>2
      <4> QED
        BY <1>2, <3>1, <4>1, <4>2
    <3>2. CASE level = 0
      <4>1. waiting = AtLeast(1 - Late)
        BY <1>4 DEF AtLeast
      <4>2. 1 - Late \in Int
        OBVIOUS
      <4>3. CASE 1 - Late <= 0 \/ 1 - Late <= -tokens
        <5>1. /\ Cardinality(waiting) <= Burst - tokens - (1 - Late)
              /\ Cardinality(waiting) \in Nat
          BY <1>1, <4>1, <4>2, <4>3, SpreadAt, Numbers
        <5>2. waiting' = waiting
          BY <1>2
        <5> QED
          BY <1>2, <3>2, <5>1, <5>2
      <4>4. CASE 1 - Late > 0 /\ 1 - Late > -tokens
        <5>1. Cardinality(waiting') = 0
          BY <1>2, <1>7, <4>1, <4>2, <4>4
        <5>2. /\ tokens' <= Burst /\ tokens' \in Int /\ level' = 0
              /\ Burst \in Nat /\ Late \in Nat
          BY <1>1, <1>2, <3>2, Numbers
        <5>3. PICK t \in Int : t = tokens' /\ t <= Burst
          BY <5>2
        <5>4. level' + Cardinality(waiting') = 0 /\ 0 <= Burst - t + Late
          <6>1. level' + Cardinality(waiting') = 0
            BY <5>1, <5>2
          <6>2. t \in Int /\ t <= Burst /\ Burst \in Nat /\ Late \in Nat
            BY <5>2, <5>3
          <6>3. 0 <= Burst - t + Late
            BY <6>2
          <6> QED
            BY <6>1, <6>3
        <5>5. level' + Cardinality(waiting') <= Burst - t + Late
          BY <5>4, Zenon
        <5> QED
          BY <5>3, <5>5, Zenon
      <4> QED
        BY <1>2, <4>3, <4>4
    <3> QED
      BY <1>2, <3>1, <3>2
  <2>2. ASSUME NEW y \in Int, y >= 0
        PROVE  level' + Cardinality(Between(-Late, y))' <= Burst + Late + y
    <3>1. -Late \in Int /\ y + 1 \in Int /\ 1 - Late \in Int /\ 1 - Late <= y + 1
      BY <2>2
    <3>2. Between(-Late, y)' = Between(1 - Late, y + 1)
      BY <1>5, <3>1
    <3>3. Between(-Late, y + 1) = Between(1 - Late, y + 1)
      BY <1>4 DEF Between
    <3>4. level + Cardinality(Between(1 - Late, y + 1)) <= Burst + Late + (y + 1)
      BY <1>1, <2>2, <3>1, <3>3 DEF Rated
    <3>5. Cardinality(Between(1 - Late, y + 1)) <= Burst + (y + 1) - (1 - Late)
      BY <1>1, <3>1 DEF Spread
    <3> QED
      <4>1. Cardinality(Between(1 - Late, y + 1)) \in Nat
        BY <1>1, <3>1, CountsNat
      <4> QED
        BY <1>2, <2>2, <3>2, <3>4, <3>5, <4>1
  <2> QED
    BY <2>1, <2>2 DEF Rated
<1>10. Reserved'
  <2>1. AtLeast(1)' = AtLeast(2)
    BY <1>5
  <2>2. Cardinality(AtLeast(2)) >= Cardinality(AtLeast(1)) - 1
    <3>1. CASE \A e \in waiting : due[e] # 1
      <4>1. AtLeast(2) = AtLeast(1)
        BY <1>4, <3>1 DEF AtLeast
      <4> QED
        BY <4>1, <1>1, CountsNat
    <3>2. CASE \E e \in waiting : due[e] = 1
      <4>1. PICK e \in waiting : due[e] = 1
        BY <3>2
      <4>2. AtLeast(2) = AtLeast(1) \ {e}
        BY <1>1, <1>4, <4>1 DEF AtLeast, Slots
      <4> QED
        BY <1>1, <4>1, <4>2, CountsTyped, CountedLess
    <3> QED
      BY <3>1, <3>2
  <2> QED
    <3>1. /\ -tokens <= Cardinality(AtLeast(1)) + left /\ left \in Nat
          /\ Cardinality(AtLeast(1)) \in Nat /\ Cardinality(AtLeast(2)) \in Nat
      <4>1. 1 \in Int /\ 2 \in Int
        OBVIOUS
      <4>2. Cardinality(AtLeast(1)) \in Nat /\ Cardinality(AtLeast(2)) \in Nat
        BY <1>1, <4>1, CountsNat, Zenon
      <4> QED
        BY <1>1, <4>2, Numbers DEF Reserved
    <3>2. left' = left /\ Cardinality(AtLeast(1))' = Cardinality(AtLeast(2))
      BY <1>2, <2>1
    <3>3. -tokens' <= Cardinality(AtLeast(1))' + left'
      BY <1>2, <2>2, <3>1, <3>2
    <3> QED
      BY <3>3 DEF Reserved
<1> QED
  BY <1>3, <1>6, <1>8, <1>9, <1>10 DEF LimiterInv, LimiterInvOver

\* The limiter keeps its invariant, whatever the callers do.
THEOREM LimiterInductive == LimiterSpec => []LimiterInv
<1>1. LimiterInit => LimiterInv
  <2> SUFFICES ASSUME LimiterInit PROVE LimiterInv
    OBVIOUS
  <2>1. /\ waiting = {} /\ tokens = Burst /\ level = 0 /\ left = 0
        /\ due = [c \in Callers |-> 0]
    BY DEF LimiterInit
  <2>2. LimiterTypes /\ Slots
    BY <2>1, LimiterAssumption DEF LimiterTypes, Slots
  <2>3. /\ Cardinality(waiting) = 0 /\ \A x \in Int : Cardinality(AtLeast(x)) = 0
        /\ \A x, y \in Int : Cardinality(Between(x, y)) = 0
    BY <2>1, FS_EmptySet DEF AtLeast, Between
  <2>4. Spread(Int)
    BY <2>1, <2>3, LimiterAssumption DEF Spread
  <2>5. Rated(Int) /\ Reserved
    BY <2>1, <2>3, LimiterAssumption DEF Rated, Reserved
  <2> QED
    BY <2>2, <2>4, <2>5 DEF LimiterInv, LimiterInvOver
<1>2. LimiterInv /\ [LimiterNext]_limiterVars => LimiterInv'
  <2>1. LimiterInv /\ UNCHANGED limiterVars => LimiterInv'
    BY DEF limiterVars, LimiterInv, LimiterInvOver, LimiterTypes, Slots, Spread, Rated,
       Reserved, AtLeast, Between
  <2> QED
    BY <2>1, AskKeeps, LeaveKeeps, PeriodKeeps DEF LimiterNext
<1> QED
  BY <1>1, <1>2, PTL DEF LimiterSpec

\* The site is sent no more than the rate allows, and no caller waits longer
\* than for the requests that wait and those that were given up.
THEOREM RateIsKept == LimiterSpec => []RateKept
<1>1. LimiterInv => RateKept
  <2> SUFFICES ASSUME LimiterInv PROVE RateKept
    OBVIOUS
  <2> USE LimiterAssumption
  <2>1. LimiterTypes /\ Slots /\ Rated(Int) /\ Reserved
    BY DEF LimiterInv, LimiterInvOver
  <2>2. WithinRate
    <3>1. -Late \in Int /\ level + Cardinality(Between(-Late, 0)) <= Burst + Late + 0
      BY <2>1 DEF Rated
    <3> QED
      <4>1. Cardinality(Between(-Late, 0)) \in Nat /\ level \in Nat
        BY <2>1, <3>1, CountsNat, Numbers
      <4>2. level <= Burst + Late
        BY <3>1, <4>1
      <4> QED
        BY <4>2 DEF WithinRate
  <2>3. WaitIsBounded
    <3>1. Cardinality(AtLeast(1)) <= Cardinality(waiting)
      BY <2>1, CountedIn, CountsTyped
    <3> QED
      <4>1. /\ Cardinality(AtLeast(1)) \in Nat /\ Cardinality(waiting) \in Nat
            /\ left \in Nat /\ tokens \in Int
            /\ -tokens <= Cardinality(AtLeast(1)) + left
        BY <2>1, CountsNat, Numbers DEF Reserved
      <4>2. \A c \in waiting : due[c] \in Int /\ (due[c] <= 0 \/ due[c] <= -tokens)
        BY <2>1 DEF Slots, LimiterTypes
      <4> QED
        BY <3>1, <4>1, <4>2 DEF WaitIsBounded
  <2> QED
    BY <2>2, <2>3 DEF RateKept
<1> QED
  BY <1>1, LimiterInductive, PTL
-----------------------------------------------------------------------------
(* The walk over the bookmarks.                                             *)
LEMMA ListFacts ==
  ASSUME BookmarkTypes
  PROVE  /\ Len(list) = Cardinality(Bookmarks) /\ Len(list) \in Nat
         /\ DOMAIN list = 1..Len(list) /\ \A i \in DOMAIN list : list[i] \in Bookmarks
<1> DEFINE n == Cardinality(Bookmarks)
<1>1. n \in Nat /\ list \in [1..n -> Bookmarks]
  BY FS_CardinalityType, BookmarkAssumption DEF BookmarkTypes
<1> HIDE DEF n
<1>2. list \in Seq(Bookmarks) /\ Len(list) = n
  BY <1>1
<1> QED
  BY <1>1, <1>2 DEF n

LEMMA Quotients ==
  ASSUME NEW k \in Nat \ {0}, NEW a \in Nat, NEW b \in Nat, a <= b
  PROVE  a \div k \in Nat /\ a \div k <= b \div k
  OBVIOUS

\* A row further down is on no earlier page.
LEMMA PagesInOrder ==
  ASSUME NEW i \in Nat \ {0}, NEW j \in Nat \ {0}, i <= j
  PROVE  ListPage(i) \in Nat \ {0} /\ ListPage(j) \in Nat \ {0} /\ ListPage(i) <= ListPage(j)
<1>1. i - 1 \in Nat /\ j - 1 \in Nat /\ i - 1 <= j - 1
  OBVIOUS
<1>2. /\ (i - 1) \div ThreadsPerPage \in Nat /\ (j - 1) \div ThreadsPerPage \in Nat
      /\ (i - 1) \div ThreadsPerPage <= (j - 1) \div ThreadsPerPage
  BY <1>1, Quotients, BookmarkAssumption
<1> QED
  BY <1>2 DEF ListPage

LEMMA RowPages ==
  ASSUME BookmarkTypes, NEW i \in DOMAIN list
  PROVE  /\ i \in Nat \ {0} /\ ListPage(i) \in Nat \ {0} /\ ListPage(i) <= LastListPage
         /\ list[i] \in Bookmarks /\ list[i] \in Rows(ListPage(i))
<1>1. i \in Nat \ {0} /\ Len(list) \in Nat \ {0} /\ i <= Len(list) /\ list[i] \in Bookmarks
  BY ListFacts
<1> QED
  BY <1>1, PagesInOrder DEF LastListPage, Rows

\* A post moves its thread to the front, and others down by one row or not.
LEMMA BumpKeeps ==
  ASSUME BookmarkInv, NEW t \in Bookmarks, Bump(t)
  PROVE  BookmarkInv'
<1>1. BookmarkTypes /\ WalkCovers /\ QuietThreadsFound
  BY DEF BookmarkInv
<1>2. PICK at \in DOMAIN list :
         /\ list[at] = t
         /\ list' = [i \in DOMAIN list |-> IF i = 1 THEN t
                                           ELSE IF i <= at THEN list[i - 1] ELSE list[i]]
  BY DEF Bump
<1> DEFINE n == Cardinality(Bookmarks)
<1>3. n \in Nat /\ DOMAIN list = 1..n /\ \A i \in 1..n : list[i] \in Bookmarks
  BY <1>1, ListFacts
<1>4. UNCHANGED <<wpc, next, pages, threads, failed, known>>
  BY DEF Bump, updater
<1>5. BookmarkTypes'
  <2> HIDE DEF n
  <2>1. list' \in [1..n -> Bookmarks]
    BY <1>2, <1>3
  <2>2. ASSUME NEW u \in Bookmarks PROVE \E i \in 1..n : list'[i] = u
    <3>1. PICK i \in 1..n : list[i] = u
      BY <1>1, <1>3 DEF BookmarkTypes
    <3>2. CASE i < at
      <4>1. i + 1 \in 1..n /\ list'[i + 1] = u
        BY <1>2, <1>3, <3>1, <3>2
      <4> QED
        BY <4>1
    <3>3. CASE i = at
      <4>1. 1 \in 1..n /\ list'[1] = u
        BY <1>2, <1>3, <3>1, <3>3
      <4> QED
        BY <4>1
    <3>4. CASE i > at
      <4>1. list'[i] = u
        BY <1>2, <1>3, <3>1, <3>4
      <4> QED
        BY <4>1
    <3> QED
      BY <1>3, <3>1, <3>2, <3>3, <3>4
  <2>3. DOMAIN list' = 1..n
    BY <2>1
  <2> QED
    BY <1>1, <1>4, <2>1, <2>2, <2>3 DEF BookmarkTypes, n
<1>6. WalkCovers'
  <2> SUFFICES ASSUME wpc = "walk", ~failed PROVE WalkCovers'
    BY <1>4 DEF WalkCovers
  <2>1. excused' = excused \cup {t}
    BY DEF Bump
  <2>2. LastListPage' = LastListPage
    <3>1. Len(list') = Len(list)
      BY <1>1, <1>5, ListFacts, <1>2 DEF BookmarkTypes
    <3> QED
      BY <3>1 DEF LastListPage, ListPage
  <2>3. ASSUME NEW i \in DOMAIN list'
        PROVE  list'[i] \in threads' \cup excused' \/ next' <= ListPage(i)
    <3>1. i \in 1..n /\ next \in Nat
      BY <1>1, <1>2, <1>3, <2>3 DEF BookmarkTypes
    <3>2. \A j \in 1..n : list[j] \in threads \cup excused \/ next <= ListPage(j)
      BY <1>1, <1>3 DEF WalkCovers
    <3>3. CASE i = 1
      BY <1>2, <1>3, <2>1, <3>1, <3>3
    <3>4. CASE i # 1 /\ i <= at
      <4>1. i - 1 \in 1..n /\ list'[i] = list[i - 1]
        BY <1>2, <1>3, <3>1, <3>4
      <4>2. /\ ListPage(i - 1) <= ListPage(i)
            /\ ListPage(i - 1) \in Nat /\ ListPage(i) \in Nat
        BY <1>3, <3>1, <4>1, PagesInOrder
      <4>3. list[i - 1] \in threads \cup excused \/ next <= ListPage(i - 1)
        BY <3>2, <4>1
      <4> QED
        BY <1>4, <2>1, <3>1, <4>1, <4>2, <4>3
    <3>5. CASE i # 1 /\ ~(i <= at)
      <4>1. list'[i] = list[i]
        BY <1>2, <1>3, <3>1, <3>5
      <4> QED
        BY <1>4, <2>1, <3>1, <3>2, <4>1
    <3> QED
      BY <3>3, <3>4, <3>5
  <2>4. \/ pages' = LastListPage' \/ (next' = 1 /\ pages' = 1)
        \/ Bookmarks \subseteq threads' \cup excused'
    BY <1>1, <1>4, <2>1, <2>2 DEF WalkCovers
  <2> QED
    BY <2>3, <2>4 DEF WalkCovers
<1>7. QuietThreadsFound'
  BY <1>1, <1>4 DEF QuietThreadsFound, Bump
<1> QED
  BY <1>5, <1>6, <1>7 DEF BookmarkInv

\* A page of the list: its rows are found, or have an excuse, or there was an
\* error.
LEMMA PageKeeps ==
  ASSUME BookmarkInv,
         RowsArrive \/ RowsUnreadable \/ RowsIncomplete \/ OtherPageArrives
            \/ RequestForRowsFails
  PROVE  BookmarkInv'
<1>1. BookmarkTypes /\ WalkCovers /\ QuietThreadsFound
  BY DEF BookmarkInv
<1>2. LastListPage \in Int /\ next \in Nat /\ pages \in Int /\ next <= pages
  <2>1. (Len(list) - 1) \div ThreadsPerPage \in Int
    BY <1>1, ListFacts, BookmarkAssumption
  <2>2. LastListPage \in Int
    BY <2>1 DEF LastListPage, ListPage
  <2>3. next \in Nat /\ pages \in Int
    BY <1>1 DEF BookmarkTypes
  <2>4. Walking
    BY DEF RowsArrive, RowsUnreadable, RowsIncomplete, OtherPageArrives,
       RequestForRowsFails
  <2> QED
    BY <2>2, <2>3, <2>4 DEF Walking
<1>3. wpc = "walk" /\ UNCHANGED <<list, wpc, known>>
  BY DEF RowsArrive, RowsUnreadable, RowsIncomplete, OtherPageArrives,
     RequestForRowsFails, Walking, Found
<1>4. next' \in Nat /\ pages' \in Int
  BY <1>2 DEF RowsArrive, RowsUnreadable, RowsIncomplete, OtherPageArrives,
     RequestForRowsFails, Walking, Found
<1>5. BookmarkTypes'
  BY <1>1, <1>3, <1>4 DEF BookmarkTypes
<1>6. CASE failed'
  BY <1>3, <1>5, <1>6 DEF BookmarkInv, WalkCovers, QuietThreadsFound
<1>7. CASE OtherPageArrives
  <2>1. Bookmarks \subseteq threads' \cup excused'
    BY <1>7 DEF OtherPageArrives
  <2>2. \A i \in DOMAIN list : list[i] \in Bookmarks
    BY <1>1, ListFacts
  <2> QED
    BY <1>3, <1>5, <2>1, <2>2 DEF BookmarkInv, WalkCovers, QuietThreadsFound
<1>8. CASE (RowsArrive \/ RowsIncomplete) /\ ~failed'
  <2>1. /\ threads \subseteq threads' /\ excused \subseteq excused'
        /\ Rows(next) \subseteq threads' \cup excused'
        /\ pages' = LastListPage /\ next' = next + 1 /\ ~failed
    <3>1. CASE RowsArrive
      BY <1>8, <3>1 DEF RowsArrive, Found
    <3>2. CASE RowsIncomplete
      <4>1. PICK rows \in SUBSET Rows(next) :
               /\ threads' = threads \cup rows
               /\ excused' = excused \cup (Rows(next) \ rows)
        BY <3>2 DEF RowsIncomplete
      <4>2. pages' = LastListPage /\ next' = next + 1 /\ failed' = failed
        BY <3>2 DEF RowsIncomplete
      <4> QED
        BY <1>8, <4>1, <4>2
    <3> QED
      BY <1>8, <3>1, <3>2
  <2>2. ASSUME NEW i \in DOMAIN list
        PROVE  list[i] \in threads' \cup excused' \/ next' <= ListPage(i)
    <3>1. ListPage(i) \in Nat /\ list[i] \in Rows(ListPage(i))
      BY <1>1, RowPages
    <3>2. list[i] \in threads \cup excused \/ next <= ListPage(i)
      BY <1>1, <1>3, <2>1 DEF WalkCovers
    <3>3. CASE ListPage(i) = next
      BY <2>1, <3>1, <3>3
    <3>4. CASE ListPage(i) # next
      BY <1>2, <2>1, <3>1, <3>2, <3>4
    <3> QED
      BY <3>3, <3>4
  <2>3. LastListPage' = LastListPage
    BY <1>3 DEF LastListPage, ListPage
  <2> QED
    BY <1>3, <1>5, <2>1, <2>2, <2>3 DEF BookmarkInv, WalkCovers, QuietThreadsFound
<1>9. RowsUnreadable \/ RequestForRowsFails => failed'
  BY DEF RowsUnreadable, RequestForRowsFails, Found
<1> QED
  BY <1>6, <1>7, <1>8, <1>9

\* The walk ends: without an error nothing is left above the next page.
LEMMA EndKeeps ==
  ASSUME BookmarkInv, WalkEnds
  PROVE  BookmarkInv'
<1>1. BookmarkTypes /\ WalkCovers
  BY DEF BookmarkInv
<1>2. BookmarkTypes'
  BY <1>1 DEF BookmarkTypes, WalkEnds
<1>3. CASE failed
  <2>1. wpc' = "walk" /\ next' = 1 /\ pages' = 1 /\ UNCHANGED list
    BY <1>3 DEF WalkEnds
  <2>2. \A i \in DOMAIN list : ListPage(i) \in Nat \ {0}
    BY <1>1, RowPages
  <2>3. WalkCovers'
    BY <2>1, <2>2 DEF WalkCovers
  <2> QED
    BY <1>2, <2>1, <2>3 DEF BookmarkInv, QuietThreadsFound
<1>4. CASE ~failed
  <2>1. /\ wpc = "walk" /\ next > pages /\ wpc' = "recent" /\ excused' = excused
        /\ known' = known \cup threads
    BY <1>4 DEF WalkEnds
  <2>2. next \in Nat /\ pages \in Int
    BY <1>1 DEF BookmarkTypes
  <2>3. ASSUME NEW t \in Bookmarks PROVE t \in threads \cup excused
    <3>1. PICK i \in DOMAIN list : list[i] = t
      BY <1>1 DEF BookmarkTypes
    <3>2. ListPage(i) \in Nat /\ ListPage(i) <= LastListPage
      BY <1>1, RowPages
    <3>3. CASE pages = LastListPage
      <4>1. ~(next <= ListPage(i))
        BY <2>1, <2>2, <3>2, <3>3
      <4> QED
        BY <1>1, <1>4, <2>1, <3>1, <4>1 DEF WalkCovers
    <3>4. CASE Bookmarks \subseteq threads \cup excused
      BY <3>4
    <3> QED
      BY <1>1, <1>4, <2>1, <2>2, <3>3, <3>4 DEF WalkCovers
  <2> QED
    BY <1>2, <2>1, <2>3 DEF BookmarkInv, WalkCovers, QuietThreadsFound
<1> QED
  BY <1>3, <1>4

LEMMA BookmarksListed == BookmarkInit => BookmarkTypes
<1> SUFFICES ASSUME BookmarkInit PROVE BookmarkTypes
  OBVIOUS
<1> DEFINE n == Cardinality(Bookmarks)
           Inj == {f \in [1..n -> Bookmarks] : IsInjective(f)}
<1>1. n \in Nat /\ IsFiniteSet(Bookmarks) /\ ExistsBijection(1..n, Bookmarks)
  BY FS_CardinalityType, BookmarkAssumption
<1>2. \E f \in [1..n -> Bookmarks] : IsInjective(f)
  <2>1. PICK f : f \in Bijection(1..n, Bookmarks)
    BY <1>1 DEF ExistsBijection
  <2>2. f \in [1..n -> Bookmarks] /\ IsInjective(f)
    BY <2>1 DEF Bijection, Injection, IsInjective
  <2> QED
    BY <2>2
<1>3. list \in [1..n -> Bookmarks] /\ IsInjective(list)
  <2>1. list = CHOOSE f \in [1..n -> Bookmarks] : IsInjective(f)
    BY DEF BookmarkInit, SetToSeq
  <2> QED
    BY <1>2, <2>1
<1>4. list \in Injection(1..n, Bookmarks)
  BY <1>3 DEF Injection, IsInjective
<1>5. Cardinality(1..n) = n
  BY <1>1, FS_Interval
<1>6. list \in Surjection(1..n, Bookmarks)
  BY <1>1, <1>4, <1>5, FS_Injection
<1>7. \A t \in Bookmarks : \E i \in DOMAIN list : list[i] = t
  BY <1>3, <1>6 DEF Surjection
<1> QED
  BY <1>3, <1>7 DEF BookmarkInit, BookmarkTypes

\* Every bookmarked thread in which nobody posted during the walk is known once
\* a walk has succeeded.
THEOREM BookmarksFound == BookmarkSpec => []QuietThreadsFound
<1>1. BookmarkInit => BookmarkInv
  <2> SUFFICES ASSUME BookmarkInit PROVE BookmarkInv
    OBVIOUS
  <2>1. wpc = "walk" /\ next = 1 /\ pages = 1
    BY DEF BookmarkInit
  <2>2. \A i \in DOMAIN list : ListPage(i) \in Nat \ {0}
    BY BookmarksListed, RowPages
  <2>3. WalkCovers /\ QuietThreadsFound
    BY <2>1, <2>2 DEF WalkCovers, QuietThreadsFound
  <2> QED
    BY <2>3, BookmarksListed DEF BookmarkInv
<1>2. BookmarkInv /\ [BookmarkNext]_bookmarkVars => BookmarkInv'
  <2> SUFFICES ASSUME BookmarkInv, [BookmarkNext]_bookmarkVars PROVE BookmarkInv'
    OBVIOUS
  <2>1. CASE UNCHANGED bookmarkVars
    BY <2>1 DEF bookmarkVars, BookmarkInv, BookmarkTypes, WalkCovers, QuietThreadsFound,
       LastListPage, ListPage
  <2>2. CASE RecentArrives \/ RecentFails
    BY <2>2 DEF RecentArrives, RecentFails, BookmarkInv, BookmarkTypes, WalkCovers,
       QuietThreadsFound
  <2> QED
    BY <2>1, <2>2, BumpKeeps, PageKeeps, EndKeeps DEF BookmarkNext, UpdaterStep
<1>3. BookmarkInv => QuietThreadsFound
  BY DEF BookmarkInv
<1> QED
  BY <1>1, <1>2, <1>3, PTL DEF BookmarkSpec
-----------------------------------------------------------------------------
(* The walk over the unread posts.  Pages and posts.                        *)
LEMMA Products ==
  ASSUME NEW n \in Nat \ {0}, NEW k \in Int, NEW l \in Int, k < l
  PROVE  k * n \in Int /\ l * n \in Int /\ k * n + n <= l * n
  OBVIOUS

LEMMA Division ==
  ASSUME NEW n \in Nat \ {0}, NEW a \in Nat
  PROVE  a \div n \in Nat /\ (a \div n) * n <= a /\ a < (a \div n) * n + n
  OBVIOUS

\* The first post of page k is one more than Before(k).
Before(k) == (k - 1) * PostsPerPage

LEMMA PageBounds ==
  ASSUME NEW p \in Nat \ {0}
  PROVE  /\ PageOf(p) \in Nat \ {0} /\ Before(PageOf(p)) \in Int
         /\ Before(PageOf(p)) < p /\ p <= Before(PageOf(p)) + PostsPerPage
<1> DEFINE d == (p - 1) \div PostsPerPage
<1>1. p - 1 \in Nat
  OBVIOUS
<1>2. d \in Nat /\ d * PostsPerPage <= p - 1 /\ p - 1 < d * PostsPerPage + PostsPerPage
  BY <1>1, Division, UnreadAssumption
<1>3. PageOf(p) = d + 1
  BY DEF PageOf
<1> HIDE DEF d
<1>4. PageOf(p) - 1 = d /\ PageOf(p) \in Nat \ {0}
  BY <1>2, <1>3
<1>5. d * PostsPerPage \in Int
  BY <1>2, UnreadAssumption
<1> QED
  BY <1>2, <1>4, <1>5, UnreadAssumption DEF Before

LEMMA PagesApart ==
  ASSUME NEW k \in Nat, NEW l \in Nat, k < l
  PROVE  Before(k) \in Int /\ Before(l) \in Int /\ Before(k) + PostsPerPage <= Before(l)
<1>1. k - 1 \in Int /\ l - 1 \in Int /\ k - 1 < l - 1
  OBVIOUS
<1> QED
  BY <1>1, Products, UnreadAssumption DEF Before

LEMMA PageIs ==
  ASSUME NEW p \in Nat \ {0}, NEW k \in Nat \ {0},
         Before(k) < p, p <= Before(k) + PostsPerPage
  PROVE  PageOf(p) = k
<1> DEFINE l == PageOf(p)
<1>1. l \in Nat \ {0} /\ Before(l) \in Int /\ Before(l) < p /\ p <= Before(l) + PostsPerPage
  BY PageBounds
<1>2. Before(k) \in Int /\ PostsPerPage \in Nat
  BY PagesApart, UnreadAssumption
<1>3. k < l => Before(k) + PostsPerPage <= Before(l)
  BY <1>1, PagesApart
<1>4. l < k => Before(l) + PostsPerPage <= Before(k)
  BY <1>1, PagesApart
<1> HIDE DEF l
<1>5. ~(k < l) /\ ~(l < k)
  BY <1>1, <1>2, <1>3, <1>4
<1>6. l = k
  BY <1>1, <1>5
<1> QED
  BY <1>6 DEF l

LEMMA LaterPages ==
  ASSUME NEW p \in Nat \ {0}, NEW q \in Nat \ {0}, p <= q
  PROVE  PageOf(p) <= PageOf(q)
<1>1. /\ PageOf(p) \in Nat \ {0} /\ Before(PageOf(p)) \in Int /\ Before(PageOf(p)) < p
      /\ PageOf(q) \in Nat \ {0} /\ Before(PageOf(q)) \in Int
      /\ q <= Before(PageOf(q)) + PostsPerPage
  BY PageBounds
<1>2. PageOf(q) < PageOf(p) => Before(PageOf(q)) + PostsPerPage <= Before(PageOf(p))
  BY <1>1, PagesApart
<1> QED
  BY <1>1, <1>2, UnreadAssumption

LEMMA LastPageTyped ==
  ASSUME count \in Nat PROVE LastPage \in Nat \ {0}
  BY PageBounds DEF LastPage

\* What a page holds.
LEMMA OnPage ==
  ASSUME count \in Nat, NEW k \in 1..LastPage
  PROVE  /\ k \in Nat \ {0} /\ Before(k) \in Nat /\ Before(k) <= count
         /\ PostsOn(k) \in Seq(Nat) /\ Len(PostsOn(k)) \in Nat
         /\ \A i \in 1..Len(PostsOn(k)) : PostsOn(k)[i] = Before(k) + i
         /\ \A p \in Nat : p \in ToSet(PostsOn(k)) <=> p \in 1..count /\ PageOf(p) = k
         /\ Before(k) + Len(PostsOn(k)) <= count
         /\ count > 0 => Len(PostsOn(k)) > 0
         /\ k < LastPage => Before(k) + Len(PostsOn(k)) = k * PostsPerPage
<1> DEFINE b == Before(k)
           n == IF b + PostsPerPage <= count THEN PostsPerPage ELSE count - b
           s == [i \in 1..n |-> b + i]
<1>1. k \in Nat \ {0} /\ PostsPerPage \in Nat \ {0} /\ LastPage \in Nat \ {0}
  BY LastPageTyped, UnreadAssumption
<1>2. b \in Nat
  <2>1. CASE k = 1
    <3>1. Before(k) = 0 * PostsPerPage
      BY <2>1 DEF Before
    <3>2. 0 * PostsPerPage = 0
      BY <1>1
    <3> QED
      BY <3>1, <3>2
  <2>2. CASE 1 < k
    <3>1. Before(1) = 0 * PostsPerPage
      BY DEF Before
    <3>2. 0 * PostsPerPage = 0
      BY <1>1
    <3>3. Before(k) \in Int /\ Before(1) + PostsPerPage <= Before(k)
      BY <1>1, <2>2, PagesApart
    <3> QED
      BY <1>1, <3>1, <3>2, <3>3
  <2> QED
    BY <1>1, <2>1, <2>2
<1>3. /\ count > 0 => b < count /\ LastPage = PageOf(count)
      /\ count = 0 => b = 0 /\ LastPage = 1
  <2>1. CASE count = 0
    <3>1. LastPage = 1 /\ k = 1
      BY <2>1 DEF LastPage
    <3>2. b = 0
      <4>1. Before(k) = 0 * PostsPerPage
        BY <3>1 DEF Before
      <4> QED
        BY <1>1, <4>1
    <3> QED
      BY <2>1, <3>1, <3>2
  <2>2. CASE count > 0
    <3>1. LastPage = PageOf(count) /\ Before(LastPage) \in Int /\ Before(LastPage) < count
      BY <2>2, PageBounds DEF LastPage
    <3>2. k < LastPage => b + PostsPerPage <= Before(LastPage)
      BY <1>1, PagesApart
    <3>3. b < count
      <4> HIDE DEF b
      <4>1. k = LastPage => b = Before(LastPage)
        BY DEF b
      <4> QED
        BY <1>1, <1>2, <3>1, <3>2, <4>1
    <3> QED
      BY <2>2, <3>1, <3>3
  <2> QED
    BY <2>1, <2>2
<1>4. PostsOn(k) = s
  BY DEF PostsOn, Before
<1> HIDE DEF b
<1>5. n \in Nat /\ b + n <= count /\ n <= PostsPerPage /\ (count > 0 => n > 0)
  BY <1>1, <1>2, <1>3
<1>6. k < LastPage => b + PostsPerPage <= count /\ b + PostsPerPage = k * PostsPerPage
  <2> SUFFICES ASSUME k < LastPage
               PROVE  b + PostsPerPage <= count /\ b + PostsPerPage = k * PostsPerPage
    OBVIOUS
  <2>1. count > 0 /\ LastPage = PageOf(count)
    BY <1>1, <1>3
  <2>2. /\ Before(LastPage) \in Int /\ Before(LastPage) < count
        /\ b + PostsPerPage <= Before(LastPage)
    BY <1>1, <2>1, PageBounds, PagesApart DEF b
  <2>3. (k - 1) * PostsPerPage + PostsPerPage = k * PostsPerPage
    BY <1>1
  <2> QED
    BY <1>1, <1>2, <2>2, <2>3 DEF b, Before
<1>7. k < LastPage => b + n = k * PostsPerPage
  BY <1>6
<1> HIDE DEF n
<1>8. s \in Seq(Nat) /\ Len(s) = n /\ \A i \in 1..n : s[i] = b + i
  BY <1>2, <1>5
<1>9. ASSUME NEW p \in Nat PROVE p \in ToSet(s) <=> p \in 1..count /\ PageOf(p) = k
  <2>1. p \in ToSet(s) <=> b < p /\ p <= b + n
    <3>1. ToSet(s) = {s[i] : i \in 1..n}
      BY <1>5 DEF ToSet
    <3>2. ASSUME NEW i \in 1..n, p = s[i] PROVE b < p /\ p <= b + n
      BY <1>2, <1>5, <1>8, <3>2
    <3>3. ASSUME b < p, p <= b + n PROVE p \in ToSet(s)
      <4>1. p - b \in 1..n /\ s[p - b] = p
        BY <1>2, <1>5, <1>8, <3>3
      <4> QED
        BY <3>1, <4>1
    <3> QED
      BY <3>1, <3>2, <3>3
  <2>2. ASSUME b < p, p <= b + n PROVE p \in 1..count /\ PageOf(p) = k
    <3>1. p \in Nat \ {0} /\ p \in 1..count /\ p <= b + PostsPerPage
      BY <1>1, <1>2, <1>5, <2>2
    <3> QED
      BY <1>1, <2>2, <3>1, PageIs DEF b
  <2>3. ASSUME p \in 1..count, PageOf(p) = k PROVE b < p /\ p <= b + n
    <3>1. b < p /\ p <= b + PostsPerPage
      BY <2>3, PageBounds DEF b
    <3> QED
      BY <1>1, <1>2, <1>5, <2>3, <3>1 DEF n
  <2> QED
    BY <2>1, <2>2, <2>3
<1> QED
  BY <1>1, <1>2, <1>4, <1>5, <1>7, <1>8, <1>9 DEF b

\* What a sequence holds after it was changed.
LEMMA HeldIn ==
  ASSUME NEW s \in Seq(Nat)
  PROVE  /\ \A x \in ToSet(s) : \E i \in 1..Len(s) : s[i] = x
         /\ \A i \in 1..Len(s) : s[i] \in ToSet(s)
<1>1. DOMAIN s = 1..Len(s)
  OBVIOUS
<1>2. ToSet(s) = {s[i] : i \in 1..Len(s)}
  BY <1>1 DEF ToSet
<1> QED
  BY <1>2

LEMMA HeldByBoth ==
  ASSUME NEW s \in Seq(Nat), NEW t \in Seq(Nat)
  PROVE  ToSet(s \o t) = ToSet(s) \cup ToSet(t)
<1> s \o t \in Seq(Nat)
  OBVIOUS
<1>1. ASSUME NEW i \in 1..Len(s \o t)
      PROVE  \/ i \in 1..Len(s) /\ (s \o t)[i] = s[i]
             \/ i - Len(s) \in 1..Len(t) /\ (s \o t)[i] = t[i - Len(s)]
  OBVIOUS
<1>2. \A i \in 1..Len(t) : Len(s) + i \in 1..Len(s \o t) /\ (s \o t)[Len(s) + i] = t[i]
  OBVIOUS
<1>3. ASSUME NEW x \in ToSet(s \o t) PROVE x \in ToSet(s) \cup ToSet(t)
  <2>1. PICK i \in 1..Len(s \o t) : (s \o t)[i] = x
    BY HeldIn
  <2> QED
    BY <1>1, <2>1, HeldIn
<1>4. ASSUME NEW x \in ToSet(s) PROVE x \in ToSet(s \o t)
  <2>1. PICK i \in 1..Len(s) : s[i] = x
    BY HeldIn
  <2>2. i \in 1..Len(s \o t) /\ (s \o t)[i] = x
    BY <2>1
  <2> QED
    BY <2>2, HeldIn
<1>5. ASSUME NEW x \in ToSet(t) PROVE x \in ToSet(s \o t)
  <2>1. PICK i \in 1..Len(t) : t[i] = x
    BY HeldIn
  <2> QED
    BY <1>2, <2>1, HeldIn
<1> QED
  BY <1>3, <1>4, <1>5

LEMMA HeldWithOneMore ==
  ASSUME NEW s \in Seq(Nat), NEW x \in Nat
  PROVE  ToSet(Append(s, x)) = ToSet(s) \cup {x}
<1>1. Append(s, x) = s \o <<x>> /\ <<x>> \in Seq(Nat)
  OBVIOUS
<1>2. ToSet(<<x>>) = {x}
  BY DEF ToSet
<1> QED
  BY <1>1, <1>2, HeldByBoth

LEMMA HeldWithoutFirst ==
  ASSUME NEW s \in Seq(Nat), s # <<>>
  PROVE  /\ Head(s) \in Nat /\ Head(s) = s[1] /\ Tail(s) \in Seq(Nat)
         /\ Len(s) \in Nat /\ Len(s) >= 1 /\ Len(Tail(s)) = Len(s) - 1
         /\ \A i \in 1..Len(Tail(s)) : Tail(s)[i] = s[i + 1]
         /\ ToSet(s) = {Head(s)} \cup ToSet(Tail(s))
<1>1. /\ Head(s) \in Nat /\ Head(s) = s[1] /\ Tail(s) \in Seq(Nat)
      /\ Len(s) \in Nat /\ Len(s) >= 1 /\ Len(Tail(s)) = Len(s) - 1
      /\ \A i \in 1..Len(Tail(s)) : Tail(s)[i] = s[i + 1]
  OBVIOUS
<1>2. s = <<Head(s)>> \o Tail(s) /\ <<Head(s)>> \in Seq(Nat)
  OBVIOUS
<1>3. ToSet(<<Head(s)>>) = {Head(s)}
  BY DEF ToSet
<1> QED
  BY <1>1, <1>2, <1>3, HeldByBoth
-----------------------------------------------------------------------------
\* A page that is served is read to its end.
LEMMA MarkerMoves ==
  ASSUME UnreadTypes, NEW k \in 1..LastPage, MarkRead(k)
  PROVE  /\ marker' \in Nat /\ marker <= marker' /\ marker' <= count
         /\ \A p \in ToSet(PostsOn(k)) : p \in 1..marker'
         /\ marker' = marker \/ marker' = Before(k) + Len(PostsOn(k))
         /\ Len(PostsOn(k)) > 0 => Before(k) + Len(PostsOn(k)) <= marker'
<1> DEFINE s == PostsOn(k)
           n == Len(PostsOn(k))
<1>1. /\ Before(k) \in Nat /\ s \in Seq(Nat) /\ n \in Nat
      /\ \A i \in 1..n : s[i] = Before(k) + i
      /\ Before(k) + n <= count /\ count \in Nat /\ marker \in 0..count
  BY OnPage DEF UnreadTypes
<1>2. \A p \in ToSet(s) : \E i \in 1..n : s[i] = p
  BY DEF ToSet
<1>3. s # <<>> => n > 0 /\ Last(s) = Before(k) + n
  BY <1>1 DEF Last
<1>4. marker' = IF s = <<>> THEN marker ELSE IF Last(s) > marker THEN Last(s) ELSE marker
  BY DEF MarkRead
<1>5. s = <<>> => n = 0
  OBVIOUS
<1> HIDE DEF s, n
<1>6. /\ marker' \in Nat /\ marker <= marker' /\ marker' <= count
      /\ marker' = marker \/ marker' = Before(k) + n
      /\ n > 0 => Before(k) + n <= marker'
  <2>1. CASE s = <<>>
    BY <1>1, <1>4, <1>5, <2>1
  <2>2. CASE s # <<>>
    <3>1. marker' = IF Before(k) + n > marker THEN Before(k) + n ELSE marker
      BY <1>3, <1>4, <2>2
    <3>2. Before(k) + n \in Nat
      BY <1>1
    <3> QED
      BY <1>1, <3>1, <3>2
  <2> QED
    BY <2>1, <2>2
<1>7. \A p \in ToSet(s) : p \in 1..marker'
  BY <1>1, <1>2, <1>6
<1> QED
  BY <1>6, <1>7 DEF s, n

\* The walk asks for a page that begins at what is read, or before it.
LEMMA AsksFromMarker ==
  ASSUME UnreadTypes, Reached, NEW k \in 1..LastPage, Requests(k)
  PROVE  Before(k) <= marker \/ marker = count
<1>1. count \in Nat /\ marker \in 0..count /\ k \in Nat
  BY LastPageTyped DEF UnreadTypes
<1>2. CASE upc = "first" /\ marker < count
  <2>1. k = PageOf(marker + 1)
    BY <1>2 DEF Requests, UnreadPage
  <2> QED
    BY <1>1, <2>1, PageBounds
<1>3. CASE upc = "walk" /\ page <= total /\ page # 0 /\ k = page
  BY <1>3 DEF Reached, Before
<1>4. CASE k = 1
  <2>1. Before(k) = 0 * PostsPerPage /\ 0 * PostsPerPage = 0
    BY <1>4, UnreadAssumption DEF Before
  <2> QED
    BY <1>1, <2>1
<1>5. CASE upc = "first" /\ ~(marker < count)
  BY <1>1, <1>5
<1> QED
  BY <1>2, <1>3, <1>4, <1>5 DEF Requests

\* What becomes read is on the page that is served.
LEMMA ReadServed ==
  ASSUME UnreadTypes, Reached, NEW k \in 1..LastPage, Requests(k), MarkRead(k)
  PROVE  (marker + 1)..marker' \subseteq ToSet(PostsOn(k))
<1> SUFFICES ASSUME NEW p \in (marker + 1)..marker' PROVE p \in ToSet(PostsOn(k))
  OBVIOUS
<1>1. /\ count \in Nat /\ marker \in 0..count
      /\ Before(k) \in Nat /\ Len(PostsOn(k)) \in Nat
      /\ PostsOn(k) \in Seq(Nat)
      /\ \A i \in 1..Len(PostsOn(k)) : PostsOn(k)[i] = Before(k) + i
  BY OnPage DEF UnreadTypes
<1>2. /\ marker' \in Nat /\ marker' <= count
      /\ marker' = marker \/ marker' = Before(k) + Len(PostsOn(k))
  BY MarkerMoves
<1>3. Before(k) <= marker \/ marker = count
  BY AsksFromMarker
<1>4. p - Before(k) \in 1..Len(PostsOn(k))
  BY <1>1, <1>2, <1>3
<1>5. PostsOn(k)[p - Before(k)] = p
  BY <1>1, <1>4
<1> QED
  BY <1>1, <1>4, <1>5 DEF ToSet
-----------------------------------------------------------------------------
\* What the walk has in hand is of earlier pages than the one that is asked for,
\* and no post of the backlog is of a later page.
LEMMA AsksLast ==
  ASSUME UnreadTypes, Reached, InTurn, NEW k \in 1..LastPage, Requests(k)
  PROVE  /\ \A q \in ToSet(taken) : q \in Nat \ {0} /\ PageOf(q) \in Nat /\ PageOf(q) <= k
         /\ \A q \in Served : q \in Nat \ {0} /\ PageOf(q) \in Nat /\ PageOf(q) < k
         /\ upc = "walk" => k = page
<1>1. /\ count \in Nat /\ marker \in 0..count /\ k \in Nat
      /\ \A q \in Served \cup ToSet(taken) :
            q \in 1..marker /\ q \in Nat \ {0} /\ PageOf(q) \in Nat
  BY LastPageTyped, PageBounds DEF UnreadTypes
<1>2. CASE upc = "first"
  <2>1. Served = {} /\ upc # "walk"
    <3>1. batch = <<>>
      BY <1>2 DEF Reached
    <3> QED
      BY <1>2, <3>1 DEF Served, ToSet
  <2>2. ASSUME NEW q \in ToSet(taken) PROVE PageOf(q) <= k
    <3>1. q \in Nat \ {0} /\ q <= marker
      BY <1>1
    <3>2. CASE marker < count
      <4>1. k = PageOf(marker + 1)
        BY <1>2, <3>2 DEF Requests, UnreadPage
      <4>2. marker + 1 \in Nat \ {0} /\ q <= marker + 1
        BY <1>1, <3>1
      <4> QED
        BY <3>1, <4>1, <4>2, LaterPages
    <3>3. CASE ~(marker < count)
      <4>1. count \in Nat \ {0} /\ q <= count
        BY <1>1, <3>1
      <4>2. k = PageOf(count)
        BY <1>2, <3>3, <4>1 DEF Requests, UnreadPage, LastPage
      <4> QED
        BY <3>1, <4>1, <4>2, LaterPages
    <3> QED
      BY <3>2, <3>3
  <2> QED
    BY <1>1, <2>1, <2>2
<1>3. CASE upc = "walk" /\ page <= total
  <2>1. page # 0 /\ \A q \in Served \cup ToSet(taken) : PageOf(q) < page
    BY <1>3 DEF InTurn
  <2>2. k = page
    BY <1>3, <2>1 DEF Requests
  <2> QED
    BY <1>1, <2>1, <2>2
<1> QED
  BY <1>2, <1>3 DEF Requests

\* Posts in order, followed by posts in order that are all later.
LEMMA OrderJoins ==
  ASSUME NEW s \in Seq(Nat), NEW t \in Seq(Nat),
         \A i, j \in 1..Len(s) : i < j => s[i] < s[j],
         \A i, j \in 1..Len(t) : i < j => t[i] < t[j],
         \A x \in ToSet(s), y \in ToSet(t) : x < y
  PROVE  \A i, j \in 1..Len(s \o t) : i < j => (s \o t)[i] < (s \o t)[j]
<1>1. /\ \A i \in 1..Len(s) : s[i] \in ToSet(s)
      /\ \A i \in 1..Len(t) : t[i] \in ToSet(t)
  BY HeldIn
<1>2. \A i \in 1..Len(s), j \in 1..Len(t) : s[i] < t[j]
  BY <1>1
<1> SUFFICES ASSUME NEW i \in 1..Len(s \o t), NEW j \in 1..Len(s \o t), i < j
             PROVE  (s \o t)[i] < (s \o t)[j]
  OBVIOUS
<1>3. PICK m \in Nat, n \in Nat : m = Len(s) /\ n = Len(t) /\ Len(s \o t) = m + n
  OBVIOUS
<1>4. \A x \in 1..(m + n) : /\ x <= m => x \in 1..m /\ (s \o t)[x] = s[x]
                            /\ x > m => x - m \in 1..n /\ (s \o t)[x] = t[x - m]
  BY <1>3
<1>5. i \in 1..(m + n) /\ j \in 1..(m + n)
  BY <1>3
<1>6. CASE j <= m
  <2>1. i \in 1..m /\ j \in 1..m /\ (s \o t)[i] = s[i] /\ (s \o t)[j] = s[j]
    BY <1>4, <1>5, <1>6
  <2> QED
    BY <1>3, <2>1
<1>7. CASE i <= m /\ j > m
  <2>1. /\ i \in 1..m /\ j - m \in 1..n
        /\ (s \o t)[i] = s[i] /\ (s \o t)[j] = t[j - m]
    BY <1>4, <1>5, <1>7
  <2> QED
    BY <1>2, <1>3, <2>1
<1>8. CASE i > m /\ j > m
  <2>1. /\ i - m \in 1..n /\ j - m \in 1..n
        /\ (s \o t)[i] = t[i - m] /\ (s \o t)[j] = t[j - m]
    BY <1>4, <1>5, <1>8
  <2>2. i - m < j - m
    BY <1>5
  <2> QED
    BY <1>3, <2>1, <2>2
<1> QED
  BY <1>5, <1>6, <1>7, <1>8

\* A page of the walk: all of its posts or, of a damaged page, some of them.
LEMMA ServedKeeps ==
  ASSUME UnreadInv, NEW k \in 1..LastPage, Requests(k), MarkRead(k),
         NEW posts \in Seq(Nat), NEW current \in {k, -1}, NEW all \in {LastPage, -1},
         Parses(posts, current, all),
         \A i, j \in 1..Len(posts) : i < j => posts[i] < posts[j],
         ToSet(posts) \subseteq ToSet(PostsOn(k)),
         unread \cup (ToSet(PostsOn(k)) \ ToSet(posts)) \subseteq unread'
  PROVE  UnreadInv'
<1>1. UnreadTypes /\ Reached /\ NothingSkipped
  BY DEF UnreadInv
<1>2. /\ batch' = batch \o posts /\ total' = all /\ upc' = "walk"
      /\ page' = (IF upc = "first" THEN current ELSE page) + 1
      /\ astray' = (astray \/ (page' = 0 /\ all # -1))
      /\ UNCHANGED <<count, taken, start, dropped, lost>>
  BY DEF Parses
<1>3. /\ k \in Nat \ {0} /\ LastPage \in Nat \ {0} /\ count \in Nat /\ marker \in 0..count
      /\ PostsOn(k) \in Seq(Nat) /\ batch \in Seq(Nat) /\ page \in Nat
      /\ \A p \in Nat : p \in ToSet(PostsOn(k)) <=> p \in 1..count /\ PageOf(p) = k
  BY <1>1, OnPage, LastPageTyped DEF UnreadTypes
<1>4. /\ marker' \in Nat /\ marker <= marker' /\ marker' <= count
      /\ \A p \in ToSet(PostsOn(k)) : p \in 1..marker'
      /\ (marker + 1)..marker' \subseteq ToSet(PostsOn(k))
  BY <1>1, MarkerMoves, ReadServed
<1>5. Served' = Served \cup ToSet(posts)
  BY <1>2, <1>3, HeldByBoth DEF Served
<1>6. /\ \A p \in ToSet(posts) : p \in Nat \ {0} /\ p \in 1..count /\ PageOf(p) = k
      /\ unread \subseteq unread'
  <2>1. \A p \in ToSet(posts) : p \in ToSet(PostsOn(k)) /\ p \in 1..marker'
    BY <1>4
  <2>2. \A p \in ToSet(posts) : p \in Nat \ {0}
    BY <1>4, <2>1
  <2> QED
    BY <1>3, <2>1, <2>2
<1>7. UnreadTypes'
  <2>1. batch' \in Seq(Nat)
    BY <1>2, <1>3
  <2>2. \A p \in Served' \cup ToSet(taken') : p \in 1..marker'
    BY <1>1, <1>2, <1>3, <1>4, <1>5 DEF UnreadTypes
  <2>3. count' \in Nat /\ marker' \in 0..count' /\ start' \in Nat
    BY <1>1, <1>2, <1>4 DEF UnreadTypes
  <2>4. page' \in Nat /\ total' \in Int /\ astray' \in BOOLEAN
    <3>1. page' = page + 1 \/ page' = k + 1 \/ page' = -1 + 1
      BY <1>2
    <3>2. total' \in Int
      BY <1>2, <1>3
    <3>3. astray' \in BOOLEAN
      BY <1>1, <1>2 DEF UnreadTypes
    <3> QED
      BY <1>3, <3>1, <3>2, <3>3
  <2> QED
    BY <1>1, <1>2, <2>1, <2>2, <2>3, <2>4 DEF UnreadTypes
<1>8. Reached'
  <2>1. LastPage' = LastPage
    BY <1>2 DEF LastPage, PageOf
  <2>2. ASSUME page' <= total'
        PROVE  total' = LastPage /\ (page' - 1) * PostsPerPage <= marker'
    <3>1. total' = LastPage
      BY <1>2, <1>3, <1>7, <2>2 DEF UnreadTypes
    <3>2. CASE page' = 0
      <4>1. page' - 1 = -1
        BY <3>2
      <4>2. (-1) * PostsPerPage \in Int /\ (-1) * PostsPerPage <= 0 /\ 0 <= marker'
        BY <1>4, UnreadAssumption, <1>3
      <4>3. (page' - 1) * PostsPerPage <= marker'
        BY <1>4, <4>1, <4>2
      <4> QED
        BY <3>1, <4>3
    <3>3. CASE page' = 1
      <4>1. (page' - 1) * PostsPerPage = 0 * PostsPerPage /\ 0 * PostsPerPage = 0
        BY <3>3, UnreadAssumption
      <4> QED
        BY <1>3, <1>4, <3>1, <4>1
    <3>4. CASE page' = k + 1
      <4>1. k < LastPage /\ page' - 1 = k
        BY <1>3, <2>2, <3>1, <3>4
      <4>2. count > 0
        BY <1>3, <4>1 DEF LastPage
      <4>3. /\ Len(PostsOn(k)) > 0
            /\ Before(k) + Len(PostsOn(k)) = k * PostsPerPage
        BY <1>3, <4>1, <4>2, OnPage
      <4>4. Before(k) + Len(PostsOn(k)) <= marker'
        BY <1>1, <4>3, MarkerMoves
      <4> QED
        BY <3>1, <4>1, <4>3, <4>4
    <3>5. page' = 0 \/ page' = 1 \/ page' = k + 1
      <4>1. CASE upc = "first"
        <5>1. page' = k + 1 \/ page' = -1 + 1
          BY <1>2, <4>1
        <5> QED
          BY <5>1
      <4>2. CASE upc = "walk" /\ k = (IF page = 0 THEN 1 ELSE page)
        BY <1>2, <1>3, <4>2
      <4> QED
        BY <4>1, <4>2 DEF Requests
    <3> QED
      BY <3>2, <3>3, <3>4, <3>5
  <2> QED
    BY <1>2, <1>3, <2>1, <2>2 DEF Reached
<1>9. ASSUME ~astray' PROVE InTurn' /\ PagesWhole' /\ NewIsLater'
  <2>1. ~astray /\ InTurn /\ PagesWhole /\ NewIsLater
    BY <1>2, <1>9 DEF UnreadInv
  <2>2. /\ \A q \in ToSet(taken) : q \in Nat \ {0} /\ PageOf(q) \in Nat /\ PageOf(q) <= k
        /\ \A q \in Served : q \in Nat \ {0} /\ PageOf(q) \in Nat /\ PageOf(q) < k
        /\ upc = "walk" => k = page
    BY <1>1, <2>1, AsksLast
  <2>3. InTurn'
    <3>1. \A x \in ToSet(batch), y \in ToSet(posts) : x < y
      <4> SUFFICES ASSUME NEW x \in ToSet(batch), NEW y \in ToSet(posts) PROVE x < y
        OBVIOUS
      <4>1. x \in Nat \ {0} /\ PageOf(x) \in Nat /\ PageOf(x) < k
        BY <2>2 DEF Served
      <4>2. y \in Nat \ {0} /\ PageOf(y) = k
        BY <1>6
      <4>3. y <= x => PageOf(y) <= PageOf(x)
        BY <4>1, <4>2, LaterPages
      <4> QED
        BY <1>3, <4>1, <4>2, <4>3
    <3>2. \A i, j \in 1..Len(batch) : i < j => batch[i] < batch[j]
      BY <2>1 DEF InTurn
    <3>3. \A i, j \in 1..Len(batch \o posts) :
             i < j => (batch \o posts)[i] < (batch \o posts)[j]
      BY <1>3, <3>1, <3>2, OrderJoins
    <3>4. ASSUME page' <= total'
          PROVE  page' # 0 /\ \A p \in Served' \cup ToSet(taken') : PageOf(p) < page'
      <4>1. page' # 0
        <5>1. all # -1 \/ page' > -1
          BY <1>7 DEF UnreadTypes
        <5>2. total' # -1
          BY <1>7, <3>4 DEF UnreadTypes
        <5> QED
          BY <1>2, <1>9, <5>2
      <4>2. page' = k + 1
        <5>1. CASE upc = "first"
          <6>1. page' = k + 1 \/ page' = -1 + 1
            BY <1>2, <5>1
          <6> QED
            BY <4>1, <6>1
        <5>2. CASE upc = "walk"
          BY <1>2, <2>2, <5>2
        <5> QED
          BY <5>1, <5>2 DEF Requests
      <4>3. \A p \in Served \cup ToSet(posts) \cup ToSet(taken) :
               PageOf(p) \in Nat /\ PageOf(p) <= k
        BY <1>3, <1>6, <2>2
      <4> QED
        BY <1>2, <1>3, <1>5, <4>1, <4>2, <4>3
    <3>5. \A i, j \in 1..Len(batch') : i < j => batch'[i] < batch'[j]
      BY <1>2, <3>3
    <3>6. \A p : PageOf(p)' = PageOf(p)
      BY DEF PageOf
    <3> QED
      BY <3>4, <3>5, <3>6 DEF InTurn
  <2>4. \A p : EarlierOnPage(p)' = EarlierOnPage(p)
    BY DEF EarlierOnPage, PageOf
  <2>5. PagesWhole'
    <3>1. ASSUME NEW p \in ToSet(posts), NEW q \in EarlierOnPage(p)
          PROVE  q \in ToSet(posts) \cup unread'
      <4>1. p \in Nat /\ p \in 1..count /\ PageOf(p) = k
        BY <1>6
      <4>2. q \in Nat /\ q \in 1..count /\ PageOf(q) = k
        BY <1>3, <4>1 DEF EarlierOnPage
      <4>3. q \in ToSet(PostsOn(k))
        BY <1>3, <4>2
      <4> QED
        BY <4>3
    <3>2. \A p \in ToSet(taken) : EarlierOnPage(p) \subseteq ToSet(taken) \cup unread'
      BY <1>6, <2>1 DEF PagesWhole
    <3>3. \A p \in Served :
             EarlierOnPage(p) \subseteq Served \cup ToSet(taken) \cup unread'
      BY <1>6, <2>1 DEF PagesWhole
    <3>4. \A p \in Served \cup ToSet(posts) :
             EarlierOnPage(p) \subseteq Served \cup ToSet(posts) \cup ToSet(taken) \cup unread'
      BY <3>1, <3>3
    <3> QED
      BY <1>2, <1>5, <2>4, <3>2, <3>4 DEF PagesWhole
  <2>6. NewIsLater'
    <3>1. ASSUME NEW p \in ToSet(posts), NEW q \in ToSet(taken), p \notin ToSet(taken),
                 p \notin unread'
          PROVE  q < p
      <4>1. p \in Nat \ {0} /\ PageOf(p) = k
        BY <1>6
      <4>2. q \in Nat \ {0} /\ PageOf(q) \in Nat /\ PageOf(q) <= k
        BY <2>2
      <4>3. CASE p < q
        <5>1. PageOf(q) = PageOf(p)
          BY <1>3, <4>1, <4>2, <4>3, LaterPages
        <5>2. p \in EarlierOnPage(q)
          BY <4>1, <4>2, <4>3, <5>1 DEF EarlierOnPage
        <5> QED
          BY <1>6, <2>1, <3>1, <5>2 DEF PagesWhole
      <4> QED
        BY <3>1, <4>1, <4>2, <4>3
    <3>2. \A p \in Served, q \in ToSet(taken) : p \in ToSet(taken) \cup unread' \/ q < p
      BY <1>6, <2>1 DEF NewIsLater
    <3> QED
      BY <1>2, <1>5, <3>1, <3>2 DEF NewIsLater
  <2> QED
    BY <2>3, <2>5, <2>6
<1>10. NothingSkipped'
  <2>1. TakenInOrder'
    <3>1. TakenInOrder /\ taken' = taken /\ (astray => astray')
      BY <1>1, <1>2 DEF NothingSkipped
    <3> QED
      BY <1>6, <3>1 DEF TakenInOrder
  <2>2. ASSUME NEW p \in (start + 1)..marker'
        PROVE  p \in Served \cup ToSet(posts) \cup ToSet(taken) \cup dropped \cup lost \cup unread'
    <3>1. start \in Nat /\ (p \in (start + 1)..marker \/ p \in (marker + 1)..marker')
      BY <1>1, <1>3, <1>4 DEF UnreadTypes
    <3>2. CASE p \in (start + 1)..marker
      BY <1>1, <1>6, <3>2 DEF NothingSkipped, OnlyFailuresLose
    <3>3. CASE p \in (marker + 1)..marker'
      BY <1>4, <3>3
    <3> QED
      BY <3>1, <3>2, <3>3
  <2> QED
    BY <1>2, <1>5, <2>1, <2>2 DEF NothingSkipped, OnlyFailuresLose
<1> QED
  BY <1>7, <1>8, <1>9, <1>10 DEF UnreadInv

LEMMA PageArrivesKeeps ==
  ASSUME UnreadInv, NEW k \in 1..LastPage, PageArrives(k)
  PROVE  UnreadInv'
<1>1. /\ Requests(k) /\ MarkRead(k) /\ Parses(PostsOn(k), k, LastPage) /\ unread' = unread
  BY DEF PageArrives
<1>2. /\ k \in Nat \ {0} /\ Before(k) \in Nat /\ PostsOn(k) \in Seq(Nat)
      /\ Len(PostsOn(k)) \in Nat
      /\ \A i \in 1..Len(PostsOn(k)) : PostsOn(k)[i] = Before(k) + i
  BY OnPage DEF UnreadInv, UnreadTypes
<1>3. \A i, j \in 1..Len(PostsOn(k)) : i < j => PostsOn(k)[i] < PostsOn(k)[j]
  BY <1>2
<1>4. unread \cup (ToSet(PostsOn(k)) \ ToSet(PostsOn(k))) \subseteq unread'
  BY <1>1
<1> QED
  BY <1>1, <1>2, <1>3, <1>4, ServedKeeps

\* Some of the posts of a page, in their order.
LEMMA SomeInOrder ==
  ASSUME NEW s \in Seq(Nat), NEW t \in SomeOf(s)
  PROVE  /\ t \in Seq(Nat) /\ ToSet(t) \subseteq ToSet(s)
         /\ \A i, j \in 1..Len(t) : i < j => t[i] < t[j]
<1>1. PICK n \in 0..Len(s) : t \in [1..n -> ToSet(s)]
  BY DEF SomeOf
<1>2. n \in Nat /\ ToSet(s) \subseteq Nat
  <2>1. \A x \in ToSet(s) : x \in Nat
    BY HeldIn
  <2> QED
    BY <2>1
<1>3. t \in Seq(Nat) /\ Len(t) = n /\ DOMAIN t = 1..n
  BY <1>1, <1>2
<1>4. \A x \in ToSet(t) : x \in ToSet(s)
  BY <1>1, <1>3 DEF ToSet
<1>5. \A i, j \in DOMAIN t : i < j => t[i] < t[j]
  BY DEF SomeOf
<1> QED
  BY <1>3, <1>4, <1>5

LEMMA DamagedPageKeeps ==
  ASSUME UnreadInv, NEW k \in 1..LastPage, DamagedPageArrives(k)
  PROVE  UnreadInv'
<1>1. Requests(k) /\ MarkRead(k)
  BY DEF DamagedPageArrives
<1>2. PICK posts \in SomeOf(PostsOn(k)), current \in {k, -1}, all \in {LastPage, -1} :
         /\ Parses(posts, current, all)
         /\ unread' = unread \cup (ToSet(PostsOn(k)) \ ToSet(posts))
  BY DEF DamagedPageArrives
<1>3. PostsOn(k) \in Seq(Nat)
  BY OnPage DEF UnreadInv, UnreadTypes
<1>4. /\ posts \in Seq(Nat) /\ ToSet(posts) \subseteq ToSet(PostsOn(k))
      /\ \A i, j \in 1..Len(posts) : i < j => posts[i] < posts[j]
  BY <1>3, SomeInOrder
<1>5. unread \cup (ToSet(PostsOn(k)) \ ToSet(posts)) \subseteq unread'
  BY <1>2
<1> QED
  BY <1>1, <1>2, <1>4, <1>5, ServedKeeps

\* A walk that fails takes its posts with it.
LEMMA RequestFailsKeeps ==
  ASSUME UnreadInv, NEW k \in 1..LastPage, RequestFails(k)
  PROVE  UnreadInv'
<1>1. /\ UnreadTypes /\ Reached /\ NothingSkipped
      /\ ~astray => InTurn /\ PagesWhole /\ NewIsLater
  BY DEF UnreadInv
<1>2. /\ Requests(k) /\ batch' = <<>> /\ page' = 0 /\ total' = 0 /\ upc' = "sleep"
      /\ UNCHANGED <<count, taken, start, unread, astray>>
      /\ dropped' = dropped \cup Served
      /\ \/ marker' = marker /\ lost' = lost
         \/ MarkRead(k) /\ lost' = lost \cup ToSet(PostsOn(k))
  BY DEF RequestFails
<1>3. count \in Nat /\ marker \in 0..count /\ start \in Nat
  BY <1>1 DEF UnreadTypes
<1>4. /\ marker' \in Nat /\ marker <= marker' /\ marker' <= count
      /\ (marker + 1)..marker' \subseteq lost' /\ lost \subseteq lost'
  <2>1. CASE marker' = marker /\ lost' = lost
    BY <1>3, <2>1
  <2>2. CASE MarkRead(k) /\ lost' = lost \cup ToSet(PostsOn(k))
    BY <1>1, <1>2, <2>2, MarkerMoves, ReadServed
  <2> QED
    BY <1>2, <2>1, <2>2
<1>5. Served' = {}
  BY <1>2 DEF Served, ToSet
<1>6. UnreadTypes'
  <2>1. \A p \in ToSet(taken) : p \in 1..marker'
    BY <1>1, <1>3, <1>4 DEF UnreadTypes
  <2> QED
    BY <1>1, <1>2, <1>3, <1>4, <1>5, <2>1 DEF UnreadTypes
<1>7. Reached'
  BY <1>2 DEF Reached
<1>8. ASSUME ~astray' PROVE InTurn' /\ PagesWhole' /\ NewIsLater'
  <2>1. PagesWhole
    BY <1>1, <1>2, <1>8
  <2>2. InTurn'
    <3>1. Len(batch') = 0 /\ upc' # "walk"
      BY <1>2
    <3> QED
      BY <3>1 DEF InTurn
  <2>3. \A p : EarlierOnPage(p)' = EarlierOnPage(p)
    BY DEF EarlierOnPage, PageOf
  <2> QED
    BY <1>2, <1>5, <2>1, <2>2, <2>3 DEF PagesWhole, NewIsLater
<1>9. NothingSkipped'
  <2>1. TakenInOrder'
    BY <1>1, <1>2 DEF NothingSkipped, TakenInOrder
  <2>2. ASSUME NEW p \in (start + 1)..marker'
        PROVE  p \in ToSet(taken) \cup dropped' \cup lost' \cup unread
    <3>1. p \in (start + 1)..marker \/ p \in (marker + 1)..marker'
      BY <1>3, <1>4
    <3> QED
      BY <1>1, <1>2, <1>4, <3>1 DEF NothingSkipped, OnlyFailuresLose
  <2> QED
    BY <1>2, <2>1, <2>2 DEF NothingSkipped, OnlyFailuresLose
<1> QED
  BY <1>6, <1>7, <1>8, <1>9 DEF UnreadInv

\* A post that is taken in is the first of the batch: what is before it on its
\* page is in the backlog or was not read, and so is what is not later than the
\* backlog.
LEMMA TakePostKeeps ==
  ASSUME UnreadInv, TakePost
  PROVE  UnreadInv'
<1> DEFINE h == Head(batch)
<1>1. UnreadTypes /\ NothingSkipped
  BY DEF UnreadInv
<1>2. /\ upc = "walk" /\ page > total /\ batch # <<>> /\ batch' = Tail(batch)
      /\ UNCHANGED <<count, marker, upc, page, total, start, dropped, lost, unread, astray>>
      /\ taken' = IF h \in ToSet(taken) THEN taken ELSE Append(taken, h)
  BY DEF TakePost, NextPost, siteVars, missing
<1>3. batch \in Seq(Nat) /\ taken \in Seq(Nat)
  BY <1>1 DEF UnreadTypes
<1>4. /\ h \in Nat /\ h = batch[1] /\ batch' \in Seq(Nat)
      /\ Len(batch) \in Nat /\ Len(batch) >= 1 /\ Len(batch') = Len(batch) - 1
      /\ \A i \in 1..Len(batch') : batch'[i] = batch[i + 1]
      /\ Served = {h} \cup Served'
  BY <1>2, <1>3, HeldWithoutFirst DEF Served
<1>5. taken' \in Seq(Nat) /\ ToSet(taken') = ToSet(taken) \cup {h}
  BY <1>2, <1>3, <1>4, HeldWithOneMore
<1> HIDE DEF h
<1>6. UnreadTypes'
  BY <1>1, <1>2, <1>4, <1>5 DEF UnreadTypes
<1>7. ~(page' <= total') /\ upc' = "walk"
  BY <1>1, <1>2 DEF UnreadTypes
<1>8. Reached'
  BY <1>7 DEF Reached
<1>9. ASSUME ~astray' PROVE InTurn' /\ PagesWhole' /\ NewIsLater'
  <2>1. InTurn /\ PagesWhole /\ NewIsLater
    BY <1>2, <1>9 DEF UnreadInv
  <2>2. \A i, j \in 1..Len(batch) : i < j => batch[i] < batch[j]
    BY <2>1 DEF InTurn
  <2>3. \A i \in 1..Len(batch') : i + 1 \in 1..Len(batch) /\ batch'[i] = batch[i + 1]
    BY <1>4
  <2>4. ASSUME NEW i \in 1..Len(batch'), NEW j \in 1..Len(batch'), i < j
        PROVE  batch'[i] < batch'[j]
    <3>1. i + 1 < j + 1
      BY <1>4, <2>4
    <3> QED
      BY <2>2, <2>3, <3>1
  <2>5. InTurn'
    BY <1>7, <2>4 DEF InTurn
  <2>6. \A p \in Served' : p \in Nat /\ h < p
    <3> SUFFICES ASSUME NEW p \in Served' PROVE p \in Nat /\ h < p
      OBVIOUS
    <3>1. PICK i \in 1..Len(batch') : batch'[i] = p
      BY <1>4, HeldIn DEF Served
    <3>2. 1 \in 1..Len(batch) /\ i + 1 \in 1..Len(batch) /\ 1 < i + 1 /\ p = batch[i + 1]
      BY <1>4, <2>3, <3>1
    <3> QED
      BY <1>3, <1>4, <2>2, <3>2
  <2>7. \A p : EarlierOnPage(p)' = EarlierOnPage(p)
    BY DEF EarlierOnPage, PageOf
  <2>8. EarlierOnPage(h) \subseteq ToSet(taken) \cup unread
    <3> SUFFICES ASSUME NEW q \in EarlierOnPage(h) PROVE q \in ToSet(taken) \cup unread
      OBVIOUS
    <3>1. q \in Served \cup ToSet(taken) \cup unread
      BY <1>4, <2>1 DEF PagesWhole
    <3>2. q \in Nat /\ q < h
      BY <1>4 DEF EarlierOnPage
    <3> QED
      BY <1>4, <2>6, <3>1, <3>2
  <2>9. PagesWhole'
    BY <1>2, <1>4, <1>5, <2>1, <2>7, <2>8 DEF PagesWhole
  <2>10. NewIsLater'
    BY <1>2, <1>4, <1>5, <2>1, <2>6 DEF NewIsLater
  <2> QED
    BY <2>5, <2>9, <2>10
<1>10. TakenInOrder'
  <2>1. CASE h \in ToSet(taken)
    BY <1>1, <1>2, <2>1 DEF NothingSkipped, TakenInOrder
  <2>2. CASE h \notin ToSet(taken)
    <3>1. \A i \in 1..Len(taken) : taken[i] \in ToSet(taken)
      BY <1>3, HeldIn
    <3>2. \A i \in 1..Len(taken) : /\ taken[i] # h
                                   /\ taken[i] > h => h \in unread \/ astray
      <4>1. CASE astray
        BY <2>2, <3>1, <4>1
      <4>2. CASE ~astray
        <5>1. NewIsLater
          BY <4>2 DEF UnreadInv
        <5>2. \A q \in ToSet(taken) : h \in unread \/ q < h
          BY <1>4, <2>2, <5>1 DEF NewIsLater
        <5>3. \A i \in 1..Len(taken) : taken[i] \in Nat
          BY <1>3
        <5> QED
          BY <1>4, <2>2, <3>1, <5>2, <5>3
      <4> QED
        BY <4>1, <4>2
    <3>3. /\ Len(taken) \in Nat /\ Len(taken') = Len(taken) + 1
          /\ \A i \in 1..Len(taken) : taken'[i] = taken[i]
          /\ taken'[Len(taken) + 1] = h
      BY <1>2, <1>3, <1>4, <2>2
    <3>4. \A i, j \in 1..Len(taken) :
             i < j => /\ taken[i] # taken[j]
                      /\ taken[i] > taken[j] => taken[j] \in unread \/ astray
      BY <1>1 DEF NothingSkipped, TakenInOrder
    <3>5. ASSUME NEW i \in 1..Len(taken'), NEW j \in 1..Len(taken'), i < j
          PROVE  /\ taken'[i] # taken'[j]
                 /\ taken'[i] > taken'[j] => taken'[j] \in unread \/ astray
      <4>1. CASE j \in 1..Len(taken)
        <5>1. i \in 1..Len(taken)
          BY <3>3, <3>5, <4>1
        <5> QED
          BY <3>3, <3>4, <3>5, <4>1, <5>1
      <4>2. CASE j = Len(taken) + 1
        <5>1. i \in 1..Len(taken)
          BY <3>3, <3>5, <4>2
        <5> QED
          BY <3>2, <3>3, <4>2, <5>1
      <4> QED
        BY <3>3, <4>1, <4>2
    <3> QED
      BY <1>2, <3>5 DEF TakenInOrder
  <2> QED
    BY <2>1, <2>2
<1>11. NothingSkipped'
  <2>1. Served' \cup ToSet(taken') = Served \cup ToSet(taken)
    BY <1>4, <1>5
  <2> QED
    BY <1>1, <1>2, <1>10, <2>1 DEF NothingSkipped, OnlyFailuresLose
<1> QED
  BY <1>6, <1>8, <1>9, <1>11 DEF UnreadInv

\* A post of somebody can only add a page.
LEMMA SomebodyPostsKeeps ==
  ASSUME UnreadInv, SomebodyPosts
  PROVE  UnreadInv'
<1>1. /\ UnreadTypes /\ Reached /\ NothingSkipped
      /\ ~astray => InTurn /\ PagesWhole /\ NewIsLater
  BY DEF UnreadInv
<1>2. /\ count' = count + 1 /\ count \in Nat /\ marker \in 0..count
      /\ UNCHANGED <<marker, upc, page, total, batch, taken, start, dropped, lost, unread,
                     astray>>
  BY <1>1 DEF SomebodyPosts, UnreadTypes, walkVars, missing
<1>3. LastPage <= LastPage' /\ LastPage \in Nat /\ LastPage' \in Nat
  <2>1. count + 1 \in Nat \ {0} /\ LastPage' = PageOf(count + 1)
    BY <1>2 DEF LastPage, PageOf
  <2>2. PageOf(count + 1) \in Nat \ {0} /\ LastPage \in Nat \ {0}
    BY <1>2, <2>1, PageBounds, LastPageTyped
  <2>3. CASE count = 0
    BY <2>1, <2>2, <2>3 DEF LastPage
  <2>4. CASE count # 0
    <3>1. count \in Nat \ {0} /\ count <= count + 1 /\ LastPage = PageOf(count)
      BY <1>2, <2>4 DEF LastPage
    <3> QED
      BY <2>1, <2>2, <3>1, LaterPages
  <2> QED
    BY <2>3, <2>4
<1>4. UnreadTypes'
  BY <1>1, <1>2 DEF UnreadTypes, Served
<1>5. Reached'
  <2>1. total \in Int
    BY <1>1 DEF UnreadTypes
  <2> QED
    BY <1>1, <1>2, <1>3, <2>1 DEF Reached
<1>6. ~astray' => InTurn' /\ PagesWhole' /\ NewIsLater'
  BY <1>1, <1>2 DEF InTurn, PagesWhole, NewIsLater, EarlierOnPage, PageOf, Served
<1>7. NothingSkipped'
  BY <1>1, <1>2 DEF NothingSkipped, TakenInOrder, OnlyFailuresLose, Served
<1> QED
  BY <1>4, <1>5, <1>6, <1>7 DEF UnreadInv

\* A page that is no thread page, the end of a walk and the next poll.
LEMMA EndOfWalkKeeps ==
  ASSUME UnreadInv,
         \/ \E k \in 1..LastPage : BadPageArrives(k)
         \/ TakenIn \/ PollAgain \/ UNCHANGED unreadVars
  PROVE  UnreadInv'
<1>1. /\ UnreadTypes /\ Reached /\ NothingSkipped
      /\ ~astray => InTurn /\ PagesWhole /\ NewIsLater
  BY DEF UnreadInv
<1>2. /\ UNCHANGED <<count, marker, batch, taken, start, dropped, lost, unread, astray>>
      /\ page' \in Nat /\ total' \in Int /\ upc' \in {"first", "walk", "sleep"}
      /\ \/ UNCHANGED <<upc, page, total>>
         \/ ~(upc' = "walk" /\ page' <= total') /\ (upc' # "walk" => batch = <<>>)
  <2>1. /\ page \in Nat /\ total \in Int /\ upc \in {"first", "walk", "sleep"}
        /\ batch \in Seq(Nat)
    BY <1>1 DEF UnreadTypes
  <2>2. CASE \E k \in 1..LastPage : BadPageArrives(k)
    <3>1. /\ batch' = batch \o <<>> /\ total' = -1 /\ upc' = "walk"
          /\ page' = (IF upc = "first" THEN -1 ELSE page) + 1
          /\ astray' = (astray \/ (page' = 0 /\ -1 # -1))
          /\ UNCHANGED <<count, marker, taken, start, dropped, lost, unread>>
      BY <2>2 DEF BadPageArrives, Parses
    <3>2. batch' = batch /\ page' \in Nat /\ ~(page' <= total')
      BY <2>1, <3>1
    <3>3. astray' = astray
      <4>1. astray \in BOOLEAN
        BY <1>1 DEF UnreadTypes
      <4> QED
        BY <3>1, <4>1
    <3> QED
      BY <3>1, <3>2, <3>3
  <2>3. CASE TakenIn
    BY <2>1, <2>3 DEF TakenIn, siteVars, missing
  <2>4. CASE PollAgain
    <3>1. batch = <<>>
      BY <1>1, <2>4 DEF PollAgain, Reached
    <3> QED
      BY <2>1, <2>4, <3>1 DEF PollAgain, siteVars, missing
  <2>5. CASE UNCHANGED unreadVars
    BY <2>1, <2>5 DEF unreadVars, siteVars, walkVars, missing
  <2> QED
    BY <2>2, <2>3, <2>4, <2>5
<1>3. UnreadTypes'
  BY <1>1, <1>2 DEF UnreadTypes, Served
<1>4. Reached'
  BY <1>1, <1>2 DEF Reached, LastPage, PageOf
<1>5. ~astray' => InTurn' /\ PagesWhole' /\ NewIsLater'
  BY <1>1, <1>2 DEF InTurn, PagesWhole, NewIsLater, EarlierOnPage, PageOf, Served
<1>6. NothingSkipped'
  BY <1>1, <1>2 DEF NothingSkipped, TakenInOrder, OnlyFailuresLose, Served
<1> QED
  BY <1>3, <1>4, <1>5, <1>6 DEF UnreadInv

LEMMA UnreadInductive ==
  /\ UnreadInit => UnreadInv
  /\ UnreadInv /\ [UnreadNext]_unreadVars => UnreadInv'
<1>1. ASSUME UnreadInit PROVE UnreadInv
  <2>1. batch = <<>> /\ taken = <<>> /\ Served = {} /\ ToSet(taken) = {}
    BY <1>1 DEF UnreadInit, Served, ToSet
  <2>2. count \in Nat /\ marker \in 0..count /\ start = marker /\ upc = "first"
    BY <1>1, UnreadAssumption DEF UnreadInit
  <2>3. UnreadTypes
    <3>1. marker \in Nat /\ start \in Nat /\ batch \in Seq(Nat) /\ taken \in Seq(Nat)
      BY <2>1, <2>2
    <3>2. page \in Nat /\ total \in Int
      BY <1>1 DEF UnreadInit
    <3>3. upc \in {"first", "walk", "sleep"} /\ astray \in BOOLEAN
      BY <1>1 DEF UnreadInit
    <3>4. \A p \in Served \cup ToSet(taken) : p \in 1..marker
      BY <2>1
    <3> QED
      BY <2>2, <3>1, <3>2, <3>3, <3>4, Zenon DEF UnreadTypes
  <2>4. Reached /\ InTurn /\ PagesWhole /\ NewIsLater
    BY <2>1, <2>2 DEF Reached, InTurn, PagesWhole, NewIsLater
  <2>5. NothingSkipped
    BY <2>1, <2>2 DEF NothingSkipped, TakenInOrder, OnlyFailuresLose
  <2> QED
    BY <2>3, <2>4, <2>5 DEF UnreadInv
<1>2. ASSUME UnreadInv, [UnreadNext]_unreadVars PROVE UnreadInv'
  BY <1>2, SomebodyPostsKeeps, PageArrivesKeeps, DamagedPageKeeps, TakePostKeeps,
     RequestFailsKeeps, EndOfWalkKeeps DEF UnreadNext, UnreadStep
<1> QED
  BY <1>1, <1>2

\* The backlog of a thread has each post once, in order but for posts that were
\* not read when they were first served and after a walk that went back to the
\* first page, and has no gap but what could not be read, was lost with a response
\* or was dropped by a walk that failed: for threads and pages of any size,
\* however many posts arrive while the pages are asked for.
THEOREM BacklogComplete == UnreadSpec => []NothingSkipped
<1>1. UnreadInv => NothingSkipped
  BY DEF UnreadInv
<1> QED
  BY <1>1, UnreadInductive, PTL DEF UnreadSpec
=============================================================================
