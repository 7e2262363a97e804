----------------------------- MODULE TextProofs -----------------------------
(* Theorems about IrcText, ClientStream and SitePages, for bodies, names,    *)
(* streams and pages of any length and for any sizes of a message and of the *)
(* buffer.                                                                   *)
EXTENDS SitePages, ClientStream, SequenceTheorems, FiniteSetTheorems,
        WellFoundedInduction, TLAPS

-----------------------------------------------------------------------------
(* Induction and folds.  A property is a set here, the step of a fold a     *)
(* function: what a theorem can have as a parameter.                        *)

\* Induction, with a set for the predicate.
LEMMA NatAll ==
  ASSUME NEW S, 0 \in S, \A n \in Nat : n \in S => n + 1 \in S
  PROVE  \A n \in Nat : n \in S
<1> DEFINE T == Nat \ S
<1> SUFFICES ASSUME T # {} PROVE FALSE
  OBVIOUS
<1>1. PICK x \in T : \A y \in T : ~(<<y, x>> \in OpToRel(<, Nat))
  BY NatLessThanWellFounded, WFMin, Zenon
<1>2. \A y \in T : ~(y < x)
  BY <1>1, Zenon DEF OpToRel
<1>3. x \in Nat /\ x # 0 /\ x - 1 \in Nat /\ x - 1 \notin T
  BY <1>2
<1> QED
  BY <1>3

\* A set that has <<>> and is closed under Append has every sequence.
LEMMA SeqAll ==
  ASSUME NEW E, NEW S, <<>> \in S,
         \A s \in Seq(E), e \in E : s \in S => Append(s, e) \in S
  PROVE  \A s \in Seq(E) : s \in S
<1> DEFINE L == {n \in Nat : \A s \in Seq(E) : Len(s) = n => s \in S}
<1>1. 0 \in L
  <2>1. \A s \in Seq(E) : Len(s) = 0 => s = <<>>
    BY EmptySeq
  <2> QED
    BY <2>1
<1>2. ASSUME NEW n \in Nat, n \in L PROVE n + 1 \in L
  <2> SUFFICES ASSUME NEW s \in Seq(E), Len(s) = n + 1 PROVE s \in S
    OBVIOUS
  <2>1. PICK t \in Seq(E), e \in E : s = Append(t, e)
    <3>1. s # <<>>
      BY EmptySeq
    <3> QED
      BY <3>1, SequenceEmptyOrAppend
  <2>2. Len(t) \in Nat /\ Len(t) + 1 = n + 1
    BY <2>1, AppendProperties
  <2>3. t \in S
    BY <1>2, <2>2
  <2> QED
    BY <2>1, <2>3
<1>3. \A n \in Nat : n \in L
  <2> HIDE DEF L
  <2> QED
    BY <1>1, <1>2, NatAll
<1> QED
  BY <1>3

\* op is a step of a fold with values in D over a sequence of members of E.
IsStep(D, E, op) == op \in [D \X E -> D]

\* f has what a fold over each prefix of s gives.
Values(D, op, base, s, f) ==
    /\ f \in [0..Len(s) -> D] /\ f[0] = base
    /\ \A i \in 1..Len(s) : f[i] = op[<<f[i - 1], s[i]>>]

\* A fold whose steps are a function, which lemmas can have as a parameter.
Fold(D, op, base, s) == (CHOOSE f : Values(D, op, base, s, f))[Len(s)]

\* A step that is typed can be taken to the end of any sequence.
LEMMA ValuesExist ==
  ASSUME NEW D, NEW E, NEW op, IsStep(D, E, op), NEW base \in D, NEW s \in Seq(E)
  PROVE  \E f : Values(D, op, base, s, f)
<1> USE DEF IsStep
<1> DEFINE P(n) == \E f \in [0..n -> D] :
              f[0] = base /\ \A i \in 1..n : f[i] = op[<<f[i - 1], s[i]>>]
           S == {n \in Nat : n <= Len(s) => P(n)}
<1>0. Len(s) \in Nat
  OBVIOUS
<1>1. 0 \in S
  <2>1. PICK f : f = [i \in 0..0 |-> base]
    OBVIOUS
  <2>2. f \in [0..0 -> D] /\ f[0] = base /\ \A i \in 1..0 : f[i] = op[<<f[i - 1], s[i]>>]
    BY <2>1
  <2>3. P(0)
    BY <2>2
  <2> QED
    BY <2>3
<1>2. ASSUME NEW n \in Nat, n \in S PROVE n + 1 \in S
  <2> SUFFICES ASSUME n + 1 <= Len(s) PROVE P(n + 1)
    OBVIOUS
  <2>1. PICK f \in [0..n -> D] :
              f[0] = base /\ \A i \in 1..n : f[i] = op[<<f[i - 1], s[i]>>]
    BY <1>0, <1>2
  <2>2. s[n + 1] \in E /\ f[n] \in D
    BY <1>0, <2>1
  <2>3. PICK v \in D : v = op[<<f[n], s[n + 1]>>]
    BY <2>2
  <2>4. PICK g : g = [i \in 0..(n + 1) |-> IF i = n + 1 THEN v ELSE f[i]]
    OBVIOUS
  <2>5. g \in [0..(n + 1) -> D] /\ g[0] = base
    BY <2>1, <2>4
  <2>6. ASSUME NEW i \in 1..(n + 1) PROVE g[i] = op[<<g[i - 1], s[i]>>]
    <3>1. CASE i = n + 1
      <4>1. g[i] = v /\ g[i - 1] = f[n]
        BY <2>4, <3>1
      <4> QED
        BY <2>3, <3>1, <4>1
    <3>2. CASE i # n + 1
      <4>1. i \in 1..n /\ g[i] = f[i] /\ g[i - 1] = f[i - 1]
        BY <2>4, <3>2
      <4> QED
        BY <2>1, <4>1
    <3> QED
      BY <3>1, <3>2
  <2> QED
    BY <2>5, <2>6
<1>3. Len(s) \in S
  <2> HIDE DEF S
  <2> QED
    BY <1>0, <1>1, <1>2, NatAll
<1> QED
  BY <1>0, <1>3 DEF Values

\* What follows the steps of a fold ends where it does.
LEMMA FoldUnique ==
  ASSUME NEW D, NEW E, NEW op, IsStep(D, E, op), NEW base \in D, NEW s \in Seq(E),
         NEW f, f[0] = base,
         \A i \in 1..Len(s) : f[i - 1] \in D => f[i] = op[<<f[i - 1], s[i]>>]
  PROVE  f[Len(s)] = Fold(D, op, base, s) /\ f[Len(s)] \in D
<1>1. PICK g : Values(D, op, base, s, g) /\ Fold(D, op, base, s) = g[Len(s)]
  BY ValuesExist, Zenon DEF Fold
<1>2. Len(s) \in Nat /\ g \in [0..Len(s) -> D] /\ g[0] = base
  BY <1>1 DEF Values
<1>3. \A i \in 1..Len(s) : g[i] = op[<<g[i - 1], s[i]>>]
  BY <1>1 DEF Values
<1> DEFINE S == {k \in Nat : k <= Len(s) => f[k] = g[k]}
<1>4. 0 \in S
  BY <1>2
<1>5. ASSUME NEW k \in Nat, k \in S PROVE k + 1 \in S
  <2> SUFFICES ASSUME k + 1 <= Len(s) PROVE f[k + 1] = g[k + 1]
    OBVIOUS
  <2>1. k + 1 \in 1..Len(s) /\ (k + 1) - 1 = k /\ f[k] = g[k] /\ g[k] \in D
    BY <1>2, <1>5
  <2> QED
    BY <1>3, <2>1
<1>6. Len(s) \in S
  <2> HIDE DEF S
  <2> QED
    BY <1>2, <1>4, <1>5, NatAll
<1> QED
  BY <1>1, <1>2, <1>6

\* A fold over nothing is its base.
LEMMA FoldNone ==
  ASSUME NEW D, NEW E, NEW op, IsStep(D, E, op), NEW base \in D
  PROVE  Fold(D, op, base, <<>>) = base
<1>1. PICK s \in Seq(E) : s = <<>> /\ Len(s) = 0
  BY EmptySeq
<1>2. PICK g : Values(D, op, base, s, g) /\ Fold(D, op, base, s) = g[Len(s)]
  BY ValuesExist, Zenon DEF Fold
<1> QED
  BY <1>1, <1>2 DEF Values

LEMMA FoldTyped ==
  ASSUME NEW D, NEW E, NEW op, IsStep(D, E, op), NEW base \in D, NEW s \in Seq(E)
  PROVE  Fold(D, op, base, s) \in D
<1>1. PICK g : Values(D, op, base, s, g) /\ Fold(D, op, base, s) = g[Len(s)]
  BY ValuesExist, Zenon DEF Fold
<1> QED
  BY <1>1 DEF Values

\* A fold over one more element is one more step.
LEMMA FoldOne ==
  ASSUME NEW D, NEW E, NEW op, IsStep(D, E, op), NEW base \in D,
         NEW s \in Seq(E), NEW e \in E
  PROVE  Fold(D, op, base, Append(s, e)) = op[<<Fold(D, op, base, s), e>>]
<1>1. PICK t \in Seq(E) : t = Append(s, e)
  BY AppendProperties
<1>2. /\ Len(s) \in Nat /\ Len(t) = Len(s) + 1 /\ t[Len(s) + 1] = e
      /\ \A i \in 1..Len(s) : t[i] = s[i]
  BY <1>1, AppendProperties
<1>3. PICK g : Values(D, op, base, t, g) /\ Fold(D, op, base, t) = g[Len(t)]
  BY ValuesExist, Zenon DEF Fold
<1>4. g[0] = base /\ \A i \in 1..Len(t) : g[i] = op[<<g[i - 1], t[i]>>]
  BY <1>3 DEF Values
<1>5. g[Len(s)] = Fold(D, op, base, s)
  <2>1. \A i \in 1..Len(s) : g[i] = op[<<g[i - 1], s[i]>>]
    BY <1>2, <1>4
  <2> QED
    BY <1>4, <2>1, FoldUnique
<1>6. g[Len(t)] = op[<<g[Len(s)], e>>]
  BY <1>2, <1>4
<1> QED
  BY <1>1, <1>3, <1>5, <1>6

-----------------------------------------------------------------------------
(* AuthorToIRC and IRCToAuthor.                                             *)

LEMMA AppendTyped ==
  ASSUME NEW E, NEW x \in Seq(E), NEW e \in E
  PROVE  Append(x, e) \in Seq(E)
OBVIOUS

LEMMA AppendSome ==
  ASSUME NEW E, NEW x \in Seq(E), NEW e \in E
  PROVE  Append(x, e) \in Seq(E) /\ Append(x, e) # <<>>
BY AppendProperties

\* Three sequences joined, by name: the provers match a name better.
Regroup(S, p, q, r) ==
    /\ p \o q \in Seq(S) /\ q \o r \in Seq(S)
    /\ (p \o q) \o r = p \o (q \o r) /\ p \o (q \o r) \in Seq(S)
LEMMA Regrouped == \A S : \A p, q, r \in Seq(S) : Regroup(S, p, q, r)
<1> SUFFICES ASSUME NEW S, NEW p \in Seq(S), NEW q \in Seq(S), NEW r \in Seq(S)
             PROVE  Regroup(S, p, q, r)
  OBVIOUS
<1> QED
  BY ConcatAssociative, ConcatProperties DEF Regroup

LEMMA Pair == ASSUME NEW S, NEW u \in S, NEW c \in S PROVE <<u, c>> \in Seq(S)
OBVIOUS

\* What is written for a byte of a name.
Code(b) == IF b \in DOMAIN Escaped THEN <<"_", Escaped[b]>> ELSE <<b>>
LEMMA CodeTyped == \A b \in NameBytes : Code(b) \in Seq(NameBytes)
<1> SUFFICES ASSUME NEW b \in NameBytes PROVE Code(b) \in Seq(NameBytes)
  OBVIOUS
<1>1. CASE b \in DOMAIN Escaped
  <2>1. Escaped[b] \in NameBytes /\ "_" \in NameBytes
    BY <1>1 DEF NameBytes, Escaped, Range
  <2>2. Code(b) = <<"_", Escaped[b]>>
    BY <1>1 DEF Code
  <2>3. PICK c \in NameBytes : c = Escaped[b]
    BY <2>1
  <2>4. <<"_", c>> \in Seq(NameBytes)
    BY <2>1, Pair, Zenon
  <2> QED
    BY <2>2, <2>3, <2>4
<1>2. CASE b \notin DOMAIN Escaped
  <2>1. Code(b) = <<b>>
    BY <1>2 DEF Code
  <2> QED
    BY <2>1
<1> QED
  BY <1>1, <1>2

EncodeStep(x, b) == x \o Code(b)

LEMMA EncodeTyped ==
  \A x \in Seq(NameBytes), b \in NameBytes : EncodeStep(x, b) \in Seq(NameBytes)
BY CodeTyped, ConcatProperties DEF EncodeStep

\* Each byte of a name adds what is written for it.
LEMMA EncodeGrows ==
  /\ AuthorToIRC(<<>>) = <<>>
  /\ \A s \in Seq(NameBytes) : AuthorToIRC(s) \in Seq(NameBytes)
  /\ \A s \in Seq(NameBytes), b \in NameBytes :
        AuthorToIRC(Append(s, b)) = EncodeStep(AuthorToIRC(s), b)
<1> DEFINE T == Seq(NameBytes)
           U == NameBytes
           op == [x \in T \X U |-> EncodeStep(x[1], x[2])]
           F(s) == CHOOSE g : g = [i \in 0..Len(s) |->
                                     IF i = 0 THEN <<>> ELSE EncodeStep(g[i - 1], s[i])]
<1>1. <<>> \in T /\ \A x \in T, b \in U : EncodeStep(x, b) \in T
  BY EncodeTyped
<1>2. \A s : AuthorToIRC(s) = F(s)[Len(s)]
  BY DEF AuthorToIRC, Run, EncodeStep, Code
<1> HIDE DEF T, U
<1>3. IsStep(T, U, op) /\ \A x \in T, b \in U : op[<<x, b>>] = EncodeStep(x, b)
  BY <1>1 DEF IsStep
<1> HIDE DEF op
<1>4. ASSUME NEW s \in Seq(U) PROVE AuthorToIRC(s) = Fold(T, op, <<>>, s)
  <2>0. Len(s) \in Nat /\ \A i \in 1..Len(s) : s[i] \in U /\ i # 0 /\ i - 1 \in 0..Len(s)
    OBVIOUS
  <2>1. PICK f : Values(T, op, <<>>, s, f)
    BY <1>1, <1>3, ValuesExist, Zenon
  <2>2. f \in [0..Len(s) -> T] /\ f[0] = <<>>
    BY <2>1 DEF Values
  <2>3. ASSUME NEW i \in 1..Len(s) PROVE f[i] = EncodeStep(f[i - 1], s[i])
    BY <1>3, <2>0, <2>1, <2>2 DEF Values
  <2>4. PICK c : c = <<>>
    OBVIOUS
  <2>5. f = [i \in 0..Len(s) |-> IF i = 0 THEN c ELSE EncodeStep(f[i - 1], s[i])]
    BY <2>2, <2>3, <2>4
  <2>6. F(s) = [i \in 0..Len(s) |-> IF i = 0 THEN <<>> ELSE EncodeStep(F(s)[i - 1], s[i])]
    BY <2>4, <2>5, Zenon
  <2> HIDE DEF F
  <2>7. F(s)[0] = <<>>
    BY <2>0, <2>6
  <2>8. ASSUME NEW i \in 1..Len(s), F(s)[i - 1] \in T
        PROVE  F(s)[i] = op[<<F(s)[i - 1], s[i]>>]
    <3>0. i # 0 /\ i \in 0..Len(s)
      BY <2>0
    <3>1. F(s)[i] = EncodeStep(F(s)[i - 1], s[i])
      BY <2>6, <3>0, Zenon
    <3> QED
      BY <1>3, <2>0, <2>8, <3>1
  <2>9. IsStep(T, U, op) /\ <<>> \in T
    BY <1>1, <1>3
  <2>10. F(s)[Len(s)] = Fold(T, op, <<>>, s)
    BY <2>7, <2>8, <2>9, FoldUnique
  <2> QED
    BY <1>2, <2>10
<1>5. AuthorToIRC(<<>>) = <<>>
  <2>1. AuthorToIRC(<<>>) = Fold(T, op, <<>>, <<>>)
    BY <1>4, EmptySeq, Zenon
  <2> QED
    BY <1>1, <1>3, <2>1, FoldNone
<1>6. ASSUME NEW s \in Seq(U) PROVE AuthorToIRC(s) \in T
  BY <1>1, <1>3, <1>4, FoldTyped
<1>7. ASSUME NEW s \in Seq(U), NEW b \in U
      PROVE  AuthorToIRC(Append(s, b)) = EncodeStep(AuthorToIRC(s), b)
  <2>1. Append(s, b) \in Seq(U)
    BY AppendTyped, Zenon
  <2>2. Fold(T, op, <<>>, Append(s, b)) = op[<<Fold(T, op, <<>>, s), b>>]
    BY <1>1, <1>3, FoldOne
  <2>3. AuthorToIRC(Append(s, b)) = op[<<AuthorToIRC(s), b>>]
    BY <1>4, <2>1, <2>2, Zenon
  <2> QED
    BY <1>3, <1>6, <2>3
<1> QED
  BY <1>5, <1>6, <1>7 DEF T, U

\* What has been read of an IRC name, and whether an escape is open.
Decoding == [out : Seq(NameBytes), esc : BOOLEAN]
NoneDecoded == [out |-> <<>>, esc |-> FALSE]
Decoded(s) == Run(Decode, NoneDecoded, s)

\* No two bytes have the same escape.
LEMMA EscapeInverts ==
  \A b \in DOMAIN Escaped :
     /\ (CHOOSE a \in DOMAIN Escaped : Escaped[a] = Escaped[b]) = b
     /\ Escaped[b] \in Range(Escaped) /\ Escaped[b] \in NameBytes /\ b \in NameBytes
<1>1. \A a, b \in DOMAIN Escaped : Escaped[a] = Escaped[b] => a = b
  BY DEF Escaped
<1>2. ASSUME NEW b \in DOMAIN Escaped
      PROVE  (CHOOSE a \in DOMAIN Escaped : Escaped[a] = Escaped[b]) = b
  BY <1>1
<1>3. \A b \in DOMAIN Escaped : Escaped[b] \in Range(Escaped)
  BY DEF Range
<1> QED
  BY <1>2, <1>3 DEF NameBytes

LEMMA DecodeTyped ==
  \A st \in Decoding, b \in NameBytes : Decode(st, b) \in Decoding
<1> SUFFICES ASSUME NEW st \in Decoding, NEW b \in NameBytes
             PROVE  Decode(st, b) \in Decoding
  OBVIOUS
<1> st.out \in Seq(NameBytes) /\ st.esc \in BOOLEAN
  BY DEF Decoding
<1>1. CASE st.esc /\ b \in Range(Escaped)
  <2>1. PICK a \in DOMAIN Escaped : a = CHOOSE d \in DOMAIN Escaped : Escaped[d] = b
    BY <1>1 DEF Range
  <2>2. a \in NameBytes
    BY <2>1 DEF NameBytes
  <2>3. Decode(st, b) = [out |-> Append(st.out, a), esc |-> FALSE]
    BY <1>1, <2>1 DEF Decode
  <2> QED
    BY <2>2, <2>3 DEF Decoding
<1>2. CASE ~(st.esc /\ b \in Range(Escaped))
  <2>1. PICK u \in NameBytes : u = "_"
    BY DEF NameBytes, Escaped
  <2>2. PICK o : o = IF st.esc THEN Append(st.out, u) ELSE st.out
    OBVIOUS
  <2>3. Decode(st, b) = IF b = "_" THEN [out |-> o, esc |-> TRUE]
                        ELSE [out |-> Append(o, b), esc |-> FALSE]
    BY <1>2, <2>1, <2>2 DEF Decode
  <2>4. o \in Seq(NameBytes)
    BY <2>2
  <2>5. Append(o, b) \in Seq(NameBytes)
    BY <2>4, AppendTyped, Zenon
  <2> HIDE <2>2
  <2>6. CASE b = "_"
    <3>1. Decode(st, b) = [out |-> o, esc |-> TRUE]
      BY <2>3, <2>6
    <3> QED
      BY <2>4, <3>1 DEF Decoding
  <2>7. CASE b # "_"
    <3>1. Decode(st, b) = [out |-> Append(o, b), esc |-> FALSE]
      BY <2>3, <2>7
    <3> QED
      BY <2>5, <3>1 DEF Decoding
  <2> QED
    BY <2>6, <2>7
<1> QED
  BY <1>1, <1>2

\* Each byte of an IRC name takes the decoder one step on.
LEMMA DecodeGrows ==
  /\ Decoded(<<>>) = NoneDecoded
  /\ \A s \in Seq(NameBytes) : Decoded(s) \in Decoding
  /\ \A s \in Seq(NameBytes), b \in NameBytes :
        Decoded(Append(s, b)) = Decode(Decoded(s), b)
<1> DEFINE T == Decoding
           U == NameBytes
           op == [x \in T \X U |-> Decode(x[1], x[2])]
           F(s) == CHOOSE g : g = [i \in 0..Len(s) |->
                                     IF i = 0 THEN NoneDecoded ELSE Decode(g[i - 1], s[i])]
<1>1. NoneDecoded \in T /\ \A x \in T, b \in U : Decode(x, b) \in T
  BY DecodeTyped DEF NoneDecoded, Decoding
<1>2. \A s : Decoded(s) = F(s)[Len(s)]
  BY DEF Decoded, Run
<1> HIDE DEF T, U
<1>3. IsStep(T, U, op) /\ \A x \in T, b \in U : op[<<x, b>>] = Decode(x, b)
  BY <1>1 DEF IsStep
<1> HIDE DEF op
<1>4. ASSUME NEW s \in Seq(U) PROVE Decoded(s) = Fold(T, op, NoneDecoded, s)
  <2>0. Len(s) \in Nat /\ \A i \in 1..Len(s) : s[i] \in U /\ i # 0 /\ i - 1 \in 0..Len(s)
    OBVIOUS
  <2>1. PICK f : Values(T, op, NoneDecoded, s, f)
    BY <1>1, <1>3, ValuesExist, Zenon
  <2>2. f \in [0..Len(s) -> T] /\ f[0] = NoneDecoded
    BY <2>1 DEF Values
  <2>3. ASSUME NEW i \in 1..Len(s) PROVE f[i] = Decode(f[i - 1], s[i])
    BY <1>3, <2>0, <2>1, <2>2 DEF Values
  <2>4. PICK c : c = NoneDecoded
    OBVIOUS
  <2>5. f = [i \in 0..Len(s) |-> IF i = 0 THEN c ELSE Decode(f[i - 1], s[i])]
    BY <2>2, <2>3, <2>4
  <2>6. F(s) = [i \in 0..Len(s) |-> IF i = 0 THEN NoneDecoded ELSE Decode(F(s)[i - 1], s[i])]
    BY <2>4, <2>5, Zenon
  <2> HIDE DEF F
  <2>7. F(s)[0] = NoneDecoded
    BY <2>0, <2>6
  <2>8. ASSUME NEW i \in 1..Len(s), F(s)[i - 1] \in T
        PROVE  F(s)[i] = op[<<F(s)[i - 1], s[i]>>]
    <3>0. i # 0 /\ i \in 0..Len(s)
      BY <2>0
    <3>1. F(s)[i] = Decode(F(s)[i - 1], s[i])
      BY <2>6, <3>0, Zenon
    <3> QED
      BY <1>3, <2>0, <2>8, <3>1
  <2>9. IsStep(T, U, op) /\ NoneDecoded \in T
    BY <1>1, <1>3
  <2>10. F(s)[Len(s)] = Fold(T, op, NoneDecoded, s)
    BY <2>7, <2>8, <2>9, FoldUnique
  <2> QED
    BY <1>2, <2>10
<1>5. Decoded(<<>>) = NoneDecoded
  <2>1. Decoded(<<>>) = Fold(T, op, NoneDecoded, <<>>)
    BY <1>4, EmptySeq, Zenon
  <2> QED
    BY <1>1, <1>3, <2>1, FoldNone
<1>6. ASSUME NEW s \in Seq(U) PROVE Decoded(s) \in T
  BY <1>1, <1>3, <1>4, FoldTyped
<1>7. ASSUME NEW s \in Seq(U), NEW b \in U
      PROVE  Decoded(Append(s, b)) = Decode(Decoded(s), b)
  <2>1. Append(s, b) \in Seq(U)
    BY AppendTyped, Zenon
  <2>2. Fold(T, op, NoneDecoded, Append(s, b)) = op[<<Fold(T, op, NoneDecoded, s), b>>]
    BY <1>1, <1>3, FoldOne
  <2>3. Decoded(Append(s, b)) = op[<<Decoded(s), b>>]
    BY <1>4, <2>1, <2>2, Zenon
  <2> QED
    BY <1>3, <1>6, <2>3
<1> QED
  BY <1>5, <1>6, <1>7 DEF T, U

\* Bytes that mean something in the prefix or the target of a message.
Meaningful == {" ", ":", "#", "!", "@"}

LEMMA RangeGrows ==
  ASSUME NEW E, NEW x \in Seq(E), NEW e \in E
  PROVE  Range(Append(x, e)) = Range(x) \cup {e}
<1>1. PICK y \in Seq(E) : y = Append(x, e)
  BY AppendTyped, Zenon
<1>2. /\ Len(x) \in Nat /\ DOMAIN x = 1..Len(x) /\ DOMAIN y = 1..(Len(x) + 1)
      /\ y[Len(x) + 1] = e /\ \A i \in 1..Len(x) : y[i] = x[i]
  BY <1>1
<1> HIDE <1>1
<1>3. Range(y) = Range(x) \cup {e}
  BY <1>2 DEF Range
<1> QED
  BY <1>1, <1>3

\* An encoded name decodes to the name, and has no byte that means something.
LEMMA NamesInvert ==
  \A s \in Seq(NameBytes) :
     /\ Decoded(AuthorToIRC(s)) = [out |-> s, esc |-> FALSE]
     /\ Range(AuthorToIRC(s)) \cap Meaningful = {}
<1> DEFINE S == {s \in Seq(NameBytes) :
              /\ Decoded(AuthorToIRC(s)) = [out |-> s, esc |-> FALSE]
              /\ Range(AuthorToIRC(s)) \cap Meaningful = {}}
<1>1. <<>> \in S
  BY EncodeGrows, DecodeGrows DEF Range, NoneDecoded
<1>2. ASSUME NEW s \in Seq(NameBytes), NEW b \in NameBytes, s \in S
      PROVE  Append(s, b) \in S
  <2>1. PICK x \in Seq(NameBytes) : x = AuthorToIRC(s)
    BY EncodeGrows
  <2>2. Decoded(x) = [out |-> s, esc |-> FALSE] /\ Range(x) \cap Meaningful = {}
    BY <1>2, <2>1
  <2>3. AuthorToIRC(Append(s, b)) = x \o Code(b)
    BY <2>1, EncodeGrows DEF EncodeStep
  <2>0. Append(s, b) \in Seq(NameBytes)
    BY AppendTyped, Zenon
  <2>4. CASE b \in DOMAIN Escaped
    <3>1. PICK c \in NameBytes : c = Escaped[b]
      BY <2>4, EscapeInverts
    <3>0. PICK u \in NameBytes : u = "_"
      BY DEF NameBytes, Escaped
    <3>2. u \notin Meaningful /\ c \notin Meaningful
      BY <2>4, <3>0, <3>1 DEF Escaped, Meaningful
    <3>3. PICK y \in Seq(NameBytes) : y = Append(x, u)
      BY AppendTyped, Zenon
    <3>4. x \o Code(b) = Append(y, c)
      <4>1. Code(b) = <<u, c>>
        BY <2>4, <3>0, <3>1 DEF Code
      <4> QED
        BY <3>3, <4>1
    <3>5. Decoded(y) = [out |-> s, esc |-> TRUE]
      <4>1. Decoded(y) = Decode([out |-> s, esc |-> FALSE], u)
        BY <2>2, <3>3, DecodeGrows
      <4> QED
        BY <3>0, <4>1 DEF Decode
    <3>6. Decoded(Append(y, c)) = [out |-> Append(s, b), esc |-> FALSE]
      <4>1. Decoded(Append(y, c)) = Decode([out |-> s, esc |-> TRUE], c)
        BY <3>5, DecodeGrows
      <4>2. c \in Range(Escaped) /\ b = CHOOSE a \in DOMAIN Escaped : Escaped[a] = c
        BY <2>4, <3>1, EscapeInverts
      <4> QED
        BY <4>1, <4>2 DEF Decode
    <3>7. Range(Append(y, c)) \cap Meaningful = {}
      <4>1. Range(Append(x, u)) = Range(x) \cup {u}
        BY RangeGrows
      <4>2. Range(Append(y, c)) = Range(y) \cup {c}
        BY RangeGrows
      <4> QED
        BY <2>2, <3>2, <3>3, <4>1, <4>2
    <3> QED
      BY <2>0, <2>3, <3>4, <3>6, <3>7
  <2>5. CASE b \notin DOMAIN Escaped
    <3>1. b # "_" /\ b \notin Meaningful
      BY <2>5 DEF Escaped, Meaningful
    <3>2. x \o Code(b) = Append(x, b)
      BY <2>5 DEF Code
    <3>3. Decoded(Append(x, b)) = Decode([out |-> s, esc |-> FALSE], b)
      BY <2>2, DecodeGrows
    <3>4. Decoded(Append(x, b)) = [out |-> Append(s, b), esc |-> FALSE]
      BY <3>1, <3>3 DEF Decode
    <3>5. Range(Append(x, b)) \cap Meaningful = {}
      <4>1. Range(Append(x, b)) = Range(x) \cup {b}
        BY RangeGrows
      <4> QED
        BY <2>2, <3>1, <4>1
    <3> QED
      BY <2>0, <2>3, <3>2, <3>4, <3>5
  <2> QED
    BY <2>4, <2>5
<1>3. \A s \in Seq(NameBytes) : s \in S
  <2> HIDE DEF S
  <2> QED
    BY <1>1, <1>2, SeqAll
<1> QED
  BY <1>3

\* The body and the name are texts and the length a number, whatever the client and
\* the site choose.
TextTypeOK == messageLen \in Int /\ body \in Seq(Bytes) /\ name \in Seq(NameBytes)

LEMMA TextTyped == TextSpec => []TextTypeOK
<1>1. TextInit => TextTypeOK
  BY TextAssumption, EmptySeq DEF TextInit, TextTypeOK
<1>2. TextTypeOK /\ [TextNext]_textVars => TextTypeOK'
  <2> SUFFICES ASSUME TextTypeOK, [TextNext]_textVars PROVE TextTypeOK'
    OBVIOUS
  <2>1. CASE LongerBody
    BY <2>1 DEF LongerBody, TextTypeOK, Bytes
  <2>2. CASE LongerName
    BY <2>2 DEF LongerName, TextTypeOK
  <2>3. CASE UNCHANGED textVars
    BY <2>3 DEF TextTypeOK, textVars
  <2> QED
    BY <2>1, <2>2, <2>3 DEF TextNext
<1> QED
  BY <1>1, <1>2, PTL DEF TextSpec

LEMMA NameInverts ==
  ASSUME NEW s \in Seq(NameBytes) PROVE IRCToAuthor(AuthorToIRC(s)) = s
<1>1. Decoded(AuthorToIRC(s)) = [out |-> s, esc |-> FALSE]
  BY NamesInvert
<1>2. IRCToAuthor(AuthorToIRC(s))
        = LET st == Decoded(AuthorToIRC(s))
          IN IF st.esc THEN Append(st.out, "_") ELSE st.out
  BY Zenon DEF IRCToAuthor, Decoded, NoneDecoded
<1> QED
  BY <1>1, <1>2

-----------------------------------------------------------------------------
(* SplitAt.                                                                 *)

\* Texts cut at a separator, which is no longer in them.
Cut(A, sep) == Seq(Seq(A \ {sep})) \ {<<>>}
SplitStep(x, b, sep) ==
    IF b = sep THEN Append(x, <<>>) ELSE [x EXCEPT ![Len(x)] = Append(@, b)]

\* A byte added to the last of several texts.
LEMMA LastGrows ==
  ASSUME NEW A, NEW t \in Seq(Seq(A)), NEW w \in Seq(A), NEW b \in A
  PROVE  LET x == Append(t, w)
         IN  [x EXCEPT ![Len(x)] = Append(@, b)] = Append(t, Append(w, b))
<1>1. PICK v \in Seq(A) : v = Append(w, b)
  BY AppendTyped, Zenon
<1>2. PICK x \in Seq(Seq(A)) : x = Append(t, w)
  BY AppendTyped, Zenon
<1>3. PICK y \in Seq(Seq(A)) : y = Append(t, v)
  BY AppendTyped, Zenon
<1>4. /\ Len(t) \in Nat /\ Len(x) = Len(t) + 1 /\ x[Len(x)] = w
      /\ \A i \in 1..Len(t) : x[i] = t[i]
  BY <1>2, AppendProperties
<1>5. Len(y) = Len(t) + 1 /\ y[Len(y)] = v /\ \A i \in 1..Len(t) : y[i] = t[i]
  BY <1>3, <1>4, AppendProperties
<1>6. PICK z : z = [x EXCEPT ![Len(x)] = v]
  OBVIOUS
<1>7. /\ z \in Seq(Seq(A)) /\ Len(z) = Len(x)
      /\ \A i \in 1..Len(x) : z[i] = IF i = Len(x) THEN v ELSE x[i]
  BY <1>4, <1>6, ExceptSeq
<1>8. z = y
  <2>1. ASSUME NEW i \in 1..Len(z) PROVE z[i] = y[i]
    <3>1. CASE i = Len(x)
      BY <1>4, <1>5, <1>7, <3>1
    <3>2. CASE i # Len(x)
      <4>1. i \in 1..Len(t) /\ i \in 1..Len(x)
        BY <1>4, <1>7, <3>2
      <4>2. z[i] = x[i] /\ x[i] = t[i] /\ y[i] = t[i]
        BY <1>4, <1>5, <1>7, <3>2, <4>1
      <4> QED
        BY <4>2
    <3> QED
      BY <3>1, <3>2
  <2> QED
    BY <1>4, <1>5, <1>7, <2>1, SeqEqual
<1> QED
  BY <1>1, <1>2, <1>3, <1>4, <1>6, <1>8

LEMMA SplitTyped ==
  ASSUME NEW A, NEW sep
  PROVE  \A x \in Cut(A, sep), b \in A : SplitStep(x, b, sep) \in Cut(A, sep)
<1> SUFFICES ASSUME NEW x \in Cut(A, sep), NEW b \in A
             PROVE  SplitStep(x, b, sep) \in Cut(A, sep)
  OBVIOUS
<1> DEFINE E == A \ {sep}
<1>1. x \in Seq(Seq(E)) /\ x # <<>>
  BY DEF Cut
<1>2. CASE b = sep
  <2>1. PICK w \in Seq(E) : w = <<>>
    BY EmptySeq
  <2>2. SplitStep(x, b, sep) = Append(x, w)
    BY <1>2, <2>1 DEF SplitStep
  <2> HIDE DEF E
  <2>3. Append(x, w) \in Seq(Seq(E)) /\ Append(x, w) # <<>>
    BY <1>1, AppendSome, Zenon
  <2> QED
    BY <2>2, <2>3 DEF Cut, E
<1>3. CASE b # sep
  <2>1. PICK t \in Seq(Seq(E)), w \in Seq(E) : x = Append(t, w)
    BY <1>1, SequenceEmptyOrAppend, Zenon
  <2>2. b \in E
    BY <1>3
  <2> HIDE DEF E
  <2>3. PICK v \in Seq(E) : v = Append(w, b)
    BY <2>2, AppendTyped, Zenon
  <2>4. SplitStep(x, b, sep) = Append(t, v)
    BY <1>3, <2>1, <2>2, <2>3, LastGrows DEF SplitStep
  <2>5. Append(t, v) \in Seq(Seq(E)) /\ Append(t, v) # <<>>
    BY AppendSome, Zenon
  <2> QED
    BY <2>4, <2>5 DEF Cut, E
<1> QED
  BY <1>2, <1>3

LEMMA SplitBase == ASSUME NEW A, NEW sep PROVE << <<>> >> \in Cut(A, sep)
<1>1. PICK w \in Seq(A \ {sep}) : w = <<>>
  BY EmptySeq
<1> QED
  BY <1>1 DEF Cut

\* strings.Split after one more byte.
LEMMA SplitGrows ==
  ASSUME NEW A, NEW sep
  PROVE  /\ SplitAt(<<>>, sep) = << <<>> >>
         /\ \A s \in Seq(A) : SplitAt(s, sep) \in Cut(A, sep)
         /\ \A s \in Seq(A), b \in A :
               SplitAt(Append(s, b), sep) = SplitStep(SplitAt(s, sep), b, sep)
<1> DEFINE T == Cut(A, sep)
           U == A
           op == [x \in T \X U |-> SplitStep(x[1], x[2], sep)]
           F(s) == CHOOSE g : g = [i \in 0..Len(s) |->
                                     IF i = 0 THEN << <<>> >> ELSE SplitStep(g[i - 1], s[i], sep)]
<1>1. << <<>> >> \in T /\ \A x \in T, b \in U : SplitStep(x, b, sep) \in T
  BY SplitTyped, SplitBase
<1>2. \A s : SplitAt(s, sep) = F(s)[Len(s)]
  BY DEF SplitAt, Run, SplitStep
<1> HIDE DEF T, U
<1>3. IsStep(T, U, op) /\ \A x \in T, b \in U : op[<<x, b>>] = SplitStep(x, b, sep)
  BY <1>1 DEF IsStep
<1> HIDE DEF op
<1>4. ASSUME NEW s \in Seq(U) PROVE SplitAt(s, sep) = Fold(T, op, << <<>> >>, s)
  <2>0. Len(s) \in Nat /\ \A i \in 1..Len(s) : s[i] \in U /\ i # 0 /\ i - 1 \in 0..Len(s)
    OBVIOUS
  <2>1. PICK f : Values(T, op, << <<>> >>, s, f)
    BY <1>1, <1>3, ValuesExist, Zenon
  <2>2. f \in [0..Len(s) -> T] /\ f[0] = << <<>> >>
    BY <2>1 DEF Values
  <2>3. ASSUME NEW i \in 1..Len(s) PROVE f[i] = SplitStep(f[i - 1], s[i], sep)
    BY <1>3, <2>0, <2>1, <2>2 DEF Values
  <2>4. PICK c : c = << <<>> >>
    OBVIOUS
  <2>5. f = [i \in 0..Len(s) |-> IF i = 0 THEN c ELSE SplitStep(f[i - 1], s[i], sep)]
    BY <2>2, <2>3, <2>4
  <2>6. F(s) = [i \in 0..Len(s) |-> IF i = 0 THEN << <<>> >> ELSE SplitStep(F(s)[i - 1], s[i], sep)]
    BY <2>4, <2>5, Zenon
  <2> HIDE DEF F
  <2>7. F(s)[0] = << <<>> >>
    BY <2>0, <2>6
  <2>8. ASSUME NEW i \in 1..Len(s), F(s)[i - 1] \in T
        PROVE  F(s)[i] = op[<<F(s)[i - 1], s[i]>>]
    <3>0. i # 0 /\ i \in 0..Len(s)
      BY <2>0
    <3>1. F(s)[i] = SplitStep(F(s)[i - 1], s[i], sep)
      BY <2>6, <3>0, Zenon
    <3> QED
      BY <1>3, <2>0, <2>8, <3>1
  <2>9. IsStep(T, U, op) /\ << <<>> >> \in T
    BY <1>1, <1>3
  <2>10. F(s)[Len(s)] = Fold(T, op, << <<>> >>, s)
    BY <2>7, <2>8, <2>9, FoldUnique
  <2> QED
    BY <1>2, <2>10
<1>5. SplitAt(<<>>, sep) = << <<>> >>
  <2>1. SplitAt(<<>>, sep) = Fold(T, op, << <<>> >>, <<>>)
    BY <1>4, EmptySeq, Zenon
  <2> QED
    BY <1>1, <1>3, <2>1, FoldNone
<1>6. ASSUME NEW s \in Seq(U) PROVE SplitAt(s, sep) \in T
  BY <1>1, <1>3, <1>4, FoldTyped
<1>7. ASSUME NEW s \in Seq(U), NEW b \in U
      PROVE  SplitAt(Append(s, b), sep) = SplitStep(SplitAt(s, sep), b, sep)
  <2>1. Append(s, b) \in Seq(U)
    BY AppendTyped, Zenon
  <2>2. Fold(T, op, << <<>> >>, Append(s, b)) = op[<<Fold(T, op, << <<>> >>, s), b>>]
    BY <1>1, <1>3, FoldOne
  <2>3. SplitAt(Append(s, b), sep) = op[<<SplitAt(s, sep), b>>]
    BY <1>4, <2>1, <2>2, Zenon
  <2> QED
    BY <1>3, <1>6, <2>3
<1> QED
  BY <1>5, <1>6, <1>7 DEF T, U

\* A text up to a separator and the rest, without one, are cut apart.
LEMMA SplitLast ==
  ASSUME NEW A, NEW sep \in A, NEW t \in Seq(A)
  PROVE  \A w \in Seq(A \ {sep}) :
            /\ SplitAt(w, sep) = <<w>>
            /\ SplitAt(Append(t, sep) \o w, sep) = Append(SplitAt(t, sep), w)
<1> DEFINE E == A \ {sep}
           S == {w \in Seq(E) : /\ SplitAt(w, sep) = <<w>>
                                /\ SplitAt(Append(t, sep) \o w, sep) = Append(SplitAt(t, sep), w)}
<1>1. PICK u \in Seq(A) : u = Append(t, sep)
  BY AppendTyped, Zenon
<1>2. PICK x \in Seq(Seq(E)) : x = SplitAt(t, sep)
  <2>1. SplitAt(t, sep) \in Cut(A, sep)
    BY SplitGrows
  <2> QED
    BY <2>1 DEF Cut
<1>3. PICK none \in Seq(E) : none = <<>>
  BY EmptySeq
<1>4. none \in S
  <2>1. SplitAt(u, sep) = Append(x, none)
    <3>1. SplitAt(u, sep) = SplitStep(x, sep, sep)
      BY <1>1, <1>2, SplitGrows
    <3> QED
      BY <1>3, <3>1 DEF SplitStep
  <2>2. u \o none = u
    BY <1>3, ConcatEmptySeq
  <2>3. SplitAt(none, sep) = <<none>>
    BY <1>3, SplitGrows
  <2> QED
    BY <1>1, <1>2, <2>1, <2>2, <2>3
<1>5. ASSUME NEW w \in Seq(E), NEW b \in E, w \in S
      PROVE  Append(w, b) \in S
  <2>0. b \in A /\ b # sep /\ w \in Seq(A) /\ E \subseteq A
    BY SeqMonotonic
  <2> HIDE DEF E
  <2>1. PICK v \in Seq(E) : v = Append(w, b)
    BY AppendTyped, Zenon
  <2>2. PICK y \in Seq(A) : y = u \o w
    BY <2>0, ConcatProperties
  <2>3. u \o v = Append(y, b)
    BY <2>0, <2>1, <2>2
  <2>4. SplitAt(v, sep) = <<v>>
    <3>1. SplitAt(w, sep) = <<w>>
      BY <1>5
    <3>2. SplitAt(v, sep) = SplitStep(<<w>>, b, sep)
      BY <2>0, <2>1, <3>1, SplitGrows
    <3>3. PICK n \in Seq(Seq(E)) : n = <<>>
      BY EmptySeq
    <3>4. <<w>> = Append(n, w) /\ <<v>> = Append(n, v)
      BY <3>3
    <3> QED
      BY <2>0, <2>1, <3>2, <3>4, LastGrows DEF SplitStep
  <2>5. SplitAt(Append(y, b), sep) = Append(x, v)
    <3>1. SplitAt(y, sep) = Append(x, w)
      BY <1>1, <1>2, <1>5, <2>2
    <3>2. SplitAt(Append(y, b), sep) = SplitStep(Append(x, w), b, sep)
      BY <2>0, <3>1, SplitGrows
    <3> QED
      BY <2>0, <2>1, <3>2, LastGrows DEF SplitStep
  <2> QED
    BY <1>1, <1>2, <2>1, <2>3, <2>4, <2>5
<1>6. \A w \in Seq(E) : w \in S
  <2> HIDE DEF S, E
  <2> QED
    BY <1>3, <1>4, <1>5, SeqAll
<1> QED
  BY <1>6

-----------------------------------------------------------------------------
(* A name as the target of a message.                                       *)

Comma == ","

\* A function of each part, one part more.
Mapped(f, x) == [i \in 1..Len(x) |-> f[x[i]]]
LEMMA MappedGrows ==
  ASSUME NEW W, NEW f \in [W -> W]
  PROVE  \A t \in Seq(W), w \in W :
            /\ Mapped(f, t) \in Seq(W)
            /\ Mapped(f, Append(t, w)) = Append(Mapped(f, t), f[w])
<1> SUFFICES ASSUME NEW t \in Seq(W), NEW w \in W
             PROVE  /\ Mapped(f, t) \in Seq(W)
                    /\ Mapped(f, Append(t, w)) = Append(Mapped(f, t), f[w])
  OBVIOUS
<1>1. PICK x \in Seq(W) : x = Append(t, w)
  BY AppendTyped, Zenon
<1>2. /\ Len(t) \in Nat /\ Len(x) = Len(t) + 1 /\ x[Len(t) + 1] = w
      /\ \A i \in 1..Len(t) : x[i] = t[i] /\ t[i] \in W
  BY <1>1, AppendProperties
<1>3. PICK z \in Seq(W) : z = Mapped(f, t)
  <2>1. Mapped(f, t) \in [1..Len(t) -> W]
    BY <1>2 DEF Mapped
  <2> QED
    BY <1>2, <2>1
<1>4. Len(z) = Len(t) /\ \A i \in 1..Len(t) : z[i] = f[t[i]]
  BY <1>2, <1>3 DEF Mapped
<1>5. PICK y \in Seq(W) : y = Append(z, f[w])
  BY AppendTyped, Zenon
<1>6. /\ Len(y) = Len(t) + 1 /\ y[Len(t) + 1] = f[w]
      /\ \A i \in 1..Len(t) : y[i] = z[i]
  BY <1>4, <1>5, AppendProperties
<1>7. PICK m \in Seq(W) : m = Mapped(f, x)
  <2>1. Mapped(f, x) \in [1..Len(x) -> W]
    BY DEF Mapped
  <2> QED
    BY <1>2, <2>1
<1>8. Len(m) = Len(x) /\ \A i \in 1..Len(x) : m[i] = f[x[i]]
  BY <1>2, <1>7 DEF Mapped
<1>9. m = y
  <2>1. ASSUME NEW i \in 1..Len(m) PROVE m[i] = y[i]
    <3>1. CASE i \in 1..Len(t)
      BY <1>2, <1>4, <1>6, <1>8, <2>1, <3>1
    <3>2. CASE i = Len(t) + 1
      BY <1>2, <1>6, <1>8, <2>1, <3>2
    <3> QED
      BY <1>2, <1>8, <2>1, <3>1, <3>2
  <2> QED
    BY <1>2, <1>6, <1>8, <2>1, SeqEqual
<1> QED
  BY <1>1, <1>3, <1>5, <1>7, <1>9

Encoded(x) == [i \in 1..Len(x) |-> AuthorToIRC(x[i])]

LEMMA EncodedGrows ==
  ASSUME NEW t \in Seq(Seq(NameBytes)), NEW w \in Seq(NameBytes)
  PROVE  /\ Encoded(t) \in Seq(Seq(NameBytes)) /\ AuthorToIRC(w) \in Seq(NameBytes)
         /\ Encoded(Append(t, w)) = Append(Encoded(t), AuthorToIRC(w))
<1>1. \A v \in Seq(NameBytes) : AuthorToIRC(v) \in Seq(NameBytes)
  BY EncodeGrows
<1>2. PICK W : W = Seq(NameBytes)
  OBVIOUS
<1>3. PICK f \in [W -> W] : f = [v \in W |-> AuthorToIRC(v)]
  BY <1>1, <1>2
<1>4. PICK x \in Seq(W) : x = Append(t, w)
  BY <1>2, AppendTyped, Zenon
<1>5. PICK e \in W : e = AuthorToIRC(w) /\ e = f[w]
  BY <1>1, <1>2, <1>3
<1>6. ASSUME NEW s \in Seq(W) PROVE Encoded(s) = Mapped(f, s)
  BY <1>3 DEF Encoded, Mapped
<1>7. PICK z : z = Encoded(t) /\ z = Mapped(f, t)
  BY <1>2, <1>6
<1>8. z \in Seq(W) /\ Mapped(f, x) = Append(z, e)
  <2>1. t \in Seq(W) /\ w \in W
    BY <1>2
  <2> QED
    BY <1>4, <1>5, <1>7, <2>1, MappedGrows
<1>9. Encoded(x) = Append(z, e)
  BY <1>6, <1>8
<1> QED
  BY <1>2, <1>4, <1>5, <1>7, <1>8, <1>9, Zenon

\* A byte other than a comma goes to the last part.
LEMMA NameSplit ==
  \A s \in Seq(NameBytes), t \in Seq(Seq(NameBytes)), w \in Seq(NameBytes), b \in NameBytes :
     b # Comma /\ SplitAt(s, Comma) = Append(t, w) =>
       SplitAt(Append(s, b), Comma) = Append(t, Append(w, b))
<1> SUFFICES ASSUME NEW s \in Seq(NameBytes), NEW t \in Seq(Seq(NameBytes)),
                    NEW w \in Seq(NameBytes), NEW b \in NameBytes,
                    b # Comma, SplitAt(s, Comma) = Append(t, w)
             PROVE  SplitAt(Append(s, b), Comma) = Append(t, Append(w, b))
  OBVIOUS
<1>1. PICK v \in Seq(NameBytes) : v = Append(w, b)
  BY AppendTyped, Zenon
<1>2. SplitAt(Append(s, b), Comma) = SplitStep(Append(t, w), b, Comma)
  BY SplitGrows
<1>3. SplitAt(Append(s, b), Comma) = Append(t, v)
  BY <1>1, <1>2, LastGrows DEF SplitStep
<1> QED
  BY <1>1, <1>3, Zenon

LEMMA TwoAdded ==
  ASSUME NEW S
  PROVE  \A y, p \in Seq(S), u, c \in S : p = Append(y, u) => y \o <<u, c>> = Append(p, c)
OBVIOUS

LEMMA OneAdded ==
  ASSUME NEW S, NEW y \in Seq(S), NEW u \in S
  PROVE  y \o <<u>> = Append(y, u)
OBVIOUS

\* What is written for a byte other than a comma goes to the last part.
LEMMA CodeSplit ==
  ASSUME NEW y \in Seq(NameBytes), NEW t \in Seq(Seq(NameBytes)),
         NEW w \in Seq(NameBytes), SplitAt(y, Comma) = Append(t, w),
         NEW b \in NameBytes, b # Comma
  PROVE  SplitAt(y \o Code(b), Comma) = Append(t, w \o Code(b))
<1>1. ASSUME NEW p \in Seq(NameBytes), NEW v \in Seq(NameBytes), NEW c \in NameBytes,
             SplitAt(p, Comma) = Append(t, v), c # Comma
      PROVE  SplitAt(Append(p, c), Comma) = Append(t, Append(v, c))
  BY <1>1, NameSplit, Zenon
<1>2. CASE b \notin DOMAIN Escaped
  <2>1. Code(b) = <<b>>
    BY <1>2 DEF Code
  <2>2. y \o Code(b) = Append(y, b) /\ w \o Code(b) = Append(w, b)
    BY <2>1, OneAdded
  <2>3. SplitAt(Append(y, b), Comma) = Append(t, Append(w, b))
    BY <1>1
  <2> QED
    BY <2>2, <2>3, Zenon
<1>3. CASE b \in DOMAIN Escaped
  <2>1. PICK c \in NameBytes : c = Escaped[b]
    BY <1>3, EscapeInverts
  <2>2. PICK u \in NameBytes : u = "_"
    BY DEF NameBytes, Escaped
  <2>3. u # Comma /\ c # Comma
      BY <1>3, <2>1, <2>2 DEF Escaped, Comma
  <2>4. PICK p \in Seq(NameBytes) : p = Append(y, u)
    BY AppendTyped, Zenon
  <2>5. PICK v \in Seq(NameBytes) : v = Append(w, u)
    BY AppendTyped, Zenon
  <2>6. SplitAt(p, Comma) = Append(t, v)
    BY <1>1, <2>3, <2>4, <2>5
  <2>7. SplitAt(Append(p, c), Comma) = Append(t, Append(v, c))
    BY <1>1, <2>3, <2>6
  <2>8. Code(b) = <<u, c>>
    BY <1>3, <2>1, <2>2 DEF Code
  <2>9. y \o Code(b) = Append(p, c) /\ w \o Code(b) = Append(v, c)
    <3>1. y \o <<u, c>> = Append(p, c)
      BY <2>4, TwoAdded
    <3>2. w \o <<u, c>> = Append(v, c)
      BY <2>5, TwoAdded
    <3> QED
      BY <2>8, <3>1, <3>2, Zenon
  <2> QED
    BY <2>7, <2>9, Zenon
<1> QED
  BY <1>2, <1>3

\* The parts of an encoded name are the encoded parts of it.
LEMMA EncodedSplits ==
  \A s \in Seq(NameBytes) : SplitAt(AuthorToIRC(s), Comma) = Encoded(SplitAt(s, Comma))
<1> DEFINE S == {s \in Seq(NameBytes) :
                    SplitAt(AuthorToIRC(s), Comma) = Encoded(SplitAt(s, Comma))}
<1>0. PICK none \in Seq(NameBytes) : none = <<>>
  BY EmptySeq
<1>1. none \in S
  <2>1. AuthorToIRC(none) = none /\ SplitAt(none, Comma) = <<none>>
    BY <1>0, EncodeGrows, SplitGrows
  <2>2. Encoded(<<none>>) = <<AuthorToIRC(none)>>
    BY DEF Encoded
  <2> QED
    BY <2>1, <2>2
<1>2. ASSUME NEW s \in Seq(NameBytes), NEW b \in NameBytes, s \in S
      PROVE  Append(s, b) \in S
  <2>1. PICK y \in Seq(NameBytes) : y = AuthorToIRC(s)
    BY EncodeGrows
  <2>2. PICK t \in Seq(Seq(NameBytes)), w \in Seq(NameBytes) : SplitAt(s, Comma) = Append(t, w)
    <3>1. SplitAt(s, Comma) \in Cut(NameBytes, Comma)
      BY SplitGrows
    <3>2. PICK x \in Seq(Seq(NameBytes)) : x = SplitAt(s, Comma) /\ x # <<>>
      <4>1. \A v \in Seq(NameBytes \ {Comma}) : v \in Seq(NameBytes)
        BY SeqMonotonic
      <4>2. Seq(Seq(NameBytes \ {Comma})) \subseteq Seq(Seq(NameBytes))
        BY <4>1, SeqMonotonic
      <4> QED
        BY <3>1, <4>2 DEF Cut
    <3> QED
      BY <3>2, SequenceEmptyOrAppend, Zenon
  <2>12. b # Comma => SplitAt(Append(s, b), Comma) = Append(t, Append(w, b))
    BY <2>2, NameSplit
  <2>3. PICK x \in Seq(Seq(NameBytes)) : x = Append(t, w)
    BY AppendTyped, Zenon
  <2>4. PICK mt \in Seq(Seq(NameBytes)) : mt = Encoded(t)
    BY EncodedGrows
  <2>5. PICK mw \in Seq(NameBytes) : mw = AuthorToIRC(w)
    BY EncodeGrows
  <2>6. SplitAt(y, Comma) = Append(mt, mw) /\ Encoded(x) = Append(mt, mw)
    BY <1>2, <2>1, <2>2, <2>3, <2>4, <2>5, EncodedGrows
  <2>7. AuthorToIRC(Append(s, b)) = y \o Code(b)
    BY <2>1, EncodeGrows DEF EncodeStep
  <2>8. SplitAt(Append(s, b), Comma) = SplitStep(x, b, Comma)
    BY <2>2, <2>3, SplitGrows
  <2>9. Append(s, b) \in Seq(NameBytes)
    BY AppendTyped, Zenon
  <2>10. CASE b = Comma
    <3>1. y \o Code(b) = Append(y, b)
      <4>1. b \notin DOMAIN Escaped
        BY <2>10 DEF Escaped, Comma
      <4>2. Code(b) = <<b>>
        BY <4>1 DEF Code
      <4> QED
        BY <4>2, OneAdded
    <3>2. SplitAt(Append(y, b), Comma) = Append(Append(mt, mw), none)
      <4>1. SplitAt(Append(y, b), Comma) = SplitStep(Append(mt, mw), b, Comma)
        BY <2>6, SplitGrows
      <4> QED
        BY <1>0, <2>10, <4>1 DEF SplitStep
    <3>3. SplitAt(Append(s, b), Comma) = Append(x, none)
      BY <1>0, <2>8, <2>10 DEF SplitStep
    <3>4. Encoded(Append(x, none)) = Append(Encoded(x), AuthorToIRC(none))
      BY EncodedGrows
    <3>5. AuthorToIRC(none) = none
      BY <1>0, EncodeGrows
    <3> QED
      BY <2>6, <2>7, <2>9, <3>1, <3>2, <3>3, <3>4, <3>5
  <2>11. CASE b # Comma
    <3>1. SplitAt(y \o Code(b), Comma) = Append(mt, mw \o Code(b))
      BY <2>6, <2>11, CodeSplit
    <3>2. PICK v \in Seq(NameBytes) : v = Append(w, b)
      BY AppendTyped, Zenon
    <3>3. SplitAt(Append(s, b), Comma) = Append(t, v)
      BY <2>11, <2>12, <3>2
    <3>4. Encoded(Append(t, v)) = Append(mt, AuthorToIRC(v))
      BY <2>4, EncodedGrows
    <3>5. AuthorToIRC(v) = mw \o Code(b)
      BY <2>5, <3>2, EncodeGrows DEF EncodeStep
    <3> QED
      BY <2>7, <2>9, <3>1, <3>3, <3>4, <3>5
  <2> QED
    BY <2>10, <2>11
<1>3. \A s \in Seq(NameBytes) : s \in S
  <2> HIDE DEF S
  <2> QED
    BY <1>0, <1>1, <1>2, SeqAll
<1> QED
  BY <1>3

\* IRCToAuthor takes AuthorToIRC back, what AuthorToIRC writes has no byte that
\* ends a prefix or a parameter, and the recipients of a message to it are the parts
\* of the forum name between its commas, for a name of any length.
THEOREM NamesComeBack == TextSpec => []AuthorsInvert
<1>1. TextTypeOK => AuthorsInvert
  <2> SUFFICES ASSUME name \in Seq(NameBytes) PROVE AuthorsInvert
    BY DEF TextTypeOK
  <2>1. IRCToAuthor(AuthorToIRC(name)) = name
    BY NameInverts
  <2>2. Range(AuthorToIRC(name)) \cap {" ", ":", "#", "!", "@"} = {}
    BY NamesInvert DEF Meaningful
  <2>3. PICK x \in Seq(Seq(NameBytes)) : x = SplitAt(name, Comma)
    <3>1. SplitAt(name, Comma) \in Cut(NameBytes, Comma)
      BY SplitGrows
    <3>2. \A v \in Seq(NameBytes \ {Comma}) : v \in Seq(NameBytes)
      BY SeqMonotonic
    <3>3. Seq(Seq(NameBytes \ {Comma})) \subseteq Seq(Seq(NameBytes))
      BY <3>2, SeqMonotonic
    <3> QED
      BY <3>1, <3>3 DEF Cut
  <2>4. Recipients(AuthorToIRC(name)) = x
    <3>1. SplitAt(AuthorToIRC(name), Comma) = Encoded(x)
      BY <2>3, EncodedSplits
    <3>2. Recipients(AuthorToIRC(name))
            = [i \in DOMAIN Encoded(x) |-> IRCToAuthor(Encoded(x)[i])]
      BY <3>1, Zenon DEF Recipients, Comma
    <3>3. DOMAIN Encoded(x) = 1..Len(x)
      BY DEF Encoded
    <3>4. ASSUME NEW i \in 1..Len(x) PROVE IRCToAuthor(Encoded(x)[i]) = x[i]
      <4>1. Encoded(x)[i] = AuthorToIRC(x[i])
        BY DEF Encoded
      <4>2. x[i] \in Seq(NameBytes)
        OBVIOUS
      <4> QED
        BY <4>1, <4>2, NameInverts
    <3>5. x = [i \in 1..Len(x) |-> x[i]]
      OBVIOUS
    <3> QED
      BY <3>2, <3>3, <3>4, <3>5
  <2> QED
    BY <2>1, <2>2, <2>3, <2>4 DEF AuthorsInvert, Comma
<1> QED
  BY <1>1, TextTyped, PTL

-----------------------------------------------------------------------------
(* WordsOf, LineWords and Joined.                                           *)

\* strings.Fields drops the empty words of strings.Split.
WordStep(out, w) == IF w = <<>> THEN out ELSE Append(out, w)

LEMMA WordTyped ==
  ASSUME NEW V PROVE \A x \in Seq(Seq(V)), w \in Seq(V) : WordStep(x, w) \in Seq(Seq(V))
BY AppendTyped DEF WordStep

LEMMA NonEmptyGrows ==
  ASSUME NEW V
  PROVE  /\ NonEmpty(<<>>) = <<>>
         /\ \A s \in Seq(Seq(V)) : NonEmpty(s) \in Seq(Seq(V))
         /\ \A s \in Seq(Seq(V)), w \in Seq(V) :
               NonEmpty(Append(s, w)) = WordStep(NonEmpty(s), w)
<1> DEFINE T == Seq(Seq(V))
           U == Seq(V)
           op == [x \in T \X U |-> WordStep(x[1], x[2])]
           F(s) == CHOOSE g : g = [i \in 0..Len(s) |->
                                     IF i = 0 THEN <<>> ELSE WordStep(g[i - 1], s[i])]
<1>1. <<>> \in T /\ \A x \in T, w \in U : WordStep(x, w) \in T
  BY WordTyped
<1>2. \A s : NonEmpty(s) = F(s)[Len(s)]
  BY DEF NonEmpty, Run, WordStep
<1> HIDE DEF T, U
<1>3. IsStep(T, U, op) /\ \A x \in T, w \in U : op[<<x, w>>] = WordStep(x, w)
  BY <1>1 DEF IsStep
<1> HIDE DEF op
<1>4. ASSUME NEW s \in Seq(U) PROVE NonEmpty(s) = Fold(T, op, <<>>, s)
  <2>0. Len(s) \in Nat /\ \A i \in 1..Len(s) : s[i] \in U /\ i # 0 /\ i - 1 \in 0..Len(s)
    OBVIOUS
  <2>1. PICK f : Values(T, op, <<>>, s, f)
    BY <1>1, <1>3, ValuesExist, Zenon
  <2>2. f \in [0..Len(s) -> T] /\ f[0] = <<>>
    BY <2>1 DEF Values
  <2>3. ASSUME NEW i \in 1..Len(s) PROVE f[i] = WordStep(f[i - 1], s[i])
    BY <1>3, <2>0, <2>1, <2>2 DEF Values
  <2>4. PICK c : c = <<>>
    OBVIOUS
  <2>5. f = [i \in 0..Len(s) |-> IF i = 0 THEN c ELSE WordStep(f[i - 1], s[i])]
    BY <2>2, <2>3, <2>4
  <2>6. F(s) = [i \in 0..Len(s) |-> IF i = 0 THEN <<>> ELSE WordStep(F(s)[i - 1], s[i])]
    BY <2>4, <2>5, Zenon
  <2> HIDE DEF F
  <2>7. F(s)[0] = <<>>
    BY <2>0, <2>6
  <2>8. ASSUME NEW i \in 1..Len(s), F(s)[i - 1] \in T
        PROVE  F(s)[i] = op[<<F(s)[i - 1], s[i]>>]
    <3>0. i # 0 /\ i \in 0..Len(s)
      BY <2>0
    <3>1. F(s)[i] = WordStep(F(s)[i - 1], s[i])
      BY <2>6, <3>0, Zenon
    <3> QED
      BY <1>3, <2>0, <2>8, <3>1
  <2>9. IsStep(T, U, op) /\ <<>> \in T
    BY <1>1, <1>3
  <2>10. F(s)[Len(s)] = Fold(T, op, <<>>, s)
    BY <2>7, <2>8, <2>9, FoldUnique
  <2> QED
    BY <1>2, <2>10
<1>5. NonEmpty(<<>>) = <<>>
  <2>1. NonEmpty(<<>>) = Fold(T, op, <<>>, <<>>)
    BY <1>4, EmptySeq, Zenon
  <2> QED
    BY <1>1, <1>3, <2>1, FoldNone
<1>6. ASSUME NEW s \in Seq(U) PROVE NonEmpty(s) \in T
  BY <1>1, <1>3, <1>4, FoldTyped
<1>7. ASSUME NEW s \in Seq(U), NEW w \in U
      PROVE  NonEmpty(Append(s, w)) = WordStep(NonEmpty(s), w)
  <2>1. Append(s, w) \in Seq(U)
    BY AppendTyped, Zenon
  <2>2. Fold(T, op, <<>>, Append(s, w)) = op[<<Fold(T, op, <<>>, s), w>>]
    BY <1>1, <1>3, FoldOne
  <2>3. NonEmpty(Append(s, w)) = op[<<NonEmpty(s), w>>]
    BY <1>4, <2>1, <2>2, Zenon
  <2> QED
    BY <1>3, <1>6, <2>3
<1> QED
  BY <1>5, <1>6, <1>7 DEF T, U

\* The words of a text are those before a space and those after it.
LEMMA WordsSplit ==
  ASSUME NEW C, Space \in C, NEW t \in Seq(C), NEW w \in Seq(C \ {Space})
  PROVE  /\ WordsOf(t) \in Seq(Seq(C \ {Space}))
         /\ WordsOf(w) = IF w = <<>> THEN <<>> ELSE <<w>>
         /\ WordsOf(Append(t, Space) \o w) = WordsOf(t) \o WordsOf(w)
<1> DEFINE V == C \ {Space}
<1>1. PICK x \in Seq(Seq(V)) : x = SplitAt(t, Space)
  <2>1. SplitAt(t, Space) \in Cut(C, Space)
    BY SplitGrows
  <2> QED
    BY <2>1 DEF Cut
<1>2. SplitAt(w, Space) = <<w>> /\ SplitAt(Append(t, Space) \o w, Space) = Append(x, w)
  BY <1>1, SplitLast
<1> w \in Seq(V)
  OBVIOUS
<1> HIDE DEF V
<1>3. PICK n \in Seq(Seq(V)) : n = <<>>
  BY EmptySeq
<1>4. PICK y \in Seq(Seq(V)) : y = NonEmpty(x)
  BY NonEmptyGrows
<1>5. NonEmpty(Append(x, w)) = WordStep(y, w)
  BY <1>4, NonEmptyGrows
<1>6. NonEmpty(<<w>>) = WordStep(n, w)
  <2>1. <<w>> = Append(n, w) /\ NonEmpty(n) = n
    BY <1>3, NonEmptyGrows
  <2> QED
    BY <2>1, NonEmptyGrows
<1>7. WordsOf(t) = y /\ WordsOf(w) = WordStep(n, w)
      /\ WordsOf(Append(t, Space) \o w) = WordStep(y, w)
  BY <1>1, <1>2, <1>4, <1>5, <1>6 DEF WordsOf
<1>8. CASE w = <<>>
  BY <1>3, <1>7, <1>8, ConcatEmptySeq DEF WordStep, V
<1>9. CASE w # <<>>
  <2>1. WordStep(n, w) = <<w>> /\ WordStep(y, w) = Append(y, w)
    BY <1>3, <1>9 DEF WordStep
  <2>2. Append(y, w) = y \o <<w>>
    BY AppendIsConcat
  <2> QED
    BY <1>7, <1>9, <2>1, <2>2 DEF V
<1> QED
  BY <1>8, <1>9

\* The words of lines, one line more.
LineStep(out, line) == out \o WordsOf(line)

LEMMA LineTyped ==
  ASSUME NEW C, Space \in C
  PROVE  \A x \in Seq(Seq(C \ {Space})), line \in Seq(C) :
            LineStep(x, line) \in Seq(Seq(C \ {Space}))
<1> SUFFICES ASSUME NEW x \in Seq(Seq(C \ {Space})), NEW line \in Seq(C)
             PROVE  LineStep(x, line) \in Seq(Seq(C \ {Space}))
  OBVIOUS
<1>1. <<>> \in Seq(C \ {Space})
  BY EmptySeq
<1>2. WordsOf(line) \in Seq(Seq(C \ {Space}))
  BY <1>1, WordsSplit
<1> QED
  BY <1>2, ConcatProperties DEF LineStep

LEMMA LineWordsGrows ==
  ASSUME NEW C, Space \in C
  PROVE  /\ LineWords(<<>>) = <<>>
         /\ \A s \in Seq(Seq(C)) : LineWords(s) \in Seq(Seq(C \ {Space}))
         /\ \A s \in Seq(Seq(C)), line \in Seq(C) :
               LineWords(Append(s, line)) = LineStep(LineWords(s), line)
<1> DEFINE T == Seq(Seq(C \ {Space}))
           U == Seq(C)
           op == [x \in T \X U |-> LineStep(x[1], x[2])]
           F(s) == CHOOSE g : g = [i \in 0..Len(s) |->
                                     IF i = 0 THEN <<>> ELSE LineStep(g[i - 1], s[i])]
<1>1. <<>> \in T /\ \A x \in T, line \in U : LineStep(x, line) \in T
  BY LineTyped
<1>2. \A s : LineWords(s) = F(s)[Len(s)]
  BY DEF LineWords, Run, LineStep
<1> HIDE DEF T, U
<1>3. IsStep(T, U, op) /\ \A x \in T, line \in U : op[<<x, line>>] = LineStep(x, line)
  BY <1>1 DEF IsStep
<1> HIDE DEF op
<1>4. ASSUME NEW s \in Seq(U) PROVE LineWords(s) = Fold(T, op, <<>>, s)
  <2>0. Len(s) \in Nat /\ \A i \in 1..Len(s) : s[i] \in U /\ i # 0 /\ i - 1 \in 0..Len(s)
    OBVIOUS
  <2>1. PICK f : Values(T, op, <<>>, s, f)
    BY <1>1, <1>3, ValuesExist, Zenon
  <2>2. f \in [0..Len(s) -> T] /\ f[0] = <<>>
    BY <2>1 DEF Values
  <2>3. ASSUME NEW i \in 1..Len(s) PROVE f[i] = LineStep(f[i - 1], s[i])
    BY <1>3, <2>0, <2>1, <2>2 DEF Values
  <2>4. PICK c : c = <<>>
    OBVIOUS
  <2>5. f = [i \in 0..Len(s) |-> IF i = 0 THEN c ELSE LineStep(f[i - 1], s[i])]
    BY <2>2, <2>3, <2>4
  <2>6. F(s) = [i \in 0..Len(s) |-> IF i = 0 THEN <<>> ELSE LineStep(F(s)[i - 1], s[i])]
    BY <2>4, <2>5, Zenon
  <2> HIDE DEF F
  <2>7. F(s)[0] = <<>>
    BY <2>0, <2>6
  <2>8. ASSUME NEW i \in 1..Len(s), F(s)[i - 1] \in T
        PROVE  F(s)[i] = op[<<F(s)[i - 1], s[i]>>]
    <3>0. i # 0 /\ i \in 0..Len(s)
      BY <2>0
    <3>1. F(s)[i] = LineStep(F(s)[i - 1], s[i])
      BY <2>6, <3>0, Zenon
    <3> QED
      BY <1>3, <2>0, <2>8, <3>1
  <2>9. IsStep(T, U, op) /\ <<>> \in T
    BY <1>1, <1>3
  <2>10. F(s)[Len(s)] = Fold(T, op, <<>>, s)
    BY <2>7, <2>8, <2>9, FoldUnique
  <2> QED
    BY <1>2, <2>10
<1>5. LineWords(<<>>) = <<>>
  <2>1. LineWords(<<>>) = Fold(T, op, <<>>, <<>>)
    BY <1>4, EmptySeq, Zenon
  <2> QED
    BY <1>1, <1>3, <2>1, FoldNone
<1>6. ASSUME NEW s \in Seq(U) PROVE LineWords(s) \in T
  BY <1>1, <1>3, <1>4, FoldTyped
<1>7. ASSUME NEW s \in Seq(U), NEW line \in U
      PROVE  LineWords(Append(s, line)) = LineStep(LineWords(s), line)
  <2>1. Append(s, line) \in Seq(U)
    BY AppendTyped, Zenon
  <2>2. Fold(T, op, <<>>, Append(s, line)) = op[<<Fold(T, op, <<>>, s), line>>]
    BY <1>1, <1>3, FoldOne
  <2>3. LineWords(Append(s, line)) = op[<<LineWords(s), line>>]
    BY <1>4, <2>1, <2>2, Zenon
  <2> QED
    BY <1>3, <1>6, <2>3
<1> QED
  BY <1>5, <1>6, <1>7 DEF T, U

LEMMA ConcatAppend ==
  ASSUME NEW E, NEW a \in Seq(E), NEW b \in Seq(E), NEW e \in E
  PROVE  a \o Append(b, e) = Append(a \o b, e)
OBVIOUS

\* The words of lines and more lines.
LEMMA LineWordsConcat ==
  ASSUME NEW C, Space \in C, NEW a \in Seq(Seq(C))
  PROVE  \A b \in Seq(Seq(C)) : LineWords(a \o b) = LineWords(a) \o LineWords(b)
<1> DEFINE E == Seq(C)
           W == Seq(C \ {Space})
           S == {b \in Seq(E) : LineWords(a \o b) = LineWords(a) \o LineWords(b)}
<1>0. \A x \in Seq(E) : LineWords(x) \in Seq(W)
  BY LineWordsGrows
<1>1. PICK none \in Seq(E) : none = <<>>
  BY EmptySeq
<1>2. none \in S
  <2>1. LineWords(none) = <<>> /\ a \o none = a
    BY <1>1, LineWordsGrows, ConcatEmptySeq
  <2>2. LineWords(a) \o <<>> = LineWords(a)
    BY <1>0, ConcatEmptySeq
  <2> QED
    BY <2>1, <2>2
<1>3. ASSUME NEW b \in Seq(E), NEW line \in E, b \in S
      PROVE  Append(b, line) \in S
  <2>1. PICK c \in Seq(E) : c = a \o b
    BY ConcatProperties
  <2>2. Append(b, line) \in Seq(E) /\ a \o Append(b, line) = Append(c, line)
    <3> HIDE DEF E
    <3> QED
      BY <2>1, ConcatAppend, AppendTyped
  <2>3. PICK p \in Seq(W), q \in Seq(W), r \in Seq(W) :
            p = LineWords(a) /\ q = LineWords(b) /\ r = WordsOf(line)
    <3>1. <<>> \in W
      BY EmptySeq
    <3>2. WordsOf(line) \in Seq(W)
      BY <3>1, WordsSplit
    <3> QED
      BY <1>0, <3>2
  <2>4. LineWords(Append(c, line)) = LineWords(c) \o r /\ LineWords(Append(b, line)) = q \o r
    BY <2>3, LineWordsGrows DEF LineStep
  <2>5. LineWords(c) = p \o q
    BY <1>3, <2>1, <2>3
  <2>6. (p \o q) \o r = p \o (q \o r)
    <3>1. Regroup(W, p, q, r)
      BY Regrouped, Zenon
    <3> QED
      BY <3>1, Zenon DEF Regroup
  <2> QED
    BY <2>2, <2>3, <2>4, <2>5, <2>6
<1>4. \A b \in Seq(E) : b \in S
  <2> HIDE DEF S, E
  <2> QED
    BY <1>1, <1>2, <1>3, SeqAll
<1> QED
  BY <1>4

\* Lines that are words are their own words.
LEMMA LinesAreWords ==
  ASSUME NEW C, Space \in C
  PROVE  \A ws \in Seq(Seq(C \ {Space}) \ {<<>>}) : LineWords(ws) = ws
<1> DEFINE W == Seq(C \ {Space})
           E == W \ {<<>>}
           S == {ws \in Seq(E) : LineWords(ws) = ws}
<1>0. W \subseteq Seq(C)
  BY SeqMonotonic
<1>1. PICK none \in Seq(E) : none = <<>>
  BY EmptySeq
<1>2. none \in S
  BY <1>1, LineWordsGrows
<1>3. ASSUME NEW ws \in Seq(E), NEW w \in E, ws \in S
      PROVE  Append(ws, w) \in S
  <2>1. ws \in Seq(Seq(C)) /\ w \in Seq(C) /\ ws \in Seq(W)
    BY <1>0, SeqMonotonic
  <2>2. WordsOf(w) = <<w>>
    BY <2>1, WordsSplit
  <2>3. LineWords(Append(ws, w)) = ws \o <<w>>
    BY <1>3, <2>1, <2>2, LineWordsGrows DEF LineStep
  <2> HIDE DEF E
  <2>4. Append(ws, w) = ws \o <<w>> /\ Append(ws, w) \in Seq(E)
    BY AppendIsConcat, AppendTyped
  <2> QED
    BY <2>3, <2>4
<1>4. \A ws \in Seq(E) : ws \in S
  <2> HIDE DEF S, E
  <2> QED
    BY <1>1, <1>2, <1>3, SeqAll
<1> QED
  BY <1>4

\* The bytes of words, one word more.
JoinStep(out, w) == out \o w

LEMMA JoinTyped ==
  ASSUME NEW V PROVE \A x \in Seq(V), w \in Seq(V) : JoinStep(x, w) \in Seq(V)
BY ConcatProperties DEF JoinStep

LEMMA JoinedGrows ==
  ASSUME NEW V
  PROVE  /\ Joined(<<>>) = <<>>
         /\ \A s \in Seq(Seq(V)) : Joined(s) \in Seq(V)
         /\ \A s \in Seq(Seq(V)), w \in Seq(V) :
               Joined(Append(s, w)) = JoinStep(Joined(s), w)
<1> DEFINE T == Seq(V)
           U == Seq(V)
           op == [x \in T \X U |-> JoinStep(x[1], x[2])]
           F(s) == CHOOSE g : g = [i \in 0..Len(s) |->
                                     IF i = 0 THEN <<>> ELSE JoinStep(g[i - 1], s[i])]
<1>1. <<>> \in T /\ \A x \in T, w \in U : JoinStep(x, w) \in T
  BY JoinTyped
<1>2. \A s : Joined(s) = F(s)[Len(s)]
  BY DEF Joined, Run, JoinStep
<1> HIDE DEF T, U
<1>3. IsStep(T, U, op) /\ \A x \in T, w \in U : op[<<x, w>>] = JoinStep(x, w)
  BY <1>1 DEF IsStep
<1> HIDE DEF op
<1>4. ASSUME NEW s \in Seq(U) PROVE Joined(s) = Fold(T, op, <<>>, s)
  <2>0. Len(s) \in Nat /\ \A i \in 1..Len(s) : s[i] \in U /\ i # 0 /\ i - 1 \in 0..Len(s)
    OBVIOUS
  <2>1. PICK f : Values(T, op, <<>>, s, f)
    BY <1>1, <1>3, ValuesExist, Zenon
  <2>2. f \in [0..Len(s) -> T] /\ f[0] = <<>>
    BY <2>1 DEF Values
  <2>3. ASSUME NEW i \in 1..Len(s) PROVE f[i] = JoinStep(f[i - 1], s[i])
    BY <1>3, <2>0, <2>1, <2>2 DEF Values
  <2>4. PICK c : c = <<>>
    OBVIOUS
  <2>5. f = [i \in 0..Len(s) |-> IF i = 0 THEN c ELSE JoinStep(f[i - 1], s[i])]
    BY <2>2, <2>3, <2>4
  <2>6. F(s) = [i \in 0..Len(s) |-> IF i = 0 THEN <<>> ELSE JoinStep(F(s)[i - 1], s[i])]
    BY <2>4, <2>5, Zenon
  <2> HIDE DEF F
  <2>7. F(s)[0] = <<>>
    BY <2>0, <2>6
  <2>8. ASSUME NEW i \in 1..Len(s), F(s)[i - 1] \in T
        PROVE  F(s)[i] = op[<<F(s)[i - 1], s[i]>>]
    <3>0. i # 0 /\ i \in 0..Len(s)
      BY <2>0
    <3>1. F(s)[i] = JoinStep(F(s)[i - 1], s[i])
      BY <2>6, <3>0, Zenon
    <3> QED
      BY <1>3, <2>0, <2>8, <3>1
  <2>9. IsStep(T, U, op) /\ <<>> \in T
    BY <1>1, <1>3
  <2>10. F(s)[Len(s)] = Fold(T, op, <<>>, s)
    BY <2>7, <2>8, <2>9, FoldUnique
  <2> QED
    BY <1>2, <2>10
<1>5. Joined(<<>>) = <<>>
  <2>1. Joined(<<>>) = Fold(T, op, <<>>, <<>>)
    BY <1>4, EmptySeq, Zenon
  <2> QED
    BY <1>1, <1>3, <2>1, FoldNone
<1>6. ASSUME NEW s \in Seq(U) PROVE Joined(s) \in T
  BY <1>1, <1>3, <1>4, FoldTyped
<1>7. ASSUME NEW s \in Seq(U), NEW w \in U
      PROVE  Joined(Append(s, w)) = JoinStep(Joined(s), w)
  <2>1. Append(s, w) \in Seq(U)
    BY AppendTyped, Zenon
  <2>2. Fold(T, op, <<>>, Append(s, w)) = op[<<Fold(T, op, <<>>, s), w>>]
    BY <1>1, <1>3, FoldOne
  <2>3. Joined(Append(s, w)) = op[<<Joined(s), w>>]
    BY <1>4, <2>1, <2>2, Zenon
  <2> QED
    BY <1>3, <1>6, <2>3
<1> QED
  BY <1>5, <1>6, <1>7 DEF T, U

LEMMA JoinedConcat ==
  ASSUME NEW V, NEW a \in Seq(Seq(V))
  PROVE  \A b \in Seq(Seq(V)) : Joined(a \o b) = Joined(a) \o Joined(b)
<1> DEFINE E == Seq(V)
           S == {b \in Seq(E) : Joined(a \o b) = Joined(a) \o Joined(b)}
<1>0. \A x \in Seq(E) : Joined(x) \in Seq(V)
  BY JoinedGrows
<1>1. PICK none \in Seq(E) : none = <<>>
  BY EmptySeq
<1>2. none \in S
  <2>1. Joined(none) = <<>> /\ a \o none = a
    BY <1>1, JoinedGrows, ConcatEmptySeq
  <2>2. Joined(a) \o <<>> = Joined(a)
    BY <1>0, ConcatEmptySeq
  <2> QED
    BY <2>1, <2>2
<1>3. ASSUME NEW b \in Seq(E), NEW w \in E, b \in S
      PROVE  Append(b, w) \in S
  <2>1. PICK c \in Seq(E) : c = a \o b
    BY ConcatProperties
  <2>2. Append(b, w) \in Seq(E) /\ a \o Append(b, w) = Append(c, w)
    <3> HIDE DEF E
    <3> QED
      BY <2>1, ConcatAppend, AppendTyped
  <2>3. PICK p \in Seq(V), q \in Seq(V) : p = Joined(a) /\ q = Joined(b)
    BY <1>0
  <2>4. Joined(Append(c, w)) = Joined(c) \o w /\ Joined(Append(b, w)) = q \o w
    BY <2>3, JoinedGrows DEF JoinStep
  <2>5. Joined(c) = p \o q
    BY <1>3, <2>1, <2>3
  <2>6. (p \o q) \o w = p \o (q \o w)
    <3>1. Regroup(V, p, q, w)
      BY Regrouped, Zenon
    <3> QED
      BY <3>1, Zenon DEF Regroup
  <2> QED
    BY <2>2, <2>3, <2>4, <2>5, <2>6
<1>4. \A b \in Seq(E) : b \in S
  <2> HIDE DEF S, E
  <2> QED
    BY <1>1, <1>2, <1>3, SeqAll
<1> QED
  BY <1>4

-----------------------------------------------------------------------------
(* A word longer than a message.                                            *)

LEMMA Quotient ==
  ASSUME NEW m \in Nat \ {0}, NEW l \in Nat
  PROVE  l \div m \in Nat /\ (l \div m) * m <= l /\ l < (l \div m) * m + m
OBVIOUS

LEMMA Multiples ==
  ASSUME NEW m \in Nat \ {0}, NEW n \in Nat, NEW k \in 1..n
  PROVE  /\ (k - 1) * m \in Nat /\ k * m \in Nat /\ n * m \in Nat
         /\ (k - 1) * m + m = k * m /\ k * m <= n * m
<1>1. n * m \in Nat /\ k * m \in Nat /\ (k - 1) * m \in Nat /\ (n - k) * m \in Nat
  OBVIOUS
<1>2. (k - 1) * m + m = k * m
  OBVIOUS
<1>3. (n - k) * m + k * m = n * m
  OBVIOUS
<1> QED
  BY <1>1, <1>2, <1>3

\* A message has room for text.
Room == messageLen \in Nat \ {0}

\* How many full lines a word gives.
FullCount(word) == IF word = <<>> THEN 0 ELSE (Len(word) - 1) \div messageLen

\* A word is its full lines and what remains.
LEMMA WordCut ==
  ASSUME Room, NEW V, NEW word \in Seq(V)
  PROVE  /\ FullLines(word) \in Seq({w \in Seq(V) : Len(w) = messageLen})
         /\ Remainder(word) \in Seq(V) /\ Len(Remainder(word)) <= messageLen
         /\ Joined(FullLines(word)) \o Remainder(word) = word
         /\ Len(word) <= messageLen => FullLines(word) = <<>> /\ Remainder(word) = word
<1> DEFINE m == messageLen
           L == Len(word)
           full == FullLines(word)
           Full == {w \in Seq(V) : Len(w) = m}
<1>0. m \in Nat \ {0} /\ L \in Nat
  BY DEF Room
<1>1. PICK n : n = FullCount(word)
  OBVIOUS
<1>2. /\ n \in Nat /\ n * m \in Nat /\ n * m <= L /\ L <= n * m + m
      /\ L <= m => n = 0
  <2>1. CASE word = <<>>
    <3>1. n = 0 /\ L = 0
      BY <1>1, <2>1, EmptySeq DEF FullCount
    <3> QED
      BY <1>0, <3>1
  <2>2. CASE word # <<>>
    <3>1. L \in Nat \ {0}
      BY <2>2, EmptySeq
    <3>2. PICK l \in Nat : l = L - 1
      BY <3>1
    <3>3. n = l \div m
      BY <1>1, <2>2, <3>2 DEF FullCount
    <3>4. n \in Nat /\ n * m <= l /\ l < n * m + m
      BY <1>0, <3>3, Quotient
    <3>5. L <= m => n = 0
      <4> SUFFICES ASSUME L <= m, n # 0 PROVE FALSE
        OBVIOUS
      <4>1. 1 \in 1..n
        BY <3>4
      <4>2. 1 * m <= n * m
        BY <1>0, <3>4, <4>1, Multiples
      <4> QED
        BY <1>0, <3>2, <3>4, <4>2
    <3> QED
      BY <1>0, <3>2, <3>4, <3>5
  <2> QED
    BY <2>1, <2>2
<1>3. full = [k \in 1..n |-> SubSeq(word, (k - 1) * m + 1, k * m)]
  BY <1>1 DEF FullLines, FullCount
<1>4. ASSUME NEW k \in 1..n
      PROVE  /\ (k - 1) * m \in Nat /\ k * m \in Nat /\ (k - 1) * m + m = k * m /\ k * m <= L
             /\ full[k] = SubSeq(word, (k - 1) * m + 1, k * m) /\ full[k] \in Full
  <2>1. /\ (k - 1) * m \in Nat /\ k * m \in Nat
        /\ (k - 1) * m + m = k * m /\ k * m <= n * m
    BY <1>0, <1>2, Multiples
  <2>2. PICK a \in Nat, b \in Nat : a = (k - 1) * m /\ b = k * m
    BY <2>1
  <2>3. full[k] = SubSeq(word, a + 1, b)
    BY <1>3, <2>2
  <2>4. a + m = b /\ b <= L
    BY <1>2, <2>1, <2>2
  <2>5. SubSeq(word, a + 1, b) \in Seq(V) /\ Len(SubSeq(word, a + 1, b)) = m
    <3>1. \A i \in (a + 1)..b : word[i] \in V
      BY <1>0, <2>4
    <3> QED
      BY <1>0, <2>4, <3>1, SubSeqProperties
  <2> QED
    BY <2>1, <2>2, <2>3, <2>4, <2>5
<1>5. full \in Seq(Full)
  <2> HIDE DEF Full, full
  <2> QED
    BY <1>2, <1>3, <1>4
<1>6. Len(full) = n
  BY <1>2, <1>3
<1>7. Remainder(word) = SubSeq(word, n * m + 1, L)
  BY <1>6 DEF Remainder
<1>8. Remainder(word) \in Seq(V) /\ Len(Remainder(word)) = L - n * m
  <2>1. PICK a \in Nat : a = n * m
    BY <1>2
  <2>2. \A i \in (a + 1)..L : word[i] \in V
    BY <1>0, <2>1
  <2>3. a <= L
    BY <1>2, <2>1
  <2> QED
    BY <1>0, <1>7, <2>1, <2>2, <2>3, SubSeqProperties
<1>9. Joined(full) \o Remainder(word) = word
  <2> DEFINE S == {k \in Nat : k <= n => Joined(SubSeq(full, 1, k)) = SubSeq(word, 1, k * m)}
  <2>0. full \in Seq(Seq(V))
    BY <1>5, SeqMonotonic
  <2> HIDE DEF full
  <2>1. 0 \in S
    <3>1. SubSeq(full, 1, 0) = <<>> /\ SubSeq(word, 1, 0) = <<>>
      BY SubSeqEmpty
    <3>2. Joined(<<>>) = <<>> /\ 0 * m = 0
      BY <1>0, JoinedGrows
    <3> QED
      BY <3>1, <3>2
  <2>2. ASSUME NEW j \in Nat, j \in S PROVE j + 1 \in S
    <3> SUFFICES ASSUME j + 1 <= n
                 PROVE  Joined(SubSeq(full, 1, j + 1)) = SubSeq(word, 1, (j + 1) * m)
      OBVIOUS
    <3>1. PICK k \in 1..n : k = j + 1 /\ k - 1 = j
      BY <1>2
    <3>2. PICK a \in Nat, b \in Nat : a = j * m /\ b = k * m
      BY <1>4, <3>1
    <3>3. a + m = b /\ b <= L /\ full[k] = SubSeq(word, a + 1, b)
      BY <1>4, <3>1, <3>2
    <3>4. PICK t \in Seq(Seq(V)) : t = SubSeq(full, 1, j)
      <4>1. \A i \in 1..j : full[i] \in Seq(V)
        BY <1>2, <1>6, <2>0, <3>1
      <4>2. SubSeq(full, 1, j) \in Seq(Seq(V))
        <5> DEFINE W == Seq(V)
        <5> \A i \in 1..j : full[i] \in W
          BY <4>1
        <5> HIDE DEF W
        <5>1. SubSeq(full, 1, j) \in Seq(W)
          BY SubSeqProperties
        <5> QED
          BY <5>1 DEF W
      <4> QED
        BY <4>2
    <3>5. full[k] \in Seq(V)
      BY <1>2, <1>6, <2>0, <3>1
    <3>6. SubSeq(full, 1, k) = Append(t, full[k])
      <4>1. SubSeq(full, 1, k) = SubSeq(full, 1, k - 1) \o <<full[k]>>
        BY <1>2, <1>6, <2>0, <3>1, SubSeqRecursiveSecond
      <4> QED
        BY <3>1, <3>4, <3>5, <4>1, AppendIsConcat
    <3>7. Joined(Append(t, full[k])) = Joined(t) \o full[k]
      BY <3>4, <3>5, JoinedGrows DEF JoinStep
    <3>8. Joined(t) = SubSeq(word, 1, a)
      BY <1>2, <2>2, <3>1, <3>2, <3>4
    <3>9. SubSeq(word, 1, a) \o SubSeq(word, a + 1, b) = SubSeq(word, 1, b)
      BY <1>0, <3>3, ConcatAdjacentSubSeq
    <3> QED
      BY <3>1, <3>2, <3>3, <3>6, <3>7, <3>8, <3>9
  <2>3. n \in S
    <3> HIDE DEF S
    <3> QED
      BY <1>2, <2>1, <2>2, NatAll
  <2>4. SubSeq(full, 1, n) = full
    BY <1>6, <2>0, SubSeqFull
  <2>5. PICK a \in Nat : a = n * m
    BY <1>2
  <2>6. SubSeq(word, 1, a) \o SubSeq(word, a + 1, L) = SubSeq(word, 1, L)
    <3>1. 1 \in 1..(L + 1) /\ a \in (1 - 1)..L /\ L \in a..L
      BY <1>0, <1>2, <2>5
    <3> QED
      BY <3>1, ConcatAdjacentSubSeq
  <2>7. SubSeq(word, 1, L) = word
    BY SubSeqFull
  <2> QED
    <3>1. Joined(full) = SubSeq(word, 1, a)
      <4>1. Joined(SubSeq(full, 1, n)) = SubSeq(word, 1, n * m)
        BY <1>2, <2>3
      <4> QED
        BY <2>4, <2>5, <4>1
    <3>2. Remainder(word) = SubSeq(word, a + 1, L)
      BY <1>7, <2>5
    <3> QED
      BY <2>6, <2>7, <3>1, <3>2
<1>10. ASSUME L <= m PROVE full = <<>> /\ Remainder(word) = word
  <2>1. n = 0 /\ 0 * m = 0
    BY <1>0, <1>2, <1>10
  <2>2. full = <<>>
    <3> HIDE DEF full
    <3> QED
      BY <1>5, <1>6, <2>1, EmptySeq
  <2>3. SubSeq(word, 1, L) = word
    BY SubSeqFull
  <2> QED
    BY <1>7, <2>1, <2>2, <2>3
<1>11. Len(Remainder(word)) <= m
  BY <1>0, <1>2, <1>8
<1> QED
  BY <1>5, <1>8, <1>9, <1>10, <1>11

-----------------------------------------------------------------------------
(* AddWord and Flush.                                                       *)

\* Lines that fit in a message, and what AddWord makes of words.
Fit(C) == {line \in Seq(C) : Len(line) <= messageLen}
Filling(C) == [lines : Seq(Fit(C)), b : Fit(C)]
NoneFilled == [lines |-> <<>>, b |-> <<>>]
\* The words that AddWord has put in lines so far.
Out(st) == LineWords(st.lines) \o WordsOf(st.b)

LEMMA EmptyFits == ASSUME Room, NEW C PROVE <<>> \in Fit(C) /\ <<>> \in Seq(Fit(C))
<1>1. PICK n \in Seq(C) : n = <<>> /\ Len(n) = 0
  BY EmptySeq
<1>2. n \in Fit(C)
  BY <1>1 DEF Room, Fit
<1> QED
  BY <1>1, <1>2, EmptySeq

\* A text without spaces is one word or none.
LEMMA JoinedWords ==
  ASSUME NEW C, Space \in C, NEW w \in Seq(C \ {Space})
  PROVE  /\ WordsOf(w) \in Seq(Seq(C \ {Space})) /\ Joined(WordsOf(w)) = w
         /\ WordsOf(w) = IF w = <<>> THEN <<>> ELSE <<w>>
<1> DEFINE V == C \ {Space}
<1>1. PICK n \in Seq(C) : n = <<>>
  BY EmptySeq
<1>2. WordsOf(w) = IF w = <<>> THEN <<>> ELSE <<w>>
  BY <1>1, WordsSplit
<1> w \in Seq(V)
  OBVIOUS
<1> HIDE DEF V
<1>3. PICK x \in Seq(Seq(V)) : x = <<>>
  BY EmptySeq
<1>4. CASE w = <<>>
  BY <1>2, <1>3, <1>4, JoinedGrows DEF V
<1>5. CASE w # <<>>
  <2>1. WordsOf(w) = Append(x, w)
    BY <1>2, <1>3, <1>5
  <2>2. Joined(x) = <<>> /\ Joined(Append(x, w)) = Joined(x) \o w
    BY <1>3, JoinedGrows DEF JoinStep
  <2>3. <<>> \o w = w
    BY ConcatEmptySeq
  <2>4. Append(x, w) \in Seq(Seq(V))
    BY AppendTyped, Zenon
  <2> QED
    BY <1>2, <2>1, <2>2, <2>3, <2>4 DEF V
<1> QED
  BY <1>4, <1>5

\* A flush moves the words of the line that was being filled.
LEMMA FlushKeeps ==
  ASSUME Room, NEW C, Space \in C, NEW st \in Filling(C)
  PROVE  Flush(st) \in Filling(C) /\ Out(Flush(st)) = Out(st)
<1> DEFINE W == Seq(C \ {Space})
           ls == Append(st.lines, st.b)
<1>1. st.lines \in Seq(Fit(C)) /\ st.b \in Fit(C)
  BY DEF Filling
<1>2. st.lines \in Seq(Seq(C)) /\ st.b \in Seq(C)
  BY <1>1, SeqMonotonic DEF Fit
<1>3. PICK n \in Fit(C) : n = <<>>
  BY EmptyFits
<1>4. ls \in Seq(Fit(C))
  BY <1>1, AppendTyped, Zenon
<1>5. Flush(st) \in Filling(C) /\ Flush(st).lines = ls /\ Flush(st).b = n
  BY <1>3, <1>4 DEF Flush, Filling
<1>6. LineWords(ls) = LineWords(st.lines) \o WordsOf(st.b)
  BY <1>2, LineWordsGrows DEF LineStep
<1>7. PICK x \in Seq(W) : x = LineWords(ls)
  <2>1. ls \in Seq(Seq(C))
    BY <1>4, SeqMonotonic DEF Fit
  <2> QED
    BY <2>1, LineWordsGrows
<1>8. WordsOf(n) = <<>>
  <2>1. n \in W
    BY <1>3, EmptySeq
  <2> QED
    BY <1>3, <2>1, JoinedWords
<1>9. x \o <<>> = x
  BY ConcatEmptySeq
<1> QED
  BY <1>5, <1>6, <1>7, <1>8, <1>9 DEF Out

\* A word is added to what was there, whole if it fits.
LEMMA AddWordKeeps ==
  ASSUME Room, NEW C, Space \in C, NEW st \in Filling(C), NEW w \in Seq(C \ {Space})
  PROVE  LET next == AddWord(st, w)
         IN  /\ next \in Filling(C)
             /\ Out(st) \in Seq(Seq(C \ {Space})) /\ Out(next) \in Seq(Seq(C \ {Space}))
             /\ Joined(Out(next)) = Joined(Out(st)) \o w
             /\ Len(w) <= messageLen => Out(next) = Out(st) \o WordsOf(w)
<1> DEFINE V == C \ {Space}
           W == Seq(V)
           next == AddWord(st, w)
<1>0. messageLen \in Nat \ {0} /\ Len(w) \in Nat /\ V \subseteq C
  BY DEF Room
<1>1. PICK f : f = IF Tight(st, w) THEN Flush(st) ELSE st
  OBVIOUS
<1>2. f \in Filling(C) /\ Out(f) = Out(st)
  BY <1>1, FlushKeeps
<1>3. f.lines \in Seq(Fit(C)) /\ f.b \in Fit(C)
  BY <1>2 DEF Filling
<1>4. f.b = <<>> \/ (f.b # <<>> /\ Len(f.b) + 1 + Len(w) <= messageLen)
  BY <1>0, <1>1, <1>3 DEF Tight, Flush, Fit
<1>5. PICK full : full = FullLines(w)
  OBVIOUS
<1>6. PICK last : last = Remainder(w)
  OBVIOUS
<1>7. /\ full \in Seq({v \in W : Len(v) = messageLen})
      /\ last \in W /\ Len(last) <= messageLen /\ Joined(full) \o last = w
      /\ Len(w) <= messageLen => full = <<>> /\ last = w
  BY <1>5, <1>6, WordCut
<1>8. full \in Seq(Fit(C)) /\ full \in Seq(W \ {<<>>}) /\ full \in Seq(W) /\ full \in Seq(Seq(C))
  <2>1. W \subseteq Seq(C)
    BY <1>0, SeqMonotonic
  <2>2. {v \in W : Len(v) = messageLen} \subseteq Fit(C)
    BY <1>0, <2>1 DEF Fit
  <2>3. {v \in W : Len(v) = messageLen} \subseteq W \ {<<>>}
    BY <1>0, EmptySeq
  <2>4. PICK U : full \in Seq(U) /\ U \subseteq Fit(C) /\ U \subseteq W \ {<<>>}
    BY <1>7, <2>2, <2>3
  <2>5. U \subseteq W /\ U \subseteq Seq(C)
    BY <2>1, <2>4
  <2> QED
    BY <2>4, <2>5, SeqMonotonic
<1>9. next = [lines |-> f.lines \o full,
              b |-> IF f.b = <<>> THEN last ELSE f.b \o <<Space>> \o last]
  BY <1>1, <1>5, <1>6 DEF AddWord
<1>10. f.lines \in Seq(Seq(C)) /\ f.b \in Seq(C) /\ last \in Seq(C)
  <2>1. f.lines \in Seq(Seq(C))
    BY <1>3, SeqMonotonic DEF Fit
  <2>2. last \in Seq(C)
    BY <1>0, <1>7, SeqMonotonic
  <2> QED
    BY <1>3, <2>1, <2>2 DEF Fit
<1>11. PICK lw \in Seq(W) : lw = LineWords(f.lines)
  BY <1>10, LineWordsGrows
<1>12. PICK bw \in Seq(W) : bw = WordsOf(f.b)
  <2>1. <<>> \in W
    BY EmptySeq
  <2> QED
    BY <1>10, <2>1, WordsSplit
<1>13. Out(st) = lw \o bw
  BY <1>2, <1>11, <1>12 DEF Out
<1>14. LineWords(f.lines \o full) = lw \o full
  <2>1. LineWords(f.lines \o full) = LineWords(f.lines) \o LineWords(full)
    BY <1>8, <1>10, LineWordsConcat
  <2>2. LineWords(full) = full
    BY <1>8, LinesAreWords
  <2> QED
    BY <1>11, <2>1, <2>2
<1>15. f.lines \o full \in Seq(Fit(C))
  BY <1>3, <1>8, ConcatProperties
<1>16. PICK ww \in Seq(W) : ww = WordsOf(w)
  BY JoinedWords
<1>17. Joined(ww) = w
  BY <1>16, JoinedWords
<1>18. CASE f.b = <<>>
  <2>1. PICK r \in Seq(W) : r = WordsOf(last) /\ Joined(r) = last
    BY <1>7, JoinedWords
  <2>2. bw = <<>>
    <3>1. <<>> \in W
      BY EmptySeq
    <3> QED
      BY <1>12, <1>18, <3>1, JoinedWords
  <2>3. next.lines = f.lines \o full /\ next.b = last
    BY <1>9, <1>18
  <2>4. next \in Filling(C)
    BY <1>7, <1>9, <1>10, <1>15, <1>18 DEF Filling, Fit
  <2>5. Out(next) = (lw \o full) \o r
    BY <1>14, <2>1, <2>3 DEF Out
  <2> HIDE DEF W
  <2>6. Out(st) = lw
    BY <1>13, <2>2, ConcatEmptySeq
  <2>7. (lw \o full) \o r = lw \o (full \o r) /\ full \o r \in Seq(W) /\ lw \o (full \o r) \in Seq(W)
    <3>1. Regroup(W, lw, full, r)
      BY <1>8, Regrouped, Zenon
    <3> QED
      BY <3>1, Zenon DEF Regroup
  <2>8. Joined((lw \o full) \o r) = Joined(lw) \o (Joined(full) \o Joined(r))
    <3>1. Joined(lw \o (full \o r)) = Joined(lw) \o Joined(full \o r)
      BY <2>7, JoinedConcat DEF W
    <3>2. Joined(full \o r) = Joined(full) \o Joined(r)
      BY <1>8, JoinedConcat DEF W
    <3> QED
      BY <2>7, <3>1, <3>2
  <2>9. ASSUME Len(w) <= messageLen PROVE Out(next) = Out(st) \o WordsOf(w)
    <3>1. full = <<>> /\ r = ww
      BY <1>7, <1>16, <2>1, <2>9
    <3>2. lw \o full = lw
      BY <3>1, ConcatEmptySeq
    <3> QED
      BY <1>16, <2>5, <2>6, <3>1, <3>2
  <2> QED
    BY <1>7, <2>1, <2>4, <2>5, <2>6, <2>7, <2>8, <2>9 DEF W
<1>19. CASE f.b # <<>> /\ Len(f.b) + 1 + Len(w) <= messageLen
  <2>1. Len(f.b) \in Nat
    BY <1>10
  <2>2. full = <<>> /\ last = w
    BY <1>0, <1>7, <1>19, <2>1
  <2>3. f.lines \o full = f.lines
    BY <1>10, <2>2, ConcatEmptySeq
  <2>4. PICK x \in Seq(C) : x = Append(f.b, Space)
    BY <1>10, AppendTyped, Zenon
  <2>5. f.b \o <<Space>> = x /\ Len(x) = Len(f.b) + 1
    BY <1>10, <2>4, AppendIsConcat, AppendProperties
  <2>6. PICK y \in Seq(C) : y = x \o w
    BY <1>10, <2>2, ConcatProperties
  <2>7. y \in Fit(C)
    <3>1. Len(y) = Len(x) + Len(w)
      BY <1>10, <2>2, <2>6, ConcatProperties
    <3> QED
      BY <1>0, <1>19, <2>1, <2>5, <3>1 DEF Fit
  <2>8. next = [lines |-> f.lines, b |-> y]
    BY <1>9, <1>19, <2>2, <2>3, <2>5, <2>6
  <2>9. next \in Filling(C)
    BY <1>3, <2>7, <2>8 DEF Filling
  <2>10. WordsOf(y) = bw \o ww
    BY <1>10, <1>12, <1>16, <2>4, <2>6, WordsSplit
  <2>11. Out(next) = lw \o (bw \o ww)
    <3>1. next.lines = f.lines /\ next.b = y
      BY <2>8
    <3> HIDE DEF next
    <3> QED
      BY <1>11, <2>10, <3>1 DEF Out
  <2> HIDE DEF W
  <2>12. lw \o (bw \o ww) = (lw \o bw) \o ww /\ lw \o bw \in Seq(W) /\ (lw \o bw) \o ww \in Seq(W)
    <3>1. Regroup(W, lw, bw, ww)
      BY Regrouped, Zenon
    <3> QED
      BY <3>1, Zenon DEF Regroup
  <2>13. Joined((lw \o bw) \o ww) = Joined(lw \o bw) \o Joined(ww)
    BY <2>12, JoinedConcat DEF W
  <2> QED
    BY <1>13, <1>16, <1>17, <2>9, <2>11, <2>12, <2>13 DEF W
<1> QED
  BY <1>4, <1>18, <1>19

\* The lines of the words ws, the last still being filled.
Broken(ws) == Run(AddWord, NoneFilled, ws)

LEMMA FillingTyped ==
  ASSUME Room, NEW C, Space \in C
  PROVE  /\ NoneFilled \in Filling(C)
         /\ \A st \in Filling(C), w \in Seq(C \ {Space}) : AddWord(st, w) \in Filling(C)
<1>2. NoneFilled \in Filling(C)
  BY EmptyFits DEF NoneFilled, Filling
<1> QED
  BY <1>2, AddWordKeeps

LEMMA BrokenGrows ==
  ASSUME Room, NEW C, Space \in C
  PROVE  /\ Broken(<<>>) = NoneFilled
         /\ \A s \in Seq(Seq(C \ {Space})) : Broken(s) \in Filling(C)
         /\ \A s \in Seq(Seq(C \ {Space})), w \in Seq(C \ {Space}) :
               Broken(Append(s, w)) = AddWord(Broken(s), w)
<1> DEFINE T == Filling(C)
           U == Seq(C \ {Space})
           op == [x \in T \X U |-> AddWord(x[1], x[2])]
           F(s) == CHOOSE g : g = [i \in 0..Len(s) |->
                                     IF i = 0 THEN NoneFilled ELSE AddWord(g[i - 1], s[i])]
<1>1. NoneFilled \in T /\ \A x \in T, w \in U : AddWord(x, w) \in T
  BY FillingTyped
<1>2. \A s : Broken(s) = F(s)[Len(s)]
  BY DEF Broken, Run
<1> HIDE DEF T, U
<1>3. IsStep(T, U, op) /\ \A x \in T, w \in U : op[<<x, w>>] = AddWord(x, w)
  BY <1>1 DEF IsStep
<1> HIDE DEF op
<1>4. ASSUME NEW s \in Seq(U) PROVE Broken(s) = Fold(T, op, NoneFilled, s)
  <2>0. Len(s) \in Nat /\ \A i \in 1..Len(s) : s[i] \in U /\ i # 0 /\ i - 1 \in 0..Len(s)
    OBVIOUS
  <2>1. PICK f : Values(T, op, NoneFilled, s, f)
    BY <1>1, <1>3, ValuesExist, Zenon
  <2>2. f \in [0..Len(s) -> T] /\ f[0] = NoneFilled
    BY <2>1 DEF Values
  <2>3. ASSUME NEW i \in 1..Len(s) PROVE f[i] = AddWord(f[i - 1], s[i])
    BY <1>3, <2>0, <2>1, <2>2 DEF Values
  <2>4. PICK c : c = NoneFilled
    OBVIOUS
  <2>5. f = [i \in 0..Len(s) |-> IF i = 0 THEN c ELSE AddWord(f[i - 1], s[i])]
    BY <2>2, <2>3, <2>4
  <2>6. F(s) = [i \in 0..Len(s) |-> IF i = 0 THEN NoneFilled ELSE AddWord(F(s)[i - 1], s[i])]
    BY <2>4, <2>5, Zenon
  <2> HIDE DEF F
  <2>7. F(s)[0] = NoneFilled
    BY <2>0, <2>6
  <2>8. ASSUME NEW i \in 1..Len(s), F(s)[i - 1] \in T
        PROVE  F(s)[i] = op[<<F(s)[i - 1], s[i]>>]
    <3>0. i # 0 /\ i \in 0..Len(s)
      BY <2>0
    <3>1. F(s)[i] = AddWord(F(s)[i - 1], s[i])
      BY <2>6, <3>0, Zenon
    <3> QED
      BY <1>3, <2>0, <2>8, <3>1
  <2>9. IsStep(T, U, op) /\ NoneFilled \in T
    BY <1>1, <1>3
  <2>10. F(s)[Len(s)] = Fold(T, op, NoneFilled, s)
    BY <2>7, <2>8, <2>9, FoldUnique
  <2> QED
    BY <1>2, <2>10
<1>5. Broken(<<>>) = NoneFilled
  <2>1. Broken(<<>>) = Fold(T, op, NoneFilled, <<>>)
    BY <1>4, EmptySeq, Zenon
  <2> QED
    BY <1>1, <1>3, <2>1, FoldNone
<1>6. ASSUME NEW s \in Seq(U) PROVE Broken(s) \in T
  BY <1>1, <1>3, <1>4, FoldTyped
<1>7. ASSUME NEW s \in Seq(U), NEW w \in U
      PROVE  Broken(Append(s, w)) = AddWord(Broken(s), w)
  <2>1. Append(s, w) \in Seq(U)
    BY AppendTyped, Zenon
  <2>2. Fold(T, op, NoneFilled, Append(s, w)) = op[<<Fold(T, op, NoneFilled, s), w>>]
    BY <1>1, <1>3, FoldOne
  <2>3. Broken(Append(s, w)) = op[<<Broken(s), w>>]
    BY <1>4, <2>1, <2>2, Zenon
  <2> QED
    BY <1>3, <1>6, <2>3
<1> QED
  BY <1>5, <1>6, <1>7 DEF T, U

-----------------------------------------------------------------------------
(* CutLine and ThreadPostToIRC.                                             *)

\* No word is longer than a message.
WordsFit(ws) == \A k \in DOMAIN ws : Len(ws[k]) <= messageLen

LEMMA FitParts ==
  ASSUME NEW W, NEW a \in Seq(W), NEW b \in Seq(W), WordsFit(a \o b)
  PROVE  WordsFit(a) /\ WordsFit(b)
<1>1. PICK c \in Seq(W) : c = a \o b
  BY ConcatProperties
<1>2. /\ Len(a) \in Nat /\ Len(b) \in Nat /\ Len(c) = Len(a) + Len(b)
      /\ \A i \in 1..Len(c) : c[i] = IF i <= Len(a) THEN a[i] ELSE b[i - Len(a)]
  BY <1>1, ConcatProperties
<1>3. \A i \in 1..Len(c) : Len(c[i]) <= messageLen
  BY <1>1 DEF WordsFit
<1>4. ASSUME NEW i \in 1..Len(a) PROVE Len(a[i]) <= messageLen
  <2>1. i \in 1..Len(c) /\ c[i] = a[i]
    BY <1>2
  <2> QED
    BY <1>3, <2>1
<1>5. ASSUME NEW i \in 1..Len(b) PROVE Len(b[i]) <= messageLen
  <2>1. PICK j \in 1..Len(c) : j = i + Len(a)
    BY <1>2
  <2>2. ~(j <= Len(a)) /\ j - Len(a) = i
    BY <1>2, <2>1
  <2>3. c[j] = b[i]
    BY <1>2, <2>2
  <2> QED
    BY <1>3, <2>3
<1> QED
  BY <1>4, <1>5 DEF WordsFit

\* Lines made of words have those words, whole if they fit.
LEMMA BrokenKeeps ==
  ASSUME Room, NEW C, Space \in C
  PROVE  \A ws \in Seq(Seq(C \ {Space})) :
            /\ Broken(ws) \in Filling(C)
            /\ Out(Broken(ws)) \in Seq(Seq(C \ {Space}))
            /\ Joined(Out(Broken(ws))) = Joined(NonEmpty(ws))
            /\ WordsFit(NonEmpty(ws)) => Out(Broken(ws)) = NonEmpty(ws)
<1> DEFINE V == C \ {Space}
           W == Seq(V)
           Kept(ws) == /\ Out(Broken(ws)) \in Seq(W)
                       /\ Joined(Out(Broken(ws))) = Joined(NonEmpty(ws))
                       /\ WordsFit(NonEmpty(ws)) => Out(Broken(ws)) = NonEmpty(ws)
           S == {ws \in Seq(W) : Kept(ws)}
<1>0. \A ws \in Seq(W) : Broken(ws) \in Filling(C)
  BY BrokenGrows
<1>1. PICK none \in Seq(W) : none = <<>>
  BY EmptySeq
<1>2. none \in S
  <2>1. PICK n \in Seq(Seq(C)), v \in W : n = <<>> /\ v = <<>>
    BY EmptySeq
  <2>2. LineWords(n) = none /\ WordsOf(v) = none
    BY <1>1, <2>1, LineWordsGrows, JoinedWords
  <2>3. Broken(none).lines = n /\ Broken(none).b = v
    <3>1. Broken(none) = NoneFilled
      BY <1>1, BrokenGrows
    <3> QED
      BY <2>1, <3>1 DEF NoneFilled
  <2>4. none \o none = none
    BY <1>1, ConcatEmptySeq
  <2>5. Out(Broken(none)) = none
    BY <2>2, <2>3, <2>4 DEF Out
  <2>6. NonEmpty(none) = none
    BY <1>1, NonEmptyGrows
  <2> QED
    BY <2>5, <2>6
<1>3. ASSUME NEW ws \in Seq(W), NEW w \in W, ws \in S
      PROVE  Append(ws, w) \in S
  <2>1. PICK st \in Filling(C) : st = Broken(ws)
    BY <1>0
  <2>2. PICK n \in Seq(W) : n = NonEmpty(ws)
    BY NonEmptyGrows
  <2>3. PICK ww \in Seq(W) : ww = WordsOf(w)
    BY JoinedWords
  <2>4. Joined(ww) = w /\ ww = IF w = <<>> THEN <<>> ELSE <<w>>
    BY <2>3, JoinedWords
  <2>5. PICK next \in Filling(C) : next = AddWord(st, w)
    BY AddWordKeeps
  <2>6. /\ Out(next) \in Seq(W) /\ Joined(Out(next)) = Joined(Out(st)) \o w
        /\ Len(w) <= messageLen => Out(next) = Out(st) \o ww
    BY <2>3, <2>5, AddWordKeeps
  <2>7. Broken(Append(ws, w)) = next
    BY <2>1, <2>5, BrokenGrows
  <2>8. NonEmpty(Append(ws, w)) = n \o ww
    <3>1. NonEmpty(Append(ws, w)) = WordStep(n, w)
      BY <2>2, NonEmptyGrows
    <3> HIDE DEF W
    <3>2. n \o <<>> = n /\ n \o <<w>> = Append(n, w)
      BY ConcatEmptySeq, AppendIsConcat
    <3> QED
      BY <2>4, <3>1, <3>2 DEF WordStep
  <2>9. /\ Joined(Out(st)) = Joined(n)
        /\ WordsFit(n) => Out(st) = n
    BY <1>3, <2>1, <2>2
  <2>10. Joined(n \o ww) = Joined(n) \o w
    BY <2>4, JoinedConcat
  <2>11. ASSUME WordsFit(n \o ww) PROVE Out(next) = n \o ww
    <3>1. WordsFit(n) /\ WordsFit(ww)
      <4> HIDE DEF W
      <4> QED
        BY <2>11, FitParts
    <3>2. CASE w = <<>>
      <4>1. Len(w) <= messageLen
        BY <3>2, EmptySeq DEF Room
      <4> QED
        BY <2>6, <2>9, <3>1, <4>1
    <3>3. CASE w # <<>>
      <4>1. Len(w) <= messageLen
        <5>1. 1 \in DOMAIN <<w>> /\ <<w>>[1] = w
          OBVIOUS
        <5> QED
          BY <2>4, <3>1, <3>3, <5>1 DEF WordsFit
      <4> QED
        BY <2>6, <2>9, <3>1, <4>1
    <3> QED
      BY <3>2, <3>3
  <2>12. Append(ws, w) \in Seq(W)
    BY AppendTyped, Zenon
  <2> QED
    BY <2>6, <2>7, <2>8, <2>9, <2>10, <2>11, <2>12
<1>4. \A ws \in Seq(W) : ws \in S
  <2> HIDE DEF S, W
  <2> QED
    BY <1>1, <1>2, <1>3, SeqAll
<1> QED
  BY <1>0, <1>4

\* What is made of one line: lines that fit, with its words.
LEMMA CutLineKeeps ==
  ASSUME Room, NEW C, Space \in C, NEW line \in Seq(C)
  PROVE  /\ CutLine(line) \in Seq(Fit(C))
         /\ WordsOf(line) \in Seq(Seq(C \ {Space}))
         /\ LineWords(CutLine(line)) \in Seq(Seq(C \ {Space}))
         /\ Joined(LineWords(CutLine(line))) = Joined(WordsOf(line))
         /\ WordsFit(WordsOf(line)) => LineWords(CutLine(line)) = WordsOf(line)
<1> DEFINE V == C \ {Space}
           W == Seq(V)
<1>0. messageLen \in Nat /\ Len(line) \in Nat
  BY DEF Room
<1>1. PICK words \in Seq(W) : words = WordsOf(line)
  <2>1. <<>> \in W
    BY EmptySeq
  <2> QED
    BY <2>1, WordsSplit
<1>2. CASE Len(line) <= messageLen
  <2>1. CutLine(line) = <<line>> /\ line \in Fit(C)
    BY <1>2 DEF CutLine, Fit
  <2>2. PICK n \in Seq(Seq(C)) : n = <<>>
    BY EmptySeq
  <2>3. <<line>> = Append(n, line)
    BY <2>2
  <2>4. LineWords(n) = <<>> /\ LineWords(Append(n, line)) = LineWords(n) \o words
    BY <1>1, <2>2, LineWordsGrows DEF LineStep
  <2>5. <<>> \o words = words
    BY ConcatEmptySeq
  <2>6. LineWords(CutLine(line)) = words
    BY <2>1, <2>3, <2>4, <2>5
  <2>7. <<line>> \in Seq(Fit(C))
    BY <2>1
  <2> QED
    BY <1>1, <2>1, <2>6, <2>7
<1>3. CASE ~(Len(line) <= messageLen)
  <2>1. PICK ws \in Seq(W) : ws = SplitAt(line, Space)
    <3>1. SplitAt(line, Space) \in Cut(C, Space)
      BY SplitGrows
    <3> QED
      BY <3>1 DEF Cut
  <2>2. words = NonEmpty(ws)
    BY <1>1, <2>1 DEF WordsOf
  <2>3. PICK st \in Filling(C) : st = Broken(ws)
    BY BrokenKeeps
  <2>4. /\ Out(st) \in Seq(W) /\ Joined(Out(st)) = Joined(words)
        /\ WordsFit(words) => Out(st) = words
    BY <2>2, <2>3, BrokenKeeps
  <2>5. CutLine(line) = IF st.b = <<>> THEN st.lines ELSE Flush(st).lines
    BY <1>3, <2>1, <2>3 DEF CutLine, Broken, NoneFilled
  <2>6. PICK f \in Filling(C) : f = IF st.b = <<>> THEN st ELSE Flush(st)
    BY FlushKeeps
  <2>7. CutLine(line) = f.lines /\ f.b = <<>> /\ Out(f) = Out(st)
    <3>1. Flush(st).b = <<>>
      BY DEF Flush
    <3> QED
      BY <2>5, <2>6, <3>1, FlushKeeps
  <2>8. f.lines \in Seq(Fit(C)) /\ f.lines \in Seq(Seq(C))
    <3>1. f.lines \in Seq(Fit(C))
      BY DEF Filling
    <3> QED
      BY <3>1, SeqMonotonic DEF Fit
  <2>9. PICK lw \in Seq(W) : lw = LineWords(f.lines)
    BY <2>8, LineWordsGrows
  <2>10. lw = Out(f)
    <3>1. PICK v \in W : v = <<>>
      BY EmptySeq
    <3>2. WordsOf(v) = <<>>
      BY <3>1, JoinedWords
    <3>3. lw \o <<>> = lw
      BY ConcatEmptySeq
    <3> QED
      BY <2>7, <2>9, <3>1, <3>2, <3>3 DEF Out
  <2> QED
    BY <1>1, <2>4, <2>7, <2>8, <2>9, <2>10
<1> QED
  BY <1>2, <1>3

\* The lines of a body, one line of it more.
SentStep(out, line) == out \o CutLine(line)
Sent(ls) == Run(LAMBDA out, line : out \o CutLine(line), <<>>, ls)

LEMMA SentTyped ==
  ASSUME Room, NEW C, Space \in C
  PROVE  /\ <<>> \in Seq(Fit(C))
         /\ \A x \in Seq(Fit(C)), line \in Seq(C) : SentStep(x, line) \in Seq(Fit(C))
BY CutLineKeeps, ConcatProperties, EmptyFits DEF SentStep

LEMMA SentGrows ==
  ASSUME Room, NEW C, Space \in C
  PROVE  /\ Sent(<<>>) = <<>>
         /\ \A s \in Seq(Seq(C)) : Sent(s) \in Seq(Fit(C))
         /\ \A s \in Seq(Seq(C)), line \in Seq(C) :
               Sent(Append(s, line)) = SentStep(Sent(s), line)
<1> DEFINE T == Seq(Fit(C))
           U == Seq(C)
           op == [x \in T \X U |-> SentStep(x[1], x[2])]
           F(s) == CHOOSE g : g = [i \in 0..Len(s) |->
                                     IF i = 0 THEN <<>> ELSE SentStep(g[i - 1], s[i])]
<1>1. <<>> \in T /\ \A x \in T, line \in U : SentStep(x, line) \in T
  BY SentTyped
<1>2. \A s : Sent(s) = F(s)[Len(s)]
  BY DEF Sent, Run, SentStep
<1> HIDE DEF T, U
<1>3. IsStep(T, U, op) /\ \A x \in T, line \in U : op[<<x, line>>] = SentStep(x, line)
  BY <1>1 DEF IsStep
<1> HIDE DEF op
<1>4. ASSUME NEW s \in Seq(U) PROVE Sent(s) = Fold(T, op, <<>>, s)
  <2>0. Len(s) \in Nat /\ \A i \in 1..Len(s) : s[i] \in U /\ i # 0 /\ i - 1 \in 0..Len(s)
    OBVIOUS
  <2>1. PICK f : Values(T, op, <<>>, s, f)
    BY <1>1, <1>3, ValuesExist, Zenon
  <2>2. f \in [0..Len(s) -> T] /\ f[0] = <<>>
    BY <2>1 DEF Values
  <2>3. ASSUME NEW i \in 1..Len(s) PROVE f[i] = SentStep(f[i - 1], s[i])
    BY <1>3, <2>0, <2>1, <2>2 DEF Values
  <2>4. PICK c : c = <<>>
    OBVIOUS
  <2>5. f = [i \in 0..Len(s) |-> IF i = 0 THEN c ELSE SentStep(f[i - 1], s[i])]
    BY <2>2, <2>3, <2>4
  <2>6. F(s) = [i \in 0..Len(s) |-> IF i = 0 THEN <<>> ELSE SentStep(F(s)[i - 1], s[i])]
    BY <2>4, <2>5, Zenon
  <2> HIDE DEF F
  <2>7. F(s)[0] = <<>>
    BY <2>0, <2>6
  <2>8. ASSUME NEW i \in 1..Len(s), F(s)[i - 1] \in T
        PROVE  F(s)[i] = op[<<F(s)[i - 1], s[i]>>]
    <3>0. i # 0 /\ i \in 0..Len(s)
      BY <2>0
    <3>1. F(s)[i] = SentStep(F(s)[i - 1], s[i])
      BY <2>6, <3>0, Zenon
    <3> QED
      BY <1>3, <2>0, <2>8, <3>1
  <2>9. IsStep(T, U, op) /\ <<>> \in T
    BY <1>1, <1>3
  <2>10. F(s)[Len(s)] = Fold(T, op, <<>>, s)
    BY <2>7, <2>8, <2>9, FoldUnique
  <2> QED
    BY <1>2, <2>10
<1>5. Sent(<<>>) = <<>>
  <2>1. Sent(<<>>) = Fold(T, op, <<>>, <<>>)
    BY <1>4, EmptySeq, Zenon
  <2> QED
    BY <1>1, <1>3, <2>1, FoldNone
<1>6. ASSUME NEW s \in Seq(U) PROVE Sent(s) \in T
  BY <1>1, <1>3, <1>4, FoldTyped
<1>7. ASSUME NEW s \in Seq(U), NEW line \in U
      PROVE  Sent(Append(s, line)) = SentStep(Sent(s), line)
  <2>1. Append(s, line) \in Seq(U)
    BY AppendTyped, Zenon
  <2>2. Fold(T, op, <<>>, Append(s, line)) = op[<<Fold(T, op, <<>>, s), line>>]
    BY <1>1, <1>3, FoldOne
  <2>3. Sent(Append(s, line)) = op[<<Sent(s), line>>]
    BY <1>4, <2>1, <2>2, Zenon
  <2> QED
    BY <1>3, <1>6, <2>3
<1> QED
  BY <1>5, <1>6, <1>7 DEF T, U

\* What is made of lines: lines that fit, with their words.
LEMMA SentKeeps ==
  ASSUME Room, NEW C, Space \in C
  PROVE  \A ls \in Seq(Seq(C)) :
            /\ Sent(ls) \in Seq(Fit(C))
            /\ Joined(LineWords(Sent(ls))) = Joined(LineWords(ls))
            /\ WordsFit(LineWords(ls)) => LineWords(Sent(ls)) = LineWords(ls)
<1> DEFINE V == C \ {Space}
           W == Seq(V)
           E == Seq(C)
           Kept(ls) == /\ Joined(LineWords(Sent(ls))) = Joined(LineWords(ls))
                       /\ WordsFit(LineWords(ls)) => LineWords(Sent(ls)) = LineWords(ls)
           S == {ls \in Seq(E) : Kept(ls)}
<1>0. \A ls \in Seq(E) : Sent(ls) \in Seq(Fit(C)) /\ LineWords(ls) \in Seq(W)
  BY SentGrows, LineWordsGrows
<1>1. PICK none \in Seq(E) : none = <<>>
  BY EmptySeq
<1>2. none \in S
  BY <1>1, SentGrows
<1>3. ASSUME NEW ls \in Seq(E), NEW line \in E, ls \in S
      PROVE  Append(ls, line) \in S
  <2>1. PICK x \in Seq(Fit(C)) : x = Sent(ls)
    BY <1>0
  <2>2. PICK y \in Seq(Fit(C)) : y = CutLine(line)
    BY CutLineKeeps
  <2>3. x \in Seq(E) /\ y \in Seq(E)
    BY SeqMonotonic DEF Fit
  <2>4. PICK p \in Seq(W) : p = LineWords(ls)
    BY <1>0
  <2>5. PICK q \in Seq(W) : q = WordsOf(line)
    BY CutLineKeeps
  <2>6. PICK a \in Seq(W) : a = LineWords(x)
    BY <1>0, <2>3
  <2>7. PICK b \in Seq(W) : b = LineWords(y)
    BY <1>0, <2>3
  <2>8. LineWords(Append(ls, line)) = p \o q
    BY <2>4, <2>5, LineWordsGrows DEF LineStep
  <2>9. LineWords(Sent(Append(ls, line))) = a \o b
    <3>1. Sent(Append(ls, line)) = x \o y
      BY <2>1, <2>2, SentGrows DEF SentStep
    <3>2. LineWords(x \o y) = LineWords(x) \o LineWords(y)
      BY <2>3, LineWordsConcat
    <3> QED
      BY <2>6, <2>7, <3>1, <3>2
  <2>10. Joined(a) = Joined(p) /\ (WordsFit(p) => a = p)
    BY <1>3, <2>1, <2>4, <2>6
  <2>11. Joined(b) = Joined(q) /\ (WordsFit(q) => b = q)
    BY <2>2, <2>5, <2>7, CutLineKeeps
  <2>12. Joined(a \o b) = Joined(a) \o Joined(b) /\ Joined(p \o q) = Joined(p) \o Joined(q)
    BY JoinedConcat
  <2>13. ASSUME WordsFit(p \o q) PROVE a \o b = p \o q
    <3>1. WordsFit(p) /\ WordsFit(q)
      <4> HIDE DEF W
      <4> QED
        BY <2>13, FitParts
    <3> QED
      BY <2>10, <2>11, <3>1
  <2>14. Append(ls, line) \in Seq(E)
    BY AppendTyped, Zenon
  <2> QED
    BY <2>8, <2>9, <2>10, <2>11, <2>12, <2>13, <2>14
<1>4. \A ls \in Seq(E) : ls \in S
  <2> HIDE DEF S, E
  <2> QED
    BY <1>1, <1>2, <1>3, SeqAll
<1> QED
  BY <1>0, <1>4

-----------------------------------------------------------------------------
(* What is left of a body by the CR and LF of it.                           *)

\* The classes of bytes are five.
LEMMA FourBytes == ASSUME NEW a, NEW b, NEW c, NEW d PROVE Cardinality({a, b, c, d}) <= 4
<1>1. IsFiniteSet({a}) /\ Cardinality({a}) = 1
  BY FS_Singleton
<1>2. IsFiniteSet({a} \cup {b}) /\ Cardinality({a} \cup {b}) <= 2
  BY <1>1, FS_AddElement
<1>3. IsFiniteSet({a} \cup {b} \cup {c}) /\ Cardinality({a} \cup {b} \cup {c}) <= 3
  <2> DEFINE T == {a} \cup {b}
  <2>1. IsFiniteSet(T) /\ Cardinality(T) <= 2 /\ Cardinality(T) \in Nat
    BY <1>2, FS_CardinalityType
  <2> HIDE DEF T
  <2>2. IsFiniteSet(T \cup {c}) /\ Cardinality(T \cup {c}) <= 3
    BY <2>1, FS_AddElement
  <2> QED
    BY <2>2 DEF T
<1>4. Cardinality({a} \cup {b} \cup {c} \cup {d}) <= 4
  <2> DEFINE T == {a} \cup {b} \cup {c}
  <2>1. IsFiniteSet(T) /\ Cardinality(T) <= 3 /\ Cardinality(T) \in Nat
    BY <1>3, FS_CardinalityType
  <2> HIDE DEF T
  <2>2. Cardinality(T \cup {d}) <= 4
    BY <2>1, FS_AddElement
  <2> QED
    BY <2>2 DEF T
<1>5. {a} \cup {b} \cup {c} \cup {d} = {a, b, c, d}
  OBVIOUS
<1> QED
  BY <1>4, <1>5

LEMMA BytesDiffer == LF # CR /\ Space # CR /\ Space # LF
<1>1. LF = CR => Bytes = {CR, Space, Colon, Other}
  BY DEF Bytes
<1>2. Space = CR => Bytes = {CR, LF, Colon, Other}
  BY DEF Bytes
<1>3. Space = LF => Bytes = {CR, LF, Colon, Other}
  BY DEF Bytes
<1>4. Cardinality({CR, Space, Colon, Other}) <= 4 /\ Cardinality({CR, LF, Colon, Other}) <= 4
  BY FourBytes
<1> QED
  BY <1>1, <1>2, <1>3, <1>4, BytesAssumption

\* CRLF, CR and LF at i of t each become one LF.
NewlineStep(t, out, i) ==
    IF t[i] # CR THEN Append(out, t[i])
    ELSE IF i < Len(t) /\ t[i + 1] = LF THEN out ELSE Append(out, LF)
Lined(t, is) == Run(LAMBDA out, i : NewlineStep(t, out, i), <<>>, is)

LEMMA NewlineTyped ==
  ASSUME NEW t \in Seq(Bytes)
  PROVE  /\ <<>> \in Seq(Bytes \ {CR})
         /\ \A x \in Seq(Bytes \ {CR}), j \in 1..Len(t) :
               NewlineStep(t, x, j) \in Seq(Bytes \ {CR})
<1>1. LF \in Bytes \ {CR}
  BY BytesDiffer DEF Bytes
<1>2. ASSUME NEW x \in Seq(Bytes \ {CR}), NEW j \in 1..Len(t)
      PROVE  NewlineStep(t, x, j) \in Seq(Bytes \ {CR})
  <2>1. t[j] \in Bytes
    OBVIOUS
  <2> QED
    BY <1>1, <2>1, AppendTyped DEF NewlineStep
<1> QED
  BY <1>2, EmptySeq

LEMMA NewlineGrows ==
  ASSUME NEW t \in Seq(Bytes)
  PROVE  /\ Lined(t, <<>>) = <<>>
         /\ \A s \in Seq((1..Len(t))) : Lined(t, s) \in Seq(Bytes \ {CR})
         /\ \A s \in Seq((1..Len(t))), j \in (1..Len(t)) :
               Lined(t, Append(s, j)) = NewlineStep(t, Lined(t, s), j)
<1> DEFINE T == Seq(Bytes \ {CR})
           U == (1..Len(t))
           op == [x \in T \X U |-> NewlineStep(t, x[1], x[2])]
           F(s) == CHOOSE g : g = [i \in 0..Len(s) |->
                                     IF i = 0 THEN <<>> ELSE NewlineStep(t, g[i - 1], s[i])]
<1>1. <<>> \in T /\ \A x \in T, j \in U : NewlineStep(t, x, j) \in T
  BY NewlineTyped
<1>2. \A s : Lined(t, s) = F(s)[Len(s)]
  BY DEF Lined, Run, NewlineStep
<1> HIDE DEF T, U
<1>3. IsStep(T, U, op) /\ \A x \in T, j \in U : op[<<x, j>>] = NewlineStep(t, x, j)
  BY <1>1 DEF IsStep
<1> HIDE DEF op
<1>4. ASSUME NEW s \in Seq(U) PROVE Lined(t, s) = Fold(T, op, <<>>, s)
  <2>0. Len(s) \in Nat /\ \A i \in 1..Len(s) : s[i] \in U /\ i # 0 /\ i - 1 \in 0..Len(s)
    OBVIOUS
  <2>1. PICK f : Values(T, op, <<>>, s, f)
    BY <1>1, <1>3, ValuesExist, Zenon
  <2>2. f \in [0..Len(s) -> T] /\ f[0] = <<>>
    BY <2>1 DEF Values
  <2>3. ASSUME NEW i \in 1..Len(s) PROVE f[i] = NewlineStep(t, f[i - 1], s[i])
    BY <1>3, <2>0, <2>1, <2>2 DEF Values
  <2>4. PICK c : c = <<>>
    OBVIOUS
  <2>5. f = [i \in 0..Len(s) |-> IF i = 0 THEN c ELSE NewlineStep(t, f[i - 1], s[i])]
    BY <2>2, <2>3, <2>4
  <2>6. F(s) = [i \in 0..Len(s) |-> IF i = 0 THEN <<>> ELSE NewlineStep(t, F(s)[i - 1], s[i])]
    BY <2>4, <2>5, Zenon
  <2> HIDE DEF F
  <2>7. F(s)[0] = <<>>
    BY <2>0, <2>6
  <2>8. ASSUME NEW i \in 1..Len(s), F(s)[i - 1] \in T
        PROVE  F(s)[i] = op[<<F(s)[i - 1], s[i]>>]
    <3>0. i # 0 /\ i \in 0..Len(s)
      BY <2>0
    <3>1. F(s)[i] = NewlineStep(t, F(s)[i - 1], s[i])
      BY <2>6, <3>0, Zenon
    <3> QED
      BY <1>3, <2>0, <2>8, <3>1
  <2>9. IsStep(T, U, op) /\ <<>> \in T
    BY <1>1, <1>3
  <2>10. F(s)[Len(s)] = Fold(T, op, <<>>, s)
    BY <2>7, <2>8, <2>9, FoldUnique
  <2> QED
    BY <1>2, <2>10
<1>5. Lined(t, <<>>) = <<>>
  <2>1. Lined(t, <<>>) = Fold(T, op, <<>>, <<>>)
    BY <1>4, EmptySeq, Zenon
  <2> QED
    BY <1>1, <1>3, <2>1, FoldNone
<1>6. ASSUME NEW s \in Seq(U) PROVE Lined(t, s) \in T
  BY <1>1, <1>3, <1>4, FoldTyped
<1>7. ASSUME NEW s \in Seq(U), NEW j \in U
      PROVE  Lined(t, Append(s, j)) = NewlineStep(t, Lined(t, s), j)
  <2>1. Append(s, j) \in Seq(U)
    BY AppendTyped, Zenon
  <2>2. Fold(T, op, <<>>, Append(s, j)) = op[<<Fold(T, op, <<>>, s), j>>]
    BY <1>1, <1>3, FoldOne
  <2>3. Lined(t, Append(s, j)) = op[<<Lined(t, s), j>>]
    BY <1>4, <2>1, <2>2, Zenon
  <2> QED
    BY <1>3, <1>6, <2>3
<1> QED
  BY <1>5, <1>6, <1>7 DEF T, U

LEMMA NewlinesTyped ==
  ASSUME NEW t \in Seq(Bytes) PROVE Newlines(t) \in Seq(Bytes \ {CR})
<1>1. PICK is : is = Positions(Len(t))
  OBVIOUS
<1>2. is \in Seq(1..Len(t))
  BY <1>1 DEF Positions
<1>3. Newlines(t) = Lined(t, is)
  BY <1>1, Zenon DEF Newlines, Lined, NewlineStep
<1> QED
  BY <1>2, <1>3, NewlineGrows

\* The conversion is right for any body, if a message has room for text.
LEMMA BodyFits == ASSUME Room, body \in Seq(Bytes) PROVE LinesFit /\ WordsKept
<1> DEFINE A == Bytes \ {CR}
           C == A \ {LF}
<1>1. Space \in C /\ LF \in A
  BY BytesDiffer DEF Bytes
<1>2. PICK t \in Seq(A) : t = Newlines(body)
  BY NewlinesTyped
<1>3. PICK ls \in Seq(Seq(C)) : ls = SplitAt(t, LF)
  <2>1. SplitAt(t, LF) \in Cut(A, LF)
    <3> HIDE DEF A
    <3> QED
      BY <1>1, SplitGrows
  <2> QED
    BY <2>1 DEF Cut
<1>4. MessageToIRC(body) = Sent(ls)
  BY <1>2, <1>3 DEF MessageToIRC, Sent
<1>5. C \cap {CR, LF} = {}
  OBVIOUS
<1> HIDE DEF A, C
<1>6. PICK sent \in Seq(Fit(C)) : sent = Sent(ls)
  BY <1>1, SentKeeps
<1>7. LinesFit
  <2> SUFFICES ASSUME NEW line \in Range(sent)
               PROVE  Len(line) <= messageLen /\ {CR, LF} \cap Range(line) = {}
    BY <1>4, <1>6 DEF LinesFit
  <2>1. line \in Fit(C)
    BY DEF Range
  <2>2. line \in Seq(C) /\ Len(line) <= messageLen
    BY <2>1 DEF Fit
  <2>3. Range(line) \subseteq C
    BY <2>2 DEF Range
  <2> QED
    BY <1>5, <2>2, <2>3
<1>8. WordsKept
  <2>1. /\ Joined(LineWords(sent)) = Joined(LineWords(ls))
        /\ WordsFit(LineWords(ls)) => LineWords(sent) = LineWords(ls)
    BY <1>1, <1>6, SentKeeps
  <2> QED
    BY <1>2, <1>3, <1>4, <1>6, <2>1 DEF WordsKept, WordsFit
<1> QED
  BY <1>7, <1>8

\* There is no word where every piece is empty.
LEMMA NoWords ==
  ASSUME NEW V
  PROVE  \A ws \in Seq(Seq(V)) : NonEmpty(ws) = <<>> <=> \A w \in Range(ws) : w = <<>>
<1> DEFINE S == {ws \in Seq(Seq(V)) : NonEmpty(ws) = <<>> <=> \A w \in Range(ws) : w = <<>>}
<1>0. PICK none \in Seq(Seq(V)) : none = <<>>
  BY EmptySeq
<1>1. none \in S
  BY <1>0, NonEmptyGrows DEF Range
<1>2. ASSUME NEW ws \in Seq(Seq(V)), NEW w \in Seq(V), ws \in S
      PROVE  Append(ws, w) \in S
  <2>1. NonEmpty(Append(ws, w)) = WordStep(NonEmpty(ws), w)
    BY NonEmptyGrows
  <2>2. Range(Append(ws, w)) = Range(ws) \cup {w}
    BY RangeGrows
  <2>3. PICK x \in Seq(Seq(V)) : x = NonEmpty(ws)
    BY NonEmptyGrows
  <2>4. Append(x, w) # <<>> /\ Append(ws, w) \in Seq(Seq(V))
    BY AppendSome
  <2> QED
    BY <1>2, <2>1, <2>2, <2>3, <2>4 DEF WordStep
<1>3. \A ws \in Seq(Seq(V)) : ws \in S
  <2> HIDE DEF S
  <2> QED
    BY <1>0, <1>1, <1>2, SeqAll
<1> QED
  BY <1>3

LEMMA NoLineWords ==
  ASSUME NEW C, Space \in C
  PROVE  \A ls \in Seq(Seq(C)) :
            LineWords(ls) = <<>> <=> \A line \in Range(ls) : WordsOf(line) = <<>>
<1> DEFINE S == {ls \in Seq(Seq(C)) :
                    LineWords(ls) = <<>> <=> \A line \in Range(ls) : WordsOf(line) = <<>>}
<1>0. PICK none \in Seq(Seq(C)) : none = <<>>
  BY EmptySeq
<1>1. none \in S
  <2>1. LineWords(none) = <<>>
    BY <1>0, LineWordsGrows
  <2>2. Range(none) = {}
    BY <1>0 DEF Range
  <2> QED
    BY <2>1, <2>2
<1>2. ASSUME NEW ls \in Seq(Seq(C)), NEW line \in Seq(C), ls \in S
      PROVE  Append(ls, line) \in S
  <2>1. LineWords(Append(ls, line)) = LineWords(ls) \o WordsOf(line)
    BY LineWordsGrows DEF LineStep
  <2>2. Range(Append(ls, line)) = Range(ls) \cup {line}
    BY RangeGrows
  <2>3. PICK x \in Seq(Seq(C \ {Space})) : x = LineWords(ls)
    BY LineWordsGrows
  <2>4. PICK y \in Seq(Seq(C \ {Space})) : y = WordsOf(line)
    <3>1. <<>> \in Seq(C \ {Space})
      BY EmptySeq
    <3> QED
      BY <3>1, WordsSplit
  <2>5. x \o y = <<>> <=> x = <<>> /\ y = <<>>
    <3>1. /\ Len(x) \in Nat /\ Len(y) \in Nat /\ x \o y \in Seq(Seq(C \ {Space}))
          /\ Len(x \o y) = Len(x) + Len(y)
      BY ConcatProperties
    <3> QED
      BY <3>1, EmptySeq
  <2>6. Append(ls, line) \in Seq(Seq(C))
    BY AppendTyped, Zenon
  <2> QED
    BY <1>2, <2>1, <2>2, <2>3, <2>4, <2>5, <2>6
<1>3. \A ls \in Seq(Seq(C)) : ls \in S
  <2> HIDE DEF S
  <2> QED
    BY <1>0, <1>1, <1>2, SeqAll
<1> QED
  BY <1>3

\* Which bodies the conversion returns from.
LEMMA WhatReturns ==
  ASSUME messageLen \in Int, body \in Seq(Bytes)
  PROVE  Returns(body) <=> \/ messageLen > 0
                           \/ /\ messageLen = 0
                              /\ LineWords(SplitAt(Newlines(body), LF)) = <<>>
<1> DEFINE A == Bytes \ {CR}
           C == A \ {LF}
           W == Seq(C \ {Space})
<1>1. Space \in C /\ LF \in A
  BY BytesDiffer DEF Bytes
<1>2. PICK t \in Seq(A) : t = Newlines(body)
  BY NewlinesTyped
<1>3. PICK ls \in Seq(Seq(C)) : ls = SplitAt(t, LF) /\ ls # <<>>
  <2>1. SplitAt(t, LF) \in Cut(A, LF)
    <3> HIDE DEF A
    <3> QED
      BY <1>1, SplitGrows
  <2> QED
    BY <2>1 DEF Cut
<1> HIDE DEF A, C
<1>4. ASSUME NEW line \in Seq(C)
      PROVE  /\ SplitAt(line, Space) \in Seq(W) /\ SplitAt(line, Space) # <<>>
             /\ WordsOf(line) = <<>> <=> \A w \in Range(SplitAt(line, Space)) : w = <<>>
  <2>1. SplitAt(line, Space) \in Cut(C, Space)
    BY SplitGrows
  <2>2. PICK ws \in Seq(W) : ws = SplitAt(line, Space) /\ ws # <<>>
    BY <2>1 DEF Cut
  <2>3. WordsOf(line) = NonEmpty(ws)
    BY <2>2 DEF WordsOf
  <2> QED
    BY <2>2, <2>3, NoWords
<1>5. \A line \in Range(ls) : line \in Seq(C)
  BY DEF Range
<1>6. ASSUME NEW line \in Seq(C), NEW w \in Range(SplitAt(line, Space))
      PROVE  w \in W /\ Len(w) \in Nat
  BY <1>4 DEF Range
<1>7. Returns(body) <=> \A line \in Range(ls) :
                           Len(line) > messageLen =>
                             \A w \in Range(SplitAt(line, Space)) :
                                ~(Len(w) > messageLen /\ messageLen <= 0)
  BY <1>2, <1>3, Zenon DEF Returns, Uncuttable
<1>8. CASE messageLen > 0
  BY <1>7, <1>8
<1>9. CASE messageLen < 0
  <2>1. PICK line \in Range(ls) : TRUE
    <3>1. 1 \in DOMAIN ls
      BY <1>3, EmptySeq
    <3> QED
      BY <3>1 DEF Range
  <2>2. PICK w \in Range(SplitAt(line, Space)) : TRUE
    <3>1. PICK ws \in Seq(W) : ws = SplitAt(line, Space) /\ ws # <<>>
      BY <1>4, <1>5
    <3>2. 1 \in DOMAIN ws
      BY <3>1, EmptySeq
    <3> QED
      BY <3>1, <3>2 DEF Range
  <2>3. line \in Seq(C) /\ Len(line) \in Nat /\ Len(w) \in Nat
    BY <1>5, <1>6
  <2>4. Len(line) > messageLen /\ Len(w) > messageLen /\ messageLen <= 0
    BY <1>9, <2>3
  <2> QED
    BY <1>7, <1>9, <2>4
<1>10. CASE messageLen = 0
  <2>1. ASSUME NEW line \in Range(ls)
        PROVE  (Len(line) > 0 => \A w \in Range(SplitAt(line, Space)) : ~(Len(w) > 0))
                 <=> WordsOf(line) = <<>>
    <3>1. line \in Seq(C) /\ Len(line) \in Nat
      BY <1>5
    <3>2. \A w \in Range(SplitAt(line, Space)) : ~(Len(w) > 0) <=> w = <<>>
      BY <1>6, <3>1, EmptySeq
    <3>3. WordsOf(line) = <<>> <=> \A w \in Range(SplitAt(line, Space)) : ~(Len(w) > 0)
      BY <1>4, <3>1, <3>2
    <3>4. CASE Len(line) > 0
      BY <3>3, <3>4
    <3>5. CASE ~(Len(line) > 0)
      <4>1. line = <<>> /\ line \in Seq(C \ {Space})
        BY <3>1, <3>5, EmptySeq
      <4>2. WordsOf(line) = <<>>
        BY <1>1, <4>1, JoinedWords
      <4> QED
        BY <3>5, <4>2
    <3> QED
      BY <3>4, <3>5
  <2>2. LineWords(ls) = <<>> <=> \A line \in Range(ls) : WordsOf(line) = <<>>
    BY <1>1, NoLineWords
  <2>3. Returns(body) <=> \A line \in Range(ls) :
                             Len(line) > 0 =>
                               \A w \in Range(SplitAt(line, Space)) : ~(Len(w) > 0)
    BY <1>7, <1>10
  <2> QED
    BY <1>2, <1>3, <1>10, <2>1, <2>2, <2>3
<1> QED
  BY <1>8, <1>9, <1>10

\* MessageToIRC returns for every body if a message has room for text, for the
\* bodies without a word if it has none, and for no body if the prefix is longer than
\* a message; what it returns with room for text are lines that are no longer than a
\* message, without CR or LF, and that have the bytes of every word of the body in
\* their order, with no word cut that fits.  For a body of any length and any nick.
THEOREM BodiesConvert == TextSpec => []BodyConverted
<1>1. TextTypeOK => BodyConverted
  <2> SUFFICES ASSUME messageLen \in Int, body \in Seq(Bytes) PROVE BodyConverted
    BY DEF TextTypeOK
  <2>1. messageLen > 0 => LinesFit /\ WordsKept
    <3> SUFFICES ASSUME messageLen > 0 PROVE LinesFit /\ WordsKept
      OBVIOUS
    <3>1. Room
      BY DEF Room
    <3> QED
      BY <3>1, BodyFits
  <2> QED
    BY <2>1, WhatReturns DEF BodyConverted
<1> QED
  BY <1>1, TextTyped, PTL

-----------------------------------------------------------------------------
(* Positions, and what CutByte makes of a stream.                           *)

\* The library's Min of a set of numbers.
LEMMA LeastExists ==
  ASSUME NEW S, S \subseteq Nat, S # {}
  PROVE  Min(S) \in S /\ \A y \in S : Min(S) <= y
<1>1. PICK x \in S : \A y \in S : ~(<<y, x>> \in OpToRel(<, Nat))
  BY NatLessThanWellFounded, WFMin, Zenon
<1>2. \A y \in S : ~(y < x)
  BY <1>1, Zenon DEF OpToRel
<1>3. \A y \in S : x <= y
  BY <1>2
<1> QED
  BY <1>3 DEF Min

LEMMA PositionsGrow ==
  ASSUME NEW m \in Nat, NEW n \in Nat, n < m
  PROVE  /\ Positions(0) = <<>> /\ Positions(n) \in Seq(1..m) /\ Positions(m) \in Seq(1..m)
         /\ n + 1 \in 1..m /\ Positions(n + 1) = Append(Positions(n), n + 1)
<1>1. PICK p : p = Positions(n)
  OBVIOUS
<1>2. p \in Seq(1..m) /\ Len(p) = n /\ \A i \in 1..n : p[i] = i
  BY <1>1 DEF Positions
<1>3. PICK q : q = Positions(n + 1)
  OBVIOUS
<1>4. q \in Seq(1..m) /\ Len(q) = n + 1 /\ \A i \in 1..(n + 1) : q[i] = i
  BY <1>3 DEF Positions
<1>5. q = Append(p, n + 1)
  <2>1. n + 1 \in 1..m
    OBVIOUS
  <2>2. PICK a \in Seq(1..m) : a = Append(p, n + 1)
    BY <1>2, <2>1, AppendTyped
  <2>3. Len(a) = n + 1 /\ a[n + 1] = n + 1 /\ \A i \in 1..n : a[i] = p[i]
    BY <1>2, <2>1, <2>2, AppendProperties
  <2>4. ASSUME NEW i \in 1..(n + 1) PROVE q[i] = a[i]
    <3>1. CASE i = n + 1
      BY <1>4, <2>3, <3>1
    <3>2. CASE i # n + 1
      <4>1. i \in 1..n
        BY <3>2
      <4> QED
        BY <1>2, <1>4, <2>3, <4>1
    <3> QED
      BY <3>1, <3>2
  <2>5. q = a
    BY <1>4, <2>2, <2>3, <2>4, SeqEqual
  <2> QED
    BY <2>2, <2>5
<1>6. Positions(0) = <<>> /\ Positions(m) \in Seq(1..m)
  BY DEF Positions
<1> QED
  BY <1>1, <1>2, <1>3, <1>5, <1>6

\* What has been cut off a stream.
Taken == [from : Nat \ {0}, lines : Seq(Seq(Bytes)), stuck : BOOLEAN]
Cutting(t, is) == Run(LAMBDA st, i : CutByte(t, st, i), Uncut, is)

LEMMA CutTyped ==
  ASSUME NEW t \in Seq(Bytes)
  PROVE  /\ Uncut \in Taken
         /\ \A st \in Taken, i \in 1..Len(t) : CutByte(t, st, i) \in Taken
<1>1. Uncut \in Taken
  BY EmptySeq DEF Uncut, Taken
<1>2. ASSUME NEW st \in Taken, NEW i \in 1..Len(t) PROVE CutByte(t, st, i) \in Taken
  <2> DEFINE piece == SubSeq(t, st.from, i - 2)
             quiet == st.stuck \/ i <= st.from \/ t[i - 1] # CR \/ t[i] # LF
  <2>0. /\ st = [from |-> st.from, lines |-> st.lines, stuck |-> st.stuck]
        /\ st.from \in Nat \ {0} /\ st.lines \in Seq(Seq(Bytes)) /\ st.stuck \in BOOLEAN
    BY DEF Taken
  <2>1. piece \in Seq(Bytes)
    <3>1. \A j \in st.from..(i - 2) : t[j] \in Bytes
      BY <2>0
    <3> QED
      BY <2>0, <3>1, SubSeqProperties
  <2>2. CASE quiet
    BY <2>2 DEF CutByte
  <2>3. CASE ~quiet /\ Stuck(piece)
    <3>1. CutByte(t, st, i) = [st EXCEPT !.stuck = TRUE]
      BY <2>3 DEF CutByte
    <3> QED
      BY <2>0, <3>1 DEF Taken
  <2>4. CASE ~quiet /\ ~Stuck(piece)
    <3>1. PICK ls : ls = IF piece = <<>> THEN st.lines ELSE Append(st.lines, piece)
      OBVIOUS
    <3>2. ls \in Seq(Seq(Bytes))
      BY <2>0, <2>1, <3>1, AppendTyped
    <3>3. CutByte(t, st, i) = [st EXCEPT !.from = i + 1, !.lines = ls]
      BY <2>4, <3>1 DEF CutByte
    <3>5. i + 1 \in Nat \ {0}
      OBVIOUS
    <3> QED
      BY <3>2, <3>3, <3>5 DEF Taken
  <2> QED
    BY <2>2, <2>3, <2>4
<1> QED
  BY <1>1, <1>2

\* The cut after one more byte of the stream.
LEMMA CutGrows ==
  ASSUME NEW t \in Seq(Bytes)
  PROVE  /\ Cutting(t, <<>>) = Uncut
         /\ \A s \in Seq((1..Len(t))) : Cutting(t, s) \in Taken
         /\ \A s \in Seq((1..Len(t))), i \in (1..Len(t)) :
               Cutting(t, Append(s, i)) = CutByte(t, Cutting(t, s), i)
<1> DEFINE T == Taken
           U == (1..Len(t))
           op == [x \in T \X U |-> CutByte(t, x[1], x[2])]
           F(s) == CHOOSE g : g = [i \in 0..Len(s) |->
                                     IF i = 0 THEN Uncut ELSE CutByte(t, g[i - 1], s[i])]
<1>1. Uncut \in T /\ \A x \in T, i \in U : CutByte(t, x, i) \in T
  BY CutTyped
<1>2. \A s : Cutting(t, s) = F(s)[Len(s)]
  BY DEF Cutting, Run
<1> HIDE DEF T, U
<1>3. IsStep(T, U, op) /\ \A x \in T, i \in U : op[<<x, i>>] = CutByte(t, x, i)
  BY <1>1 DEF IsStep
<1> HIDE DEF op
<1>4. ASSUME NEW s \in Seq(U) PROVE Cutting(t, s) = Fold(T, op, Uncut, s)
  <2>0. Len(s) \in Nat /\ \A i \in 1..Len(s) : s[i] \in U /\ i # 0 /\ i - 1 \in 0..Len(s)
    OBVIOUS
  <2>1. PICK f : Values(T, op, Uncut, s, f)
    BY <1>1, <1>3, ValuesExist, Zenon
  <2>2. f \in [0..Len(s) -> T] /\ f[0] = Uncut
    BY <2>1 DEF Values
  <2>3. ASSUME NEW i \in 1..Len(s) PROVE f[i] = CutByte(t, f[i - 1], s[i])
    BY <1>3, <2>0, <2>1, <2>2 DEF Values
  <2>4. PICK c : c = Uncut
    OBVIOUS
  <2>5. f = [i \in 0..Len(s) |-> IF i = 0 THEN c ELSE CutByte(t, f[i - 1], s[i])]
    BY <2>2, <2>3, <2>4
  <2>6. F(s) = [i \in 0..Len(s) |-> IF i = 0 THEN Uncut ELSE CutByte(t, F(s)[i - 1], s[i])]
    BY <2>4, <2>5, Zenon
  <2> HIDE DEF F
  <2>7. F(s)[0] = Uncut
    BY <2>0, <2>6
  <2>8. ASSUME NEW i \in 1..Len(s), F(s)[i - 1] \in T
        PROVE  F(s)[i] = op[<<F(s)[i - 1], s[i]>>]
    <3>0. i # 0 /\ i \in 0..Len(s)
      BY <2>0
    <3>1. F(s)[i] = CutByte(t, F(s)[i - 1], s[i])
      BY <2>6, <3>0, Zenon
    <3> QED
      BY <1>3, <2>0, <2>8, <3>1
  <2>9. IsStep(T, U, op) /\ Uncut \in T
    BY <1>1, <1>3
  <2>10. F(s)[Len(s)] = Fold(T, op, Uncut, s)
    BY <2>7, <2>8, <2>9, FoldUnique
  <2> QED
    BY <1>2, <2>10
<1>5. Cutting(t, <<>>) = Uncut
  <2>1. Cutting(t, <<>>) = Fold(T, op, Uncut, <<>>)
    BY <1>4, EmptySeq, Zenon
  <2> QED
    BY <1>1, <1>3, <2>1, FoldNone
<1>6. ASSUME NEW s \in Seq(U) PROVE Cutting(t, s) \in T
  BY <1>1, <1>3, <1>4, FoldTyped
<1>7. ASSUME NEW s \in Seq(U), NEW i \in U
      PROVE  Cutting(t, Append(s, i)) = CutByte(t, Cutting(t, s), i)
  <2>1. Append(s, i) \in Seq(U)
    BY AppendTyped, Zenon
  <2>2. Fold(T, op, Uncut, Append(s, i)) = op[<<Fold(T, op, Uncut, s), i>>]
    BY <1>1, <1>3, FoldOne
  <2>3. Cutting(t, Append(s, i)) = op[<<Cutting(t, s), i>>]
    BY <1>4, <2>1, <2>2, Zenon
  <2> QED
    BY <1>3, <1>6, <2>3
<1> QED
  BY <1>5, <1>6, <1>7 DEF T, U

\* The pieces of one more byte of a stream.
LEMMA PiecesGrow ==
  ASSUME NEW t \in Seq(Bytes)
  PROVE  /\ Pieces(t, 0) = Uncut
         /\ \A n \in 0..Len(t) : Pieces(t, n) \in Taken
         /\ \A n \in 0..Len(t) : n < Len(t) => Pieces(t, n + 1) = CutByte(t, Pieces(t, n), n + 1)
<1>0. Len(t) \in Nat
  OBVIOUS
<1>1. \A n : Pieces(t, n) = Cutting(t, Positions(n))
  BY Zenon DEF Pieces, Cutting
<1>2. Pieces(t, 0) = Uncut
  <2>1. Positions(0) = <<>>
    BY DEF Positions
  <2> QED
    BY <1>1, <2>1, CutGrows
<1>3. ASSUME NEW n \in 0..Len(t) PROVE Pieces(t, n) \in Taken
  <2>1. Positions(n) \in Seq(1..Len(t))
    BY <1>0 DEF Positions
  <2> QED
    BY <1>1, <2>1, CutGrows
<1>4. ASSUME NEW n \in 0..Len(t), n < Len(t)
      PROVE  Pieces(t, n + 1) = CutByte(t, Pieces(t, n), n + 1)
  <2>1. /\ Positions(n) \in Seq(1..Len(t)) /\ n + 1 \in 1..Len(t)
        /\ Positions(n + 1) = Append(Positions(n), n + 1)
    <3>1. n \in Nat
      BY <1>0
    <3> QED
      BY <1>0, <1>4, <3>1, PositionsGrow
  <2>2. Cutting(t, Append(Positions(n), n + 1)) = CutByte(t, Cutting(t, Positions(n)), n + 1)
    BY <2>1, CutGrows
  <2> QED
    BY <1>1, <2>1, <2>2
<1> QED
  BY <1>2, <1>3, <1>4

-----------------------------------------------------------------------------
(* FindLine: the next line and the pieces of the stream.                    *)

\* splitCRLF finds the first CR LF whose CR is the first CR there is.
LEMMA SplitMeans ==
  ASSUME NEW data \in Seq(Bytes)
  PROVE  LET n == splitCRLF(data)
         IN  \/ /\ n = 0
                /\ \A j \in 1..(Len(data) - 1) : data[j] = CR /\ data[j + 1] = LF
                      => \E i \in 1..(j - 1) : data[i] = CR
             \/ /\ n \in 2..Len(data) /\ data[n - 1] = CR /\ data[n] = LF
                /\ \A i \in 1..(n - 2) : data[i] # CR
<1> DEFINE I == {i \in 1..Len(data) : data[i] = CR}
<1>0. Len(data) \in Nat /\ I \subseteq Nat
  OBVIOUS
<1>1. CASE I = {}
  <2>1. splitCRLF(data) = 0
    BY <1>1 DEF splitCRLF
  <2>2. ASSUME NEW j \in 1..(Len(data) - 1) PROVE data[j] # CR
    <3>1. j \in 1..Len(data)
      BY <1>0
    <3> QED
      BY <1>1, <3>1
  <2> QED
    BY <2>1, <2>2
<1>2. CASE I # {}
  <2>1. PICK m : m = Min(I)
    OBVIOUS
  <2>2. m \in I /\ \A y \in I : m <= y
    BY <1>0, <1>2, <2>1, LeastExists
  <2>3. m \in 1..Len(data) /\ data[m] = CR
    BY <2>2
  <2>4. ASSUME NEW i \in 1..(m - 1) PROVE data[i] # CR
    <3>1. i \in 1..Len(data) /\ i < m
      BY <1>0, <2>3
    <3> QED
      BY <2>2, <3>1
  <2>5. splitCRLF(data) = IF m < Len(data) /\ data[m + 1] = LF THEN m + 1 ELSE 0
    BY <1>2, <2>1 DEF splitCRLF
  <2>6. CASE m < Len(data) /\ data[m + 1] = LF
    <3>1. PICK n : n = m + 1
      OBVIOUS
    <3>2. n \in 2..Len(data) /\ n - 1 = m /\ n - 2 = m - 1
      BY <1>0, <2>3, <2>6, <3>1
    <3> QED
      BY <2>3, <2>4, <2>5, <2>6, <3>1, <3>2
  <2>7. CASE ~(m < Len(data) /\ data[m + 1] = LF)
    <3>1. ASSUME NEW j \in 1..(Len(data) - 1), data[j] = CR, data[j + 1] = LF
          PROVE  \E i \in 1..(j - 1) : data[i] = CR
      <4>1. j \in I
        BY <1>0, <3>1
      <4>2. m <= j /\ m # j
        BY <1>0, <2>2, <2>7, <3>1, <4>1
      <4>3. m \in 1..(j - 1)
        BY <1>0, <2>3, <4>2
      <4> QED
        BY <2>3, <4>3
    <3> QED
      BY <2>5, <2>7, <3>1
  <2> QED
    BY <2>6, <2>7
<1> QED
  BY <1>1, <1>2

\* The bytes of a part of a stream.
LEMMA PartOf ==
  ASSUME NEW t \in Seq(Bytes), NEW p \in Nat, NEW m \in Nat, p <= m, m <= Len(t)
  PROVE  /\ SubSeq(t, p + 1, m) \in Seq(Bytes) /\ Len(SubSeq(t, p + 1, m)) = m - p
         /\ \A i \in 1..(m - p) : SubSeq(t, p + 1, m)[i] = t[p + i]
<1>1. \A i \in (p + 1)..m : t[i] \in Bytes
  OBVIOUS
<1>2. /\ SubSeq(t, p + 1, m) \in Seq(Bytes)
      /\ Len(SubSeq(t, p + 1, m)) = IF p + 1 <= m THEN m - (p + 1) + 1 ELSE 0
      /\ \A i \in 1..(m - (p + 1) + 1) : SubSeq(t, p + 1, m)[i] = t[(p + 1) + i - 1]
  BY <1>1, SubSeqProperties
<1>3. m - (p + 1) + 1 = m - p
  OBVIOUS
<1>4. ASSUME NEW i \in 1..(m - p) PROVE SubSeq(t, p + 1, m)[i] = t[p + i]
  <2>1. (p + 1) + i - 1 = p + i
    OBVIOUS
  <2> QED
    BY <1>2, <1>3, <2>1
<1> QED
  BY <1>2, <1>3, <1>4

\* The first p bytes of the stream are consumed, as ls.
At(t, p, ls) ==
    /\ Pieces(t, p).from = p + 1 /\ Pieces(t, p).lines = ls
    /\ Pieces(t, p).stuck = FALSE

\* Where the scanner finds no line and will not, there is no other piece.
LEMMA NoMore ==
  ASSUME NEW t \in Seq(Bytes), NEW p \in Nat, NEW m \in Nat, NEW ls,
         p <= m, m <= Len(t), At(t, p, ls),
         splitCRLF(SubSeq(t, p + 1, m)) = 0, m = Len(t) \/ m - p = BufCap
  PROVE  Pieces(t, Len(t)).from = p + 1 /\ Pieces(t, Len(t)).lines = ls
<1> DEFINE Still(n) == Pieces(t, n).from = p + 1 /\ Pieces(t, n).lines = ls
           S == {k \in Nat : p + k <= Len(t) => Still(p + k)}
<1>0. Len(t) \in Nat /\ BufCap \in Nat
  BY StreamAssumption
<1>1. PICK data \in Seq(Bytes) : data = SubSeq(t, p + 1, m)
  BY PartOf
<1>2. Len(data) = m - p /\ \A i \in 1..(m - p) : data[i] = t[p + i]
  BY <1>1, PartOf
<1>3. \A j \in 1..(Len(data) - 1) : data[j] = CR /\ data[j + 1] = LF
        => \E i \in 1..(j - 1) : data[i] = CR
  <2>1. splitCRLF(data) = 0
    BY <1>1
  <2> QED
    BY <2>1, SplitMeans
<1>4. 0 \in S
  BY DEF At
<1>5. ASSUME NEW k \in Nat, k \in S PROVE k + 1 \in S
  <2> SUFFICES ASSUME p + (k + 1) <= Len(t) PROVE Still(p + (k + 1))
    OBVIOUS
  <2>1. PICK i \in 1..Len(t) : i = p + k + 1
    BY <1>0
  <2>2. p + k \in 0..Len(t) /\ p + k < Len(t) /\ p + (k + 1) = i
    BY <1>0, <2>1
  <2>3. PICK st \in Taken : st = Pieces(t, p + k)
    BY <2>2, PiecesGrow
  <2>4. st.from = p + 1 /\ st.lines = ls
    BY <1>5, <2>2, <2>3
  <2>5. Pieces(t, i) = CutByte(t, st, i)
    BY <2>1, <2>2, <2>3, PiecesGrow
  <2>6. CASE st.stuck \/ i <= st.from \/ t[i - 1] # CR \/ t[i] # LF
    <3>1. CutByte(t, st, i) = st
      BY <2>6 DEF CutByte
    <3> QED
      BY <2>2, <2>4, <2>5, <3>1
  <2>7. CASE ~(st.stuck \/ i <= st.from \/ t[i - 1] # CR \/ t[i] # LF)
    <3>1. i - 2 \in Nat /\ p <= i - 2
      BY <2>1, <2>4, <2>7
    <3>2. PICK piece : piece = SubSeq(t, st.from, i - 2)
      OBVIOUS
    <3>3. /\ piece \in Seq(Bytes) /\ Len(piece) = (i - 2) - p
          /\ \A x \in 1..((i - 2) - p) : piece[x] = t[p + x]
      BY <1>0, <2>1, <2>4, <3>1, <3>2, PartOf
    <3>4. Stuck(piece)
      <4>1. CASE i - p > BufCap
        <5>0. PICK l : l = Len(piece)
          OBVIOUS
        <5>1. l = (i - 2) - p
          BY <3>3, <5>0
        <5>2. l + 2 > BufCap
          BY <1>0, <2>1, <4>1, <5>1
        <5> QED
          BY <5>0, <5>2 DEF Stuck
      <4>2. CASE ~(i - p > BufCap)
        <5>1. i <= m
          BY <1>0, <2>1, <4>2
        <5>2. PICK j : j = i - 1 - p
          OBVIOUS
        <5>3. j \in 1..(Len(data) - 1) /\ j \in 1..(m - p) /\ j + 1 \in 1..(m - p)
          BY <1>2, <2>1, <3>1, <5>1, <5>2
        <5>4. data[j] = CR /\ data[j + 1] = LF
          <6>1. p + j = i - 1 /\ p + (j + 1) = i
            BY <2>1, <5>2
          <6> QED
            BY <1>2, <2>7, <5>3, <6>1
        <5>5. PICK x \in 1..(j - 1) : data[x] = CR
          BY <1>3, <5>3, <5>4
        <5>6. x \in 1..((i - 2) - p) /\ x \in 1..(m - p)
          BY <2>1, <5>1, <5>2, <5>3
        <5>7. piece[x] = CR /\ x \in 1..Len(piece)
          BY <1>2, <3>3, <5>5, <5>6
        <5> QED
          BY <5>7 DEF Stuck
      <4> QED
        BY <4>1, <4>2
    <3>5. CutByte(t, st, i) = [st EXCEPT !.stuck = TRUE]
      BY <2>7, <3>2, <3>4 DEF CutByte
    <3>6. [st EXCEPT !.stuck = TRUE].from = st.from /\ [st EXCEPT !.stuck = TRUE].lines = st.lines
      BY DEF Taken
    <3> QED
      BY <2>2, <2>4, <2>5, <3>5, <3>6
  <2> QED
    BY <2>6, <2>7
<1>6. PICK k \in Nat : p + k = Len(t)
  <2>1. Len(t) - p \in Nat /\ p + (Len(t) - p) = Len(t)
    BY <1>0
  <2> QED
    BY <2>1
<1>7. k \in S
  <2> HIDE DEF S
  <2> QED
    BY <1>4, <1>5, NatAll
<1> QED
  BY <1>0, <1>6, <1>7

\* The line that the scanner finds is the next piece.
LEMMA NextPiece ==
  ASSUME NEW t \in Seq(Bytes), NEW p \in Nat, NEW m \in Nat, NEW ls,
         p <= m, m <= Len(t), m - p <= BufCap, At(t, p, ls),
         splitCRLF(SubSeq(t, p + 1, m)) > 0
  PROVE  LET data == SubSeq(t, p + 1, m)
             n == splitCRLF(data)
             piece == SubSeq(data, 1, n - 2)
         IN  /\ n \in 2..Len(data) /\ Len(data) = m - p /\ piece \in Seq(Bytes)
             /\ At(t, p + n, IF piece = <<>> THEN ls ELSE Append(ls, piece))
<1>0. Len(t) \in Nat /\ BufCap \in Nat
  BY StreamAssumption
<1>1. PICK data \in Seq(Bytes) : data = SubSeq(t, p + 1, m)
  BY PartOf
<1>2. Len(data) = m - p /\ \A i \in 1..(m - p) : data[i] = t[p + i]
  BY <1>1, PartOf
<1>3. PICK n : n = splitCRLF(data)
  OBVIOUS
<1>4. /\ n \in 2..Len(data) /\ data[n - 1] = CR /\ data[n] = LF
      /\ \A i \in 1..(n - 2) : data[i] # CR
  <2>1. n # 0
    <3>1. splitCRLF(SubSeq(t, p + 1, m)) = n
      BY <1>1, <1>3
    <3> QED
      BY <3>1
  <2> QED
    BY <1>3, <2>1, SplitMeans
<1> DEFINE Kept(k) == /\ Pieces(t, k).from = p + 1 /\ Pieces(t, k).lines = ls
                      /\ Pieces(t, k).stuck = FALSE
           S == {k \in Nat : k <= n - 1 => Kept(p + k)}
<1>5. 0 \in S
  BY DEF At
<1>6. ASSUME NEW k \in Nat, k \in S PROVE k + 1 \in S
  <2> SUFFICES ASSUME k + 1 <= n - 1 PROVE Kept(p + (k + 1))
    <3> HIDE DEF Kept
    <3> QED
      OBVIOUS
  <2>1. PICK i \in 1..Len(t) : i = p + k + 1
    <3>1. p \in Nat /\ n <= m - p /\ m <= Len(t) /\ n \in Nat
      BY <1>0, <1>2, <1>4
    <3> QED
      BY <1>0, <3>1
  <2>2. p + k \in 0..Len(t) /\ p + k < Len(t) /\ p + (k + 1) = i
    BY <1>0, <2>1
  <2>3. PICK st \in Taken : st = Pieces(t, p + k)
    BY <2>2, PiecesGrow
  <2>4. Kept(p + k)
    BY <1>4, <1>6
  <2>5. Pieces(t, i) = CutByte(t, st, i)
    BY <2>1, <2>2, <2>3, PiecesGrow
  <2>6. CutByte(t, st, i) = st
    <3>1. CASE k = 0
      <4>1. i <= st.from
        BY <2>1, <2>3, <2>4, <3>1
      <4> QED
        BY <4>1 DEF CutByte
    <3>2. CASE k # 0
      <4>1. k \in 1..(n - 2) /\ k \in 1..(m - p) /\ i - 1 = p + k
        BY <1>2, <1>4, <2>1, <3>2
      <4>2. t[i - 1] # CR
        BY <1>2, <1>4, <4>1
      <4> QED
        BY <4>2 DEF CutByte
    <3> QED
      BY <3>1, <3>2
  <2> QED
    BY <2>2, <2>3, <2>4, <2>5, <2>6
<1>7. Kept(p + (n - 1))
  <2>0. n - 1 \in Nat
    BY <1>4
  <2>1. n - 1 \in S
    <3> HIDE DEF S
    <3> QED
      BY <1>5, <1>6, <2>0, NatAll
  <2> QED
    BY <1>4, <2>1
<1>8. PICK piece : piece = SubSeq(data, 1, n - 2)
  OBVIOUS
<1>9. /\ piece \in Seq(Bytes) /\ Len(piece) = n - 2
      /\ \A x \in 1..(n - 2) : piece[x] = data[x]
  <2>1. 0 \in Nat /\ n - 2 \in Nat /\ 0 <= n - 2 /\ n - 2 <= Len(data)
    BY <1>4
  <2>2. 0 + 1 = 1 /\ (n - 2) - 0 = n - 2 /\ \A x \in 1..(n - 2) : 0 + x = x
    BY <2>1
  <2> QED
    BY <1>8, <2>1, <2>2, PartOf
<1>10. PICK i \in 1..Len(t) : i = p + n
  BY <1>0, <1>2, <1>4
<1>11. SubSeq(t, p + 1, i - 2) = piece
  <2>1. i - 2 \in Nat /\ p <= i - 2 /\ i - 2 <= Len(t) /\ (i - 2) - p = n - 2
    BY <1>4, <1>10
  <2>2. PICK q \in Seq(Bytes) : q = SubSeq(t, p + 1, i - 2)
    BY <2>1, PartOf
  <2>3. Len(q) = n - 2 /\ \A x \in 1..(n - 2) : q[x] = t[p + x]
    BY <2>1, <2>2, PartOf
  <2>4. ASSUME NEW x \in 1..(n - 2) PROVE q[x] = piece[x]
    <3>1. x \in 1..(m - p)
      BY <1>2, <1>4
    <3> QED
      BY <1>2, <1>9, <2>3, <3>1
  <2>5. q = piece
    BY <1>9, <2>2, <2>3, <2>4, SeqEqual
  <2> QED
    BY <2>2, <2>5
<1>12. ~Stuck(piece)
  <2>1. ~(Len(piece) + 2 > BufCap)
    BY <1>0, <1>2, <1>4, <1>9
  <2>2. \A x \in 1..Len(piece) : piece[x] # CR
    BY <1>4, <1>9
  <2> QED
    BY <2>1, <2>2 DEF Stuck
<1>13. p + (n - 1) \in 0..Len(t) /\ p + (n - 1) < Len(t) /\ p + (n - 1) + 1 = i
  <2>1. p \in Nat /\ n <= m - p /\ m <= Len(t) /\ n \in Nat \ {0}
    BY <1>0, <1>2, <1>4
  <2> QED
    BY <1>0, <1>10, <2>1
<1>20. PICK st \in Taken : st = Pieces(t, p + (n - 1))
  BY <1>13, PiecesGrow
<1>14. st.from = p + 1 /\ st.lines = ls /\ st.stuck = FALSE
  BY <1>7, <1>20
<1>15. Pieces(t, i) = CutByte(t, st, i)
  BY <1>13, <1>20, PiecesGrow
<1>16. t[i - 1] = CR /\ t[i] = LF /\ ~(i <= st.from)
  <2>1. n \in Nat \ {0, 1} /\ n <= m - p /\ p \in Nat /\ m - p \in Nat
    BY <1>0, <1>2, <1>4
  <2>2. n \in 1..(m - p) /\ n - 1 \in 1..(m - p) /\ p + n = i /\ p + (n - 1) = i - 1
    BY <1>10, <2>1
  <2>3. data[n] = t[i] /\ data[n - 1] = t[i - 1]
    BY <1>2, <2>2
  <2>4. ~(i <= p + 1)
    BY <2>1, <2>2
  <2> QED
    BY <1>4, <1>14, <2>3, <2>4
<1>17. PICK ls2 : ls2 = IF piece = <<>> THEN ls ELSE Append(ls, piece)
  OBVIOUS
<1>18. CutByte(t, st, i) = [st EXCEPT !.from = i + 1, !.lines = ls2]
  BY <1>11, <1>12, <1>14, <1>16, <1>17 DEF CutByte
<1>19. /\ CutByte(t, st, i).from = i + 1 /\ CutByte(t, st, i).lines = ls2
       /\ CutByte(t, st, i).stuck = FALSE
  BY <1>14, <1>18 DEF Taken
<1>21. At(t, p + n, ls2)
  BY <1>10, <1>15, <1>19 DEF At
<1> QED
  BY <1>1, <1>2, <1>3, <1>4, <1>8, <1>9, <1>17, <1>21

LEMMA PrefixMeans ==
  ASSUME NEW E, NEW a \in Seq(E), NEW b \in Seq(E)
  PROVE  IsPrefix(a, b) <=> Len(a) <= Len(b) /\ \A j \in 1..Len(a) : a[j] = b[j]
<1>1. Len(a) \in Nat /\ Len(b) \in Nat
  OBVIOUS
<1>2. CASE ~(Len(a) <= Len(b))
  BY <1>2 DEF IsPrefix
<1>3. CASE Len(a) <= Len(b)
  <2>1. PICK c \in Seq(E) : c = SubSeq(b, 1, Len(a))
    <3>1. \A j \in 1..Len(a) : b[j] \in E
      BY <1>1, <1>3
    <3>2. 1 \in Int /\ Len(a) \in Int
      BY <1>1
    <3> QED
      BY <3>1, <3>2, SubSeqProperties
  <2>2. Len(c) = Len(a) /\ \A j \in 1..Len(a) : c[j] = b[j]
    BY <1>1, <1>3, <2>1
  <2>3. IsPrefix(a, b) <=> a = c
    BY <1>3, <2>1 DEF IsPrefix
  <2>4. a = c <=> \A j \in 1..Len(a) : a[j] = c[j]
    BY <2>2, SeqEqual
  <2> QED
    BY <1>3, <2>2, <2>3, <2>4
<1> QED
  BY <1>2, <1>3

\* The lines cut off a stream are only added to.
LEMMA PiecesAdd ==
  ASSUME NEW t \in Seq(Bytes), NEW p \in Nat, p <= Len(t)
  PROVE  IsPrefix(Pieces(t, p).lines, Pieces(t, Len(t)).lines)
<1> DEFINE Later(n) == IsPrefix(Pieces(t, p).lines, Pieces(t, n).lines)
           S == {k \in Nat : p + k <= Len(t) => Later(p + k)}
<1>0. Len(t) \in Nat
  OBVIOUS
<1>1. PICK a \in Seq(Seq(Bytes)) : a = Pieces(t, p).lines
  BY <1>0, PiecesGrow DEF Taken
<1>2. 0 \in S
  <2>1. IsPrefix(a, a)
    BY DEF IsPrefix
  <2> QED
    BY <1>1, <2>1
<1>3. ASSUME NEW k \in Nat, k \in S PROVE k + 1 \in S
  <2> SUFFICES ASSUME p + (k + 1) <= Len(t) PROVE Later(p + (k + 1))
    OBVIOUS
  <2>1. PICK i \in 1..Len(t) : i = p + k + 1
    BY <1>0
  <2>2. p + k \in 0..Len(t) /\ p + k < Len(t) /\ p + (k + 1) = i
    BY <1>0, <2>1
  <2>3. PICK st \in Taken : st = Pieces(t, p + k)
    BY <2>2, PiecesGrow
  <2>4. IsPrefix(a, st.lines) /\ st.lines \in Seq(Seq(Bytes))
    BY <1>1, <1>3, <2>2, <2>3 DEF Taken
  <2>5. Pieces(t, i) = CutByte(t, st, i)
    BY <2>1, <2>2, <2>3, PiecesGrow
  <2>6. \/ CutByte(t, st, i).lines = st.lines
        \/ \E e : CutByte(t, st, i).lines = Append(st.lines, e)
    <3>1. CASE CutByte(t, st, i) = st
      BY <3>1
    <3>2. CASE CutByte(t, st, i) = [st EXCEPT !.stuck = TRUE]
      <4>1. st.lines = [st EXCEPT !.stuck = TRUE].lines
        BY DEF Taken
      <4> QED
        BY <3>2, <4>1
    <3>3. CASE CutByte(t, st, i) # st /\ CutByte(t, st, i) # [st EXCEPT !.stuck = TRUE]
      <4>1. PICK piece : piece = SubSeq(t, st.from, i - 2)
        OBVIOUS
      <4>2. PICK u : u = IF piece = <<>> THEN st.lines ELSE Append(st.lines, piece)
        OBVIOUS
      <4>3. CutByte(t, st, i) = [st EXCEPT !.from = i + 1, !.lines = u]
        BY <3>3, <4>1, <4>2 DEF CutByte
      <4>4. [st EXCEPT !.from = i + 1, !.lines = u].lines = u
        BY DEF Taken
      <4> QED
        BY <4>2, <4>3, <4>4
    <3> QED
      BY <3>1, <3>2, <3>3
  <2>7. PICK b \in Seq(Seq(Bytes)) : b = CutByte(t, st, i).lines
    BY CutTyped DEF Taken
  <2>8. IsPrefix(a, b)
    <3>1. CASE b = st.lines
      BY <2>4, <3>1
    <3>2. CASE \E e : b = Append(st.lines, e)
      <4>1. PICK e : b = Append(st.lines, e)
        BY <3>2
      <4>2. Len(b) = Len(st.lines) + 1 /\ \A j \in 1..Len(st.lines) : b[j] = st.lines[j]
        BY <2>4, <4>1
      <4>3. Len(a) <= Len(st.lines) /\ \A j \in 1..Len(a) : a[j] = st.lines[j]
        BY <2>4, PrefixMeans
      <4>4. Len(a) \in Nat /\ Len(st.lines) \in Nat
        BY <2>4
      <4>5. Len(a) <= Len(b) /\ \A j \in 1..Len(a) : a[j] = b[j]
        BY <4>2, <4>3, <4>4
      <4> QED
        BY <2>7, <4>5, PrefixMeans
    <3> QED
      BY <2>6, <2>7, <3>1, <3>2
  <2> QED
    BY <1>1, <2>2, <2>5, <2>7, <2>8
<1>4. Len(t) - p \in Nat /\ p + (Len(t) - p) = Len(t)
  BY <1>0
<1>5. Len(t) - p \in S
  <2> HIDE DEF S
  <2> QED
    BY <1>2, <1>3, <1>4, NatAll
<1> QED
  BY <1>4, <1>5

-----------------------------------------------------------------------------
(* The scanner serves the lines of the stream.                              *)

\* The lines served of a stream, by where its last line starts.
LEMMA ServedWhere ==
  ASSUME NEW t \in Seq(Bytes), NEW p \in Nat, p <= Len(t), NEW ls,
         Pieces(t, Len(t)).from = p + 1, Pieces(t, Len(t)).lines = ls
  PROVE  /\ Served(t).fits = (Len(t) - p < BufCap)
         /\ Served(t).lines = IF Len(t) - p < BufCap /\ p # Len(t)
                              THEN Append(ls, SubSeq(t, p + 1, Len(t))) ELSE ls
<1>0. PICK m \in Nat : m = Len(t) /\ p <= m /\ m <= Len(t)
  OBVIOUS
<1>1. PICK rest \in Seq(Bytes) : rest = SubSeq(t, p + 1, Len(t))
  BY <1>0, PartOf
<1>2. Len(rest) = Len(t) - p /\ Len(t) \in Nat
  BY <1>0, <1>1, PartOf
<1>3. rest # <<>> <=> p # Len(t)
  BY <1>2, EmptySeq
<1>4. Served(t) = [fits |-> Len(rest) < BufCap,
                   lines |-> IF Len(rest) < BufCap /\ rest # <<>>
                             THEN Append(ls, rest) ELSE ls]
  BY <1>1 DEF Served
<1> QED
  BY <1>1, <1>2, <1>3, <1>4

\* What the scanner has consumed are the pieces of the first start bytes, and what
\* it has not is in its buffer or still to come.
StreamInv ==
    /\ StreamTypeOK
    /\ state = "eof" => arrived = Len(stream) /\ Len(Data) < BufCap
    /\ state \in {"open", "eof"} => At(stream, start, lines)
    /\ state = "done" => Served(stream).fits /\ lines = Served(stream).lines
    /\ state = "toolong" => ~Served(stream).fits /\ lines = Served(stream).lines

LEMMA DataTyped ==
  ASSUME StreamTypeOK
  PROVE  /\ stream \in Seq(Bytes) /\ Len(stream) \in Nat /\ BufCap \in Nat
         /\ start \in Nat /\ arrived \in Nat /\ start <= arrived /\ arrived <= Len(stream)
         /\ Data \in Seq(Bytes) /\ Len(Data) = arrived - start
<1>1. stream \in Seq(Bytes) /\ BufCap \in Nat
  BY StreamAssumption DEF StreamTypeOK
<1>2. Len(stream) \in Nat /\ start \in 0..Len(stream) /\ arrived \in start..Len(stream)
  BY <1>1 DEF StreamTypeOK
<1>3. start \in Nat /\ arrived \in Nat /\ start <= arrived /\ arrived <= Len(stream)
  BY <1>2
<1> QED
  BY <1>1, <1>2, <1>3, PartOf DEF Data

LEMMA StreamStarts ==
  StreamInit => StreamInv
<1> SUFFICES ASSUME StreamInit PROVE StreamInv
  OBVIOUS
<1>1. /\ stream \in Streams /\ stream \in Seq(Bytes) /\ arrived = 0 /\ start = 0
      /\ state = "open" /\ lines = <<>> /\ Len(stream) \in Nat /\ BufCap \in Nat
  BY StreamAssumption DEF StreamInit
<1>2. Len(Data) = 0
  <2>1. Len(SubSeq(stream, 0 + 1, 0)) = 0 - 0
    BY <1>1, PartOf
  <2> QED
    BY <1>1, <2>1 DEF Data
<1>3. StreamTypeOK
  BY <1>1, <1>2, EmptySeq DEF StreamTypeOK
<1>4. At(stream, start, lines)
  <2>1. Pieces(stream, 0) = Uncut
    BY <1>1, PiecesGrow
  <2> QED
    BY <1>1, <2>1 DEF At, Uncut
<1> QED
  BY <1>1, <1>3, <1>4 DEF StreamInv

LEMMA ReadKeeps ==
  ASSUME StreamInv, NEW n \in 1..BufCap, Read(n)
  PROVE  StreamInv'
<1>1. StreamTypeOK /\ state = "open" /\ At(stream, start, lines)
  BY DEF StreamInv, Read, NeedsData
<1>2. /\ stream' = stream /\ start' = start /\ state' = state /\ lines' = lines
      /\ arrived' = arrived + n /\ arrived + n <= Len(stream) /\ Len(Data) + n <= BufCap
  BY DEF Read
<1>3. /\ start \in Nat /\ arrived \in Nat /\ start <= arrived /\ n \in Nat
      /\ stream \in Seq(Bytes) /\ Len(Data) = arrived - start
      /\ Len(stream) \in Nat /\ BufCap \in Nat
  BY <1>1, DataTyped
<1>4. Len(Data') <= BufCap
  <2>1. Data' = SubSeq(stream, start + 1, arrived + n)
    BY <1>2 DEF Data
  <2>2. arrived + n \in Nat /\ start <= arrived + n
    BY <1>3
  <2>3. Len(SubSeq(stream, start + 1, arrived + n)) = (arrived + n) - start
    BY <1>2, <1>3, <2>2, PartOf
  <2> QED
    BY <1>2, <1>3, <2>1, <2>3
<1>5. StreamTypeOK'
  <2>1. start \in 0..Len(stream) /\ arrived + n \in start..Len(stream)
    BY <1>2, <1>3
  <2> QED
    BY <1>1, <1>2, <1>4, <2>1 DEF StreamTypeOK
<1> QED
  BY <1>1, <1>2, <1>5 DEF StreamInv

LEMMA ClosesKeeps ==
  ASSUME StreamInv, ClientCloses
  PROVE  StreamInv'
<1>1. StreamTypeOK /\ state = "open" /\ At(stream, start, lines)
  BY DEF StreamInv, ClientCloses, NeedsData
<1>2. /\ stream' = stream /\ start' = start /\ state' = "eof" /\ lines' = lines
      /\ arrived' = arrived /\ arrived = Len(stream) /\ Len(Data) < BufCap
  BY DEF ClientCloses
<1>3. Data' = Data
  BY <1>2 DEF Data
<1>4. StreamTypeOK'
  BY <1>1, <1>2, <1>3 DEF StreamTypeOK
<1> QED
  BY <1>1, <1>2, <1>3, <1>4 DEF StreamInv

LEMMA FullKeeps ==
  ASSUME StreamInv, BufferFull
  PROVE  StreamInv'
<1>1. StreamTypeOK /\ state = "open" /\ At(stream, start, lines) /\ splitCRLF(Data) = 0
  BY DEF StreamInv, BufferFull, NeedsData
<1>2. /\ stream' = stream /\ start' = start /\ state' = "toolong" /\ lines' = lines
      /\ arrived' = arrived /\ Len(Data) = BufCap
  BY DEF BufferFull
<1>3. Data' = Data
  BY <1>2 DEF Data
<1>4. StreamTypeOK'
  BY <1>1, <1>2, <1>3 DEF StreamTypeOK
<1>5. ~Served(stream).fits /\ Served(stream).lines = lines
  <2>1. Pieces(stream, Len(stream)).from = start + 1 /\ Pieces(stream, Len(stream)).lines = lines
    <3>1. splitCRLF(SubSeq(stream, start + 1, arrived)) = 0
      BY <1>1 DEF Data
    <3>2. arrived - start = BufCap
      BY <1>1, <1>2, DataTyped
    <3> QED
      BY <1>1, <3>1, <3>2, DataTyped, NoMore
  <2>2. ~(Len(stream) - start < BufCap)
    BY <1>1, <1>2, DataTyped
  <2> QED
    <3>1. stream \in Seq(Bytes) /\ start \in Nat /\ start <= Len(stream)
      BY <1>1, DataTyped
    <3>2. /\ Served(stream).fits = (Len(stream) - start < BufCap)
          /\ Served(stream).lines = IF Len(stream) - start < BufCap /\ start # Len(stream)
                        THEN Append(lines, SubSeq(stream, start + 1, Len(stream))) ELSE lines
      BY <2>1, <3>1, ServedWhere
    <3> QED
      BY <2>2, <3>2
<1> QED
  BY <1>2, <1>4, <1>5 DEF StreamInv

LEMMA LineKeeps ==
  ASSUME StreamInv, Line
  PROVE  StreamInv'
<1>1. /\ StreamTypeOK /\ state \in {"open", "eof"} /\ At(stream, start, lines)
      /\ state = "eof" => arrived = Len(stream) /\ Len(Data) < BufCap
  BY DEF StreamInv, Line
<1>2. PICK n : n = splitCRLF(Data)
  OBVIOUS
<1>3. PICK piece : piece = SubSeq(Data, 1, n - 2)
  OBVIOUS
<1>4. /\ stream' = stream /\ start' = start + n /\ state' = state /\ arrived' = arrived
      /\ n > 0 /\ lines' = IF piece = <<>> THEN lines ELSE Append(lines, piece)
  BY <1>2, <1>3 DEF Line, Yield
<1>5. /\ stream \in Seq(Bytes) /\ Len(stream) \in Nat /\ BufCap \in Nat
      /\ start \in Nat /\ arrived \in Nat /\ start <= arrived /\ arrived <= Len(stream)
      /\ Len(Data) = arrived - start /\ Len(Data) <= BufCap
      /\ lines \in Seq(Seq(Bytes)) /\ stream \in Streams
  BY <1>1, DataTyped DEF StreamTypeOK
<1>6. /\ n \in 2..Len(Data) /\ piece \in Seq(Bytes)
      /\ At(stream, start + n, IF piece = <<>> THEN lines ELSE Append(lines, piece))
  <2>1. arrived - start <= BufCap
    BY <1>5
  <2>2. splitCRLF(SubSeq(stream, start + 1, arrived)) = n
    BY <1>2 DEF Data
  <2>3. SubSeq(SubSeq(stream, start + 1, arrived), 1, n - 2) = piece
    BY <1>3 DEF Data
  <2>4. splitCRLF(SubSeq(stream, start + 1, arrived)) > 0
    BY <1>4, <2>2
  <2>5. LET data == SubSeq(stream, start + 1, arrived)
            k == splitCRLF(data)
            cut == SubSeq(data, 1, k - 2)
        IN  /\ k \in 2..Len(data) /\ Len(data) = arrived - start /\ cut \in Seq(Bytes)
            /\ At(stream, start + k, IF cut = <<>> THEN lines ELSE Append(lines, cut))
    BY <1>1, <1>5, <2>1, <2>4, NextPiece
  <2> QED
    BY <2>2, <2>3, <2>5 DEF Data
<1>7. /\ start + n \in Nat /\ start + n <= arrived
      /\ (arrived - (start + n)) < Len(Data)
  BY <1>5, <1>6
<1>8. Len(Data') = arrived - (start + n)
  <2>1. Data' = SubSeq(stream, (start + n) + 1, arrived)
    BY <1>4 DEF Data
  <2> QED
    BY <1>5, <1>7, <2>1, PartOf
<1>9. lines' \in Seq(Seq(Bytes)) /\ At(stream, start', lines')
  BY <1>4, <1>5, <1>6, AppendTyped
<1>10. StreamTypeOK'
  <2>1. start' \in 0..Len(stream) /\ arrived' \in start'..Len(stream)
    BY <1>4, <1>5, <1>7
  <2>2. Len(Data') <= BufCap
    BY <1>5, <1>7, <1>8
  <2> QED
    BY <1>1, <1>4, <1>5, <1>9, <2>1, <2>2 DEF StreamTypeOK
<1>11. state' = "eof" => arrived' = Len(stream') /\ Len(Data') < BufCap
  BY <1>1, <1>4, <1>5, <1>7, <1>8
<1> QED
  BY <1>1, <1>4, <1>9, <1>10, <1>11 DEF StreamInv

LEMMA LastKeeps ==
  ASSUME StreamInv, LastLine
  PROVE  StreamInv'
<1>1. /\ StreamTypeOK /\ state = "eof" /\ At(stream, start, lines)
      /\ arrived = Len(stream) /\ Len(Data) < BufCap /\ splitCRLF(Data) = 0
  BY DEF StreamInv, LastLine
<1>2. /\ stream' = stream /\ start' = arrived /\ state' = "done" /\ arrived' = arrived
      /\ lines' = IF Data = <<>> THEN lines ELSE Append(lines, Data)
  BY DEF LastLine, Yield
<1>3. /\ stream \in Seq(Bytes) /\ Len(stream) \in Nat /\ BufCap \in Nat
      /\ start \in Nat /\ arrived \in Nat /\ start <= arrived /\ arrived <= Len(stream)
      /\ Data \in Seq(Bytes) /\ Len(Data) = arrived - start
      /\ lines \in Seq(Seq(Bytes)) /\ stream \in Streams
  BY <1>1, DataTyped DEF StreamTypeOK
<1>4. lines' \in Seq(Seq(Bytes))
  BY <1>2, <1>3, AppendTyped
<1>5. Len(Data') = 0
  <2>1. Data' = SubSeq(stream, arrived + 1, arrived)
    BY <1>2 DEF Data
  <2> QED
    BY <1>3, <2>1, PartOf
<1>6. StreamTypeOK'
  <2>1. start' \in 0..Len(stream) /\ arrived' \in start'..Len(stream)
    BY <1>2, <1>3
  <2> QED
    BY <1>2, <1>3, <1>4, <1>5, <2>1 DEF StreamTypeOK
<1>7. Served(stream).fits /\ Served(stream).lines = lines'
  <2>1. Pieces(stream, Len(stream)).from = start + 1 /\ Pieces(stream, Len(stream)).lines = lines
    <3>1. splitCRLF(SubSeq(stream, start + 1, arrived)) = 0
      BY <1>1 DEF Data
    <3> QED
      BY <1>1, <1>3, <3>1, NoMore
  <2>2. Len(stream) - start < BufCap
    BY <1>1, <1>3
  <2>3. SubSeq(stream, start + 1, Len(stream)) = Data
    BY <1>1 DEF Data
  <2>4. Data = <<>> <=> start = Len(stream)
    BY <1>1, <1>3, EmptySeq
  <2>5. /\ Served(stream).fits = (Len(stream) - start < BufCap)
        /\ Served(stream).lines = IF Len(stream) - start < BufCap /\ start # Len(stream)
                      THEN Append(lines, SubSeq(stream, start + 1, Len(stream))) ELSE lines
    BY <1>1, <1>3, <2>1, ServedWhere
  <2> QED
    BY <1>2, <2>2, <2>3, <2>4, <2>5
<1> QED
  BY <1>2, <1>6, <1>7 DEF StreamInv

LEMMA InvCuts ==
  StreamInv => CutsDoNotMatter
<1> SUFFICES ASSUME StreamInv PROVE CutsDoNotMatter
  OBVIOUS
<1>1. StreamTypeOK /\ stream \in Seq(Bytes) /\ lines \in Seq(Seq(Bytes))
  BY DataTyped DEF StreamInv, StreamTypeOK
<1>2. IsPrefix(lines, Served(stream).lines)
  <2>1. CASE state \in {"done", "toolong"}
    <3>1. Served(stream).lines = lines
      BY <2>1 DEF StreamInv
    <3>2. IsPrefix(lines, lines)
      BY <1>1, PrefixMeans
    <3> QED
      BY <3>1, <3>2
  <2>2. CASE state \in {"open", "eof"}
    <3>1. Pieces(stream, start).lines = lines
      BY <2>2 DEF StreamInv, At
    <3>2. PICK b \in Seq(Seq(Bytes)) : b = Pieces(stream, Len(stream)).lines
      <4>1. Len(stream) \in 0..Len(stream)
        BY <1>1, DataTyped
      <4> QED
        BY <1>1, <4>1, PiecesGrow DEF Taken
    <3>3. IsPrefix(lines, b)
      <4>1. start <= Len(stream) /\ start \in Nat
        BY <1>1, DataTyped
      <4>2. IsPrefix(Pieces(stream, start).lines, Pieces(stream, Len(stream)).lines)
        BY <1>1, <4>1, PiecesAdd, DataTyped
      <4> QED
        BY <3>1, <3>2, <4>2
    <3>4. Served(stream).lines = b \/ \E e \in Seq(Bytes) : Served(stream).lines = Append(b, e)
      <4>1. PICK q : q = Pieces(stream, Len(stream)).from
        OBVIOUS
      <4>2. q \in Nat \ {0} /\ Len(stream) \in Nat
        BY <1>1, <4>1, PiecesGrow, DataTyped DEF Taken
      <4>3. PICK rest : rest = SubSeq(stream, q, Len(stream))
        OBVIOUS
      <4>4. rest \in Seq(Bytes)
        <5>1. \A i \in q..Len(stream) : stream[i] \in Bytes
          BY <1>1, <4>2
        <5>2. q \in Int /\ Len(stream) \in Int
          BY <4>2
        <5> QED
          BY <4>3, <5>1, <5>2, SubSeqProperties
      <4>5. Served(stream).lines = IF Len(rest) < BufCap /\ rest # <<>>
                                   THEN Append(b, rest) ELSE b
        BY <3>2, <4>1, <4>3 DEF Served
      <4> QED
        BY <4>4, <4>5
    <3>5. ASSUME NEW e \in Seq(Bytes) PROVE IsPrefix(lines, Append(b, e))
      <4>1. PICK c \in Seq(Seq(Bytes)) : c = Append(b, e)
        BY <3>2, AppendTyped
      <4>2. Len(c) = Len(b) + 1 /\ \A j \in 1..Len(b) : c[j] = b[j]
        BY <4>1, AppendProperties
      <4>3. Len(lines) <= Len(b) /\ \A j \in 1..Len(lines) : lines[j] = b[j]
        BY <1>1, <3>3, PrefixMeans
      <4>4. Len(lines) <= Len(c) /\ \A j \in 1..Len(lines) : lines[j] = c[j]
        BY <1>1, <4>2, <4>3
      <4> QED
        BY <1>1, <4>1, <4>4, PrefixMeans
    <3> QED
      BY <3>3, <3>4, <3>5
  <2> QED
    BY <1>1, <2>1, <2>2 DEF StreamTypeOK
<1> QED
  BY <1>1, <1>2 DEF StreamInv, CutsDoNotMatter

LEMMA StreamKeeps ==
  StreamInv /\ [StreamNext]_streamVars => StreamInv'
<1> SUFFICES ASSUME StreamInv, [StreamNext]_streamVars PROVE StreamInv'
  OBVIOUS
<1>1. ASSUME NEW n \in 1..BufCap, Read(n) PROVE StreamInv'
  BY <1>1, ReadKeeps
<1>2. CASE ClientCloses
  BY <1>2, ClosesKeeps
<1>3. CASE BufferFull
  BY <1>3, FullKeeps
<1>4. CASE Line
  BY <1>4, LineKeeps
<1>5. CASE LastLine
  BY <1>5, LastKeeps
<1>6. CASE UNCHANGED streamVars
  <2>1. Data' = Data
    BY <1>6 DEF streamVars, Data
  <2> QED
    BY <1>6, <2>1 DEF streamVars, StreamInv, StreamTypeOK
<1> QED
  BY <1>1, <1>2, <1>3, <1>4, <1>5, <1>6 DEF StreamNext

\* The lines that the scanner yields do not depend on how the stream arrives: they
\* are a prefix of those that cutting the whole stream gives, and all of them once it
\* is done.  For any stream and any positive size of the buffer.
THEOREM CutsServeTheBytes ==
  StreamSpec => []CutsDoNotMatter
  BY StreamStarts, StreamKeeps, InvCuts, PTL DEF StreamSpec

-----------------------------------------------------------------------------
(* SpaceFrom and Args: the grammar.                                         *)

LEMMA ColonDiffers == Colon # Space
<1>1. Colon = Space => Bytes = {CR, LF, Space, Other}
  BY DEF Bytes
<1>2. Cardinality({CR, LF, Space, Other}) <= 4
  BY FourBytes
<1> QED
  BY <1>1, <1>2, BytesAssumption

\* The first space at p or later, or the end of the line.
LEMMA SpaceFromMeans ==
  ASSUME NEW line \in Seq(Bytes), NEW p \in 1..(Len(line) + 1)
  PROVE  LET e == SpaceFrom(line, p)
         IN  /\ e \in p..(Len(line) + 1)
             /\ e = Len(line) + 1 \/ line[e] = Space
             /\ \A q \in p..(e - 1) : line[q] # Space
<1> DEFINE L == Len(line)
           S == {q \in p..L : line[q] = Space} \cup {L + 1}
<1>1. L \in Nat /\ p \in Nat /\ p <= L + 1
  OBVIOUS
<1> HIDE DEF L
<1>2. S \subseteq Nat /\ L + 1 \in S
  BY <1>1
<1>3. PICK e : e = Min(S)
  OBVIOUS
<1>4. e \in S /\ \A y \in S : e <= y
  BY <1>2, <1>3, LeastExists
<1>5. e \in p..(L + 1) /\ (e = L + 1 \/ line[e] = Space)
  BY <1>1, <1>4
<1>6. ASSUME NEW q \in p..(e - 1) PROVE line[q] # Space
  <2>1. q \in p..L /\ q < e
    BY <1>1, <1>5
  <2>2. q \notin S
    BY <1>1, <1>4, <1>5, <2>1
  <2> QED
    BY <2>1, <2>2
<1>7. e = SpaceFrom(line, p)
  BY <1>3 DEF SpaceFrom, L
<1> QED
  BY <1>5, <1>6, <1>7 DEF L

\* It is the one place that has no space before it.
LEMMA SpaceFromIs ==
  ASSUME NEW line \in Seq(Bytes), NEW p \in 1..(Len(line) + 1), NEW e \in p..(Len(line) + 1),
         e = Len(line) + 1 \/ line[e] = Space,
         \A q \in p..(e - 1) : line[q] # Space
  PROVE  SpaceFrom(line, p) = e
<1>1. PICK d : d = SpaceFrom(line, p)
  OBVIOUS
<1>2. /\ d \in p..(Len(line) + 1)
      /\ d = Len(line) + 1 \/ line[d] = Space
      /\ \A q \in p..(d - 1) : line[q] # Space
  BY <1>1, SpaceFromMeans
<1>3. Len(line) \in Nat /\ p \in Nat
  OBVIOUS
<1>4. ~(d < e)
  <2> SUFFICES ASSUME d < e PROVE FALSE
    OBVIOUS
  <2>1. d \in p..(e - 1) /\ d # Len(line) + 1
    BY <1>2, <1>3
  <2> QED
    BY <1>2, <2>1
<1>5. ~(e < d)
  <2> SUFFICES ASSUME e < d PROVE FALSE
    OBVIOUS
  <2>1. e \in p..(d - 1) /\ e # Len(line) + 1
    BY <1>2, <1>3
  <2> QED
    BY <1>2, <2>1
<1> QED
  BY <1>1, <1>2, <1>3, <1>4, <1>5

\* The parameters from q on, from those f gives for later positions.
ArgsStep(line, f, q) ==
    IF q > Len(line) THEN <<>>
    ELSE IF line[q] = Space THEN f[q + 1]
    ELSE IF line[q] = Colon THEN <<SubSeq(line, q + 1, Len(line))>>
    ELSE LET end == SpaceFrom(line, q)
         IN <<SubSeq(line, q, end - 1)>> \o f[end]

ArgLists == Seq(Seq(Bytes))

LEMMA ArgsStepTyped ==
  ASSUME NEW line \in Seq(Bytes), NEW q \in 1..(Len(line) + 1), NEW f,
         \A r \in (q + 1)..(Len(line) + 1) : f[r] \in ArgLists
  PROVE  ArgsStep(line, f, q) \in ArgLists
<1>1. Len(line) \in Nat /\ q \in Nat
  OBVIOUS
<1>2. CASE q > Len(line)
  BY <1>2, EmptySeq DEF ArgsStep, ArgLists
<1>3. CASE q <= Len(line) /\ line[q] = Space
  <2>1. q + 1 \in (q + 1)..(Len(line) + 1) /\ ~(q > Len(line))
    BY <1>1, <1>3
  <2> QED
    BY <1>3, <2>1 DEF ArgsStep
<1>4. CASE q <= Len(line) /\ line[q] # Space
  <2>0. ~(q > Len(line))
    BY <1>1, <1>4
  <2>1. ASSUME NEW m \in Nat, m <= Len(line), NEW p \in Nat, p <= m
        PROVE  <<SubSeq(line, p + 1, m)>> \in ArgLists
    <3>1. SubSeq(line, p + 1, m) \in Seq(Bytes)
      BY <2>1, PartOf
    <3> QED
      BY <3>1 DEF ArgLists
  <2>2. CASE line[q] = Colon
    <3>1. <<SubSeq(line, q + 1, Len(line))>> \in ArgLists
      <4>1. PICK m \in Nat : m = Len(line) /\ m <= Len(line) /\ q <= m
        BY <1>1, <1>4
      <4> QED
        BY <1>1, <2>1, <4>1
    <3> QED
      BY <1>4, <2>0, <2>2, <3>1 DEF ArgsStep
  <2>3. CASE line[q] # Colon
    <3>1. PICK end : end = SpaceFrom(line, q)
      OBVIOUS
    <3>2. end \in q..(Len(line) + 1) /\ (end = Len(line) + 1 \/ line[end] = Space)
      BY <3>1, SpaceFromMeans
    <3>3. end \in (q + 1)..(Len(line) + 1)
      BY <1>1, <1>4, <3>2
    <3>4. <<SubSeq(line, q, end - 1)>> \in ArgLists
      <4>1. q - 1 \in Nat /\ end - 1 \in Nat /\ q - 1 <= end - 1 /\ end - 1 <= Len(line)
            /\ (q - 1) + 1 = q
        BY <1>1, <3>3
      <4> QED
        BY <2>1, <4>1
    <3>5. <<SubSeq(line, q, end - 1)>> \o f[end] \in ArgLists
      BY <3>3, <3>4, ConcatProperties DEF ArgLists
    <3> QED
      BY <1>4, <2>0, <2>3, <3>1, <3>5 DEF ArgsStep
  <2> QED
    BY <2>2, <2>3
<1> QED
  BY <1>1, <1>2, <1>3, <1>4

LEMMA ArgsStepLocal ==
  ASSUME NEW line \in Seq(Bytes), NEW q \in 1..(Len(line) + 1), NEW f, NEW g,
         \A r \in (q + 1)..(Len(line) + 1) : f[r] = g[r]
  PROVE  ArgsStep(line, f, q) = ArgsStep(line, g, q)
<1>1. Len(line) \in Nat /\ q \in Nat
  OBVIOUS
<1>2. CASE q > Len(line)
  BY <1>2 DEF ArgsStep
<1>3. CASE q <= Len(line) /\ line[q] = Space
  <2>1. q + 1 \in (q + 1)..(Len(line) + 1) /\ ~(q > Len(line))
    BY <1>1, <1>3
  <2> QED
    BY <1>3, <2>1 DEF ArgsStep
<1>4. CASE q <= Len(line) /\ line[q] # Space
  <2>0. ~(q > Len(line))
    BY <1>1, <1>4
  <2>1. PICK end : end = SpaceFrom(line, q)
    OBVIOUS
  <2>2. end \in q..(Len(line) + 1) /\ (end = Len(line) + 1 \/ line[end] = Space)
    BY <2>1, SpaceFromMeans
  <2>3. end \in (q + 1)..(Len(line) + 1)
    BY <1>1, <1>4, <2>2
  <2>4. f[end] = g[end]
    BY <2>3
  <2> QED
    BY <1>4, <2>0, <2>1, <2>4 DEF ArgsStep
<1> QED
  BY <1>1, <1>2, <1>3, <1>4

\* The recursion of Args is on later positions, and so is well founded.
LEMMA ArgsExist ==
  ASSUME NEW line \in Seq(Bytes)
  PROVE  \E f \in [1..(Len(line) + 1) -> ArgLists] :
             \A q \in 1..(Len(line) + 1) : f[q] = ArgsStep(line, f, q)
<1> DEFINE L == Len(line)
           P(n) == \E f \in [(L + 1 - n)..(L + 1) -> ArgLists] :
                       \A q \in (L + 1 - n)..(L + 1) : f[q] = ArgsStep(line, f, q)
           S == {n \in Nat : n <= L => P(n)}
<1>0. L \in Nat
  OBVIOUS
<1>1. 0 \in S
  <2>1. L + 1 - 0 = L + 1 /\ \A q \in (L + 1)..(L + 1) : q = L + 1
    BY <1>0
  <2>2. PICK f : f = [q \in (L + 1)..(L + 1) |-> <<>>]
    OBVIOUS
  <2>3. f \in [(L + 1)..(L + 1) -> ArgLists]
    BY <2>2, EmptySeq DEF ArgLists
  <2>4. ASSUME NEW q \in (L + 1)..(L + 1) PROVE f[q] = ArgsStep(line, f, q)
    BY <1>0, <2>2 DEF ArgsStep
  <2>5. P(0)
    BY <2>1, <2>3, <2>4
  <2> QED
    BY <2>5
<1>2. ASSUME NEW n \in Nat, n \in S PROVE n + 1 \in S
  <2> SUFFICES ASSUME n + 1 <= L PROVE P(n + 1)
    OBVIOUS
  <2>1. P(n)
    BY <1>0, <1>2
  <2> HIDE DEF L
  <2>2. PICK p \in Nat : p = L + 1 - (n + 1) /\ p + 1 = L + 1 - n /\ p \in 1..(L + 1)
    BY <1>0
  <2>3. PICK f \in [(p + 1)..(L + 1) -> ArgLists] :
              \A q \in (p + 1)..(L + 1) : f[q] = ArgsStep(line, f, q)
    BY <2>1, <2>2
  <2>4. PICK v \in ArgLists : v = ArgsStep(line, f, p)
    <3>1. \A r \in (p + 1)..(Len(line) + 1) : f[r] \in ArgLists
      BY <2>3 DEF L
    <3> QED
      BY <2>2, <3>1, ArgsStepTyped DEF L
  <2>5. PICK g : g = [q \in p..(L + 1) |-> IF q = p THEN v ELSE f[q]]
    OBVIOUS
  <2>6. ASSUME NEW r \in (p + 1)..(L + 1)
        PROVE  r \in p..(L + 1) /\ r # p /\ g[r] = f[r] /\ r \in 1..(L + 1)
    BY <1>0, <2>2, <2>5
  <2>7. g \in [p..(L + 1) -> ArgLists]
    <3>1. ASSUME NEW q \in p..(L + 1) PROVE (IF q = p THEN v ELSE f[q]) \in ArgLists
      <4>1. q # p => q \in (p + 1)..(L + 1)
        BY <1>0
      <4> QED
        BY <2>3, <4>1
    <3> QED
      BY <2>5, <3>1
  <2>8. ASSUME NEW q \in p..(L + 1) PROVE g[q] = ArgsStep(line, g, q)
    <3>1. \A r \in (q + 1)..(Len(line) + 1) : g[r] = f[r]
      <4>1. \A r \in (q + 1)..(L + 1) : r \in (p + 1)..(L + 1)
        BY <1>0, <2>2
      <4> QED
        BY <2>6, <4>1 DEF L
    <3>2. q \in 1..(Len(line) + 1)
      <4>1. q \in 1..(L + 1)
        BY <1>0, <2>2
      <4> QED
        BY <4>1 DEF L
    <3>3. ArgsStep(line, g, q) = ArgsStep(line, f, q)
      BY <3>1, <3>2, ArgsStepLocal
    <3>4. g[q] = ArgsStep(line, f, q)
      <4>1. CASE q = p
        <5>1. g[p] = v
          BY <1>0, <2>2, <2>5
        <5> QED
          BY <2>4, <4>1, <5>1
      <4>2. CASE q # p
        <5>1. q \in (p + 1)..(L + 1)
          BY <1>0, <2>2, <4>2
        <5> QED
          BY <2>3, <2>6, <5>1
      <4> QED
        BY <4>1, <4>2
    <3> QED
      BY <3>3, <3>4
  <2> QED
    BY <2>2, <2>7, <2>8
<1>3. L \in S
  <2> HIDE DEF S
  <2> QED
    BY <1>0, <1>1, <1>2, NatAll
<1>4. P(L) /\ L + 1 - L = 1
  BY <1>0, <1>3
<1> QED
  BY <1>4

\* Args at a position is its own step from the later positions.
LEMMA ArgsMeans ==
  ASSUME NEW line \in Seq(Bytes), NEW q \in 1..(Len(line) + 1)
  PROVE  /\ Args(line, q) \in ArgLists
         /\ q = Len(line) + 1 => Args(line, q) = <<>>
         /\ q <= Len(line) =>
              /\ line[q] = Space => Args(line, q) = Args(line, q + 1)
              /\ line[q] = Colon => Args(line, q) = <<SubSeq(line, q + 1, Len(line))>>
              /\ line[q] \notin {Space, Colon} =>
                    Args(line, q) = <<SubSeq(line, q, SpaceFrom(line, q) - 1)>>
                                    \o Args(line, SpaceFrom(line, q))
<1> DEFINE F == CHOOSE f : f = [r \in 1..Len(line) + 1 |-> ArgsStep(line, f, r)]
<1>1. \A r : Args(line, r) = F[r]
  BY Zenon DEF Args, ArgsStep
<1>2. PICK f \in [1..(Len(line) + 1) -> ArgLists] :
             \A r \in 1..(Len(line) + 1) : f[r] = ArgsStep(line, f, r)
  BY ArgsExist
<1>3. f = [r \in 1..Len(line) + 1 |-> ArgsStep(line, f, r)]
  BY <1>2
<1>4. F = [r \in 1..Len(line) + 1 |-> ArgsStep(line, F, r)]
  BY <1>3, Zenon
<1> HIDE DEF F
<1>5. \A r \in 1..(Len(line) + 1) : F[r] = ArgsStep(line, F, r)
  BY <1>4
<1>6. Len(line) \in Nat
  OBVIOUS
<1>7. F[q] \in ArgLists
  <2> DEFINE S == {n \in Nat : n <= Len(line) => f[Len(line) + 1 - n] = F[Len(line) + 1 - n]
                                 /\ \A r \in (Len(line) + 1 - n)..(Len(line) + 1) : F[r] = f[r]}
  <2>1. 0 \in S
    <3>1. F[Len(line) + 1] = <<>> /\ f[Len(line) + 1] = <<>>
      <4>1. Len(line) + 1 \in 1..(Len(line) + 1) /\ Len(line) + 1 > Len(line)
        BY <1>6
      <4> QED
        BY <1>2, <1>5, <4>1 DEF ArgsStep
    <3>2. Len(line) + 1 - 0 = Len(line) + 1
          /\ \A r \in (Len(line) + 1)..(Len(line) + 1) : r = Len(line) + 1
      BY <1>6
    <3> QED
      BY <3>1, <3>2
  <2>2. ASSUME NEW n \in Nat, n \in S PROVE n + 1 \in S
    <3> SUFFICES ASSUME n + 1 <= Len(line)
                 PROVE  \A r \in (Len(line) + 1 - (n + 1))..(Len(line) + 1) : F[r] = f[r]
      BY <1>6
    <3>1. PICK p \in 1..(Len(line) + 1) : p = Len(line) + 1 - (n + 1)
      BY <1>6
    <3>2. p + 1 = Len(line) + 1 - n
      BY <1>6, <3>1
    <3>3. \A r \in (p + 1)..(Len(line) + 1) : F[r] = f[r]
      BY <1>6, <2>2, <3>2
    <3>4. F[p] = f[p]
      <4>1. ArgsStep(line, F, p) = ArgsStep(line, f, p)
        BY <3>3, ArgsStepLocal
      <4> QED
        BY <1>2, <1>5, <4>1
    <3>5. ASSUME NEW r \in p..(Len(line) + 1) PROVE F[r] = f[r]
      <4>1. r # p => r \in (p + 1)..(Len(line) + 1)
        BY <1>6
      <4> QED
        BY <3>3, <3>4, <4>1
    <3> QED
      BY <3>1, <3>5
  <2>3. PICK n \in Nat : n = Len(line) + 1 - q /\ n <= Len(line)
    <3>1. Len(line) + 1 - q \in Nat /\ Len(line) + 1 - q <= Len(line)
      BY <1>6
    <3> QED
      BY <3>1
  <2>4. n \in S
    <3> HIDE DEF S
    <3> QED
      BY <2>1, <2>2, NatAll
  <2>5. f[q] = F[q]
    <3>1. Len(line) + 1 - n = q
      BY <1>6, <2>3
    <3> QED
      BY <2>3, <2>4, <3>1
  <2> QED
    BY <1>2, <2>5
<1>8. F[q] = ArgsStep(line, F, q)
  BY <1>5
<1>9. q = Len(line) + 1 => q > Len(line)
  BY <1>6
<1>10. q <= Len(line) => ~(q > Len(line))
  BY <1>6
<1>11. Args(line, q) = ArgsStep(line, F, q)
  BY <1>1, <1>8
<1>12. q = Len(line) + 1 => Args(line, q) = <<>>
  BY <1>9, <1>11 DEF ArgsStep
<1>13. ASSUME q <= Len(line), line[q] = Space PROVE Args(line, q) = Args(line, q + 1)
  BY <1>1, <1>10, <1>11, <1>13 DEF ArgsStep
<1>14. ASSUME q <= Len(line), line[q] = Colon
       PROVE  Args(line, q) = <<SubSeq(line, q + 1, Len(line))>>
  BY <1>10, <1>11, <1>14, ColonDiffers DEF ArgsStep
<1>15. ASSUME q <= Len(line), line[q] \notin {Space, Colon}
       PROVE  Args(line, q) = <<SubSeq(line, q, SpaceFrom(line, q) - 1)>>
                              \o Args(line, SpaceFrom(line, q))
  BY <1>1, <1>10, <1>11, <1>15 DEF ArgsStep
<1> QED
  BY <1>1, <1>7, <1>12, <1>13, <1>14, <1>15

-----------------------------------------------------------------------------
(* ParseByte: the parser at a byte of the prefix or the command.            *)

\* The parser's state by its parts.
Parser(ctx, from, prefix, command, args) ==
    [ctx |-> ctx, from |-> from, prefix |-> prefix, command |-> command, args |-> args]

ParserStates ==
    [ctx : {"none", "prefix", "command", "arg", "trailing"}, from : Nat \ {0},
     prefix : Seq(Bytes), command : Seq(Bytes), args : ArgLists]
Parsing(t, is) == Run(LAMBDA st, i : ParseByte(t, st, i), Begin, is)

\* Changes of the parser's state.
Moved(st, ctx, from) == [st EXCEPT !.ctx = ctx, !.from = from]
GotPrefix(st, v) == [st EXCEPT !.prefix = v]
GotCommand(st, v) == [st EXCEPT !.command = v]
GotArgs(st, v) == [st EXCEPT !.args = v]

LEMMA ParserMoves ==
  ASSUME NEW x, NEW f, NEW p, NEW c, NEW a, NEW y, NEW g
  PROVE  Moved(Parser(x, f, p, c, a), y, g) = Parser(y, g, p, c, a)
<1>1. [Parser(x, f, p, c, a) EXCEPT !.ctx = y] = Parser(y, f, p, c, a)
  BY DEF Parser
<1>2. [Parser(y, f, p, c, a) EXCEPT !.from = g] = Parser(y, g, p, c, a)
  BY DEF Parser
<1>3. PICK st : st = Parser(x, f, p, c, a)
  OBVIOUS
<1>4. [st EXCEPT !.ctx = y, !.from = g] = [[st EXCEPT !.ctx = y] EXCEPT !.from = g]
  OBVIOUS
<1> QED
  BY <1>1, <1>2, <1>3, <1>4 DEF Moved

LEMMA ParserTakes ==
  ASSUME NEW x, NEW f, NEW p, NEW c, NEW a, NEW v
  PROVE  /\ GotPrefix(Parser(x, f, p, c, a), v) = Parser(x, f, v, c, a)
         /\ GotCommand(Parser(x, f, p, c, a), v) = Parser(x, f, p, v, a)
         /\ GotArgs(Parser(x, f, p, c, a), v) = Parser(x, f, p, c, v)
<1>1. GotPrefix(Parser(x, f, p, c, a), v) = Parser(x, f, v, c, a)
  BY DEF Parser, GotPrefix, GotCommand, GotArgs
<1>2. GotCommand(Parser(x, f, p, c, a), v) = Parser(x, f, p, v, a)
  BY DEF Parser, GotPrefix, GotCommand, GotArgs
<1>3. GotArgs(Parser(x, f, p, c, a), v) = Parser(x, f, p, c, v)
  BY DEF Parser, GotPrefix, GotCommand, GotArgs
<1> QED
  BY <1>1, <1>2, <1>3

\* What each byte does, by the part of the message that it is in.
LEMMA FirstByteParsed ==
  ASSUME NEW t, NEW x, NEW f, NEW p, NEW c, NEW a
  PROVE  ParseByte(t, Parser(x, f, p, c, a), 1) =
             IF t[1] = Colon THEN Parser("prefix", 2, p, c, a) ELSE Parser("command", 1, p, c, a)
<1>1. PICK st : st = Parser(x, f, p, c, a)
  OBVIOUS
<1>2. ParseByte(t, st, 1) = IF t[1] = Colon THEN Moved(st, "prefix", 2)
                            ELSE Moved(st, "command", 1)
  BY DEF ParseByte, Moved
<1>3. /\ Moved(st, "prefix", 2) = Parser("prefix", 2, p, c, a)
      /\ Moved(st, "command", 1) = Parser("command", 1, p, c, a)
  BY <1>1, ParserMoves
<1> QED
  BY <1>1, <1>2, <1>3

LEMMA ByteParsed ==
  ASSUME NEW t, NEW i \in Nat \ {0, 1}, NEW f, NEW p, NEW c, NEW a
  PROVE  /\ ParseByte(t, Parser("none", f, p, c, a), i) =
               IF t[i] = Colon THEN Parser("trailing", i + 1, p, c, a)
               ELSE IF t[i] = Space THEN Parser("none", f, p, c, a)
               ELSE Parser("arg", i, p, c, a)
         /\ ParseByte(t, Parser("prefix", f, p, c, a), i) =
               IF t[i] = Space THEN Parser("command", i + 1, SubSeq(t, f, i - 1), c, a)
               ELSE Parser("prefix", f, p, c, a)
         /\ ParseByte(t, Parser("command", f, p, c, a), i) =
               IF t[i] = Space THEN Parser("none", i, p, SubSeq(t, f, i - 1), a)
               ELSE Parser("command", f, p, c, a)
         /\ ParseByte(t, Parser("arg", f, p, c, a), i) =
               IF t[i] = Space THEN Parser("none", i, p, c, Append(a, SubSeq(t, f, i - 1)))
               ELSE Parser("arg", f, p, c, a)
         /\ ParseByte(t, Parser("trailing", f, p, c, a), i) = Parser("trailing", f, p, c, a)
<1>0. i # 1 /\ Colon # Space
  BY ColonDiffers
<1>1. ParseByte(t, Parser("none", f, p, c, a), i) =
               IF t[i] = Colon THEN Parser("trailing", i + 1, p, c, a)
               ELSE IF t[i] = Space THEN Parser("none", f, p, c, a)
               ELSE Parser("arg", i, p, c, a)
  <2>1. PICK st : st = Parser("none", f, p, c, a)
    OBVIOUS
  <2>2. st.ctx = "none" /\ st.from = f /\ st.args = a
    BY <2>1 DEF Parser
  <2>3. ParseByte(t, st, i) =
            IF t[i] = Colon THEN Moved(st, "trailing", i + 1)
            ELSE IF t[i] = Space THEN st ELSE Moved(st, "arg", i)
    BY <1>0, <2>2 DEF ParseByte, Moved, GotPrefix, GotCommand, GotArgs
  <2>4. /\ Moved(st, "trailing", i + 1) = Parser("trailing", i + 1, p, c, a)
        /\ Moved(st, "arg", i) = Parser("arg", i, p, c, a)
    BY <2>1, ParserMoves
  <2> QED
    BY <2>1, <2>3, <2>4
<1>2. ParseByte(t, Parser("prefix", f, p, c, a), i) =
               IF t[i] = Space THEN Parser("command", i + 1, SubSeq(t, f, i - 1), c, a)
               ELSE Parser("prefix", f, p, c, a)
  <2>1. PICK st : st = Parser("prefix", f, p, c, a)
    OBVIOUS
  <2>2. st.ctx = "prefix" /\ st.from = f /\ st.args = a
    BY <2>1 DEF Parser
  <2>3. ParseByte(t, st, i) =
            IF t[i] = Space
            THEN GotPrefix(Moved(st, "command", i + 1), SubSeq(t, f, i - 1))
            ELSE st
    BY <1>0, <2>2 DEF ParseByte, Moved, GotPrefix, GotCommand, GotArgs
  <2>4. GotPrefix(Moved(st, "command", i + 1), SubSeq(t, f, i - 1))
          = Parser("command", i + 1, SubSeq(t, f, i - 1), c, a)
    <3>1. Moved(st, "command", i + 1) = Parser("command", i + 1, p, c, a)
      BY <2>1, ParserMoves
    <3> QED
      BY <3>1, ParserTakes
  <2> QED
    BY <2>1, <2>3, <2>4
<1>3. ParseByte(t, Parser("command", f, p, c, a), i) =
               IF t[i] = Space THEN Parser("none", i, p, SubSeq(t, f, i - 1), a)
               ELSE Parser("command", f, p, c, a)
  <2>1. PICK st : st = Parser("command", f, p, c, a)
    OBVIOUS
  <2>2. st.ctx = "command" /\ st.from = f /\ st.args = a
    BY <2>1 DEF Parser
  <2>3. ParseByte(t, st, i) =
            IF t[i] = Space
            THEN GotCommand(Moved(st, "none", i), SubSeq(t, f, i - 1))
            ELSE st
    BY <1>0, <2>2 DEF ParseByte, Moved, GotPrefix, GotCommand, GotArgs
  <2>4. GotCommand(Moved(st, "none", i), SubSeq(t, f, i - 1))
          = Parser("none", i, p, SubSeq(t, f, i - 1), a)
    <3>1. Moved(st, "none", i) = Parser("none", i, p, c, a)
      BY <2>1, ParserMoves
    <3> QED
      BY <3>1, ParserTakes
  <2> QED
    BY <2>1, <2>3, <2>4
<1>4. ParseByte(t, Parser("arg", f, p, c, a), i) =
               IF t[i] = Space THEN Parser("none", i, p, c, Append(a, SubSeq(t, f, i - 1)))
               ELSE Parser("arg", f, p, c, a)
  <2>1. PICK st : st = Parser("arg", f, p, c, a)
    OBVIOUS
  <2>2. st.ctx = "arg" /\ st.from = f /\ st.args = a
    BY <2>1 DEF Parser
  <2>3. ParseByte(t, st, i) =
            IF t[i] = Space
            THEN GotArgs(Moved(st, "none", i), Append(a, SubSeq(t, f, i - 1)))
            ELSE st
    BY <1>0, <2>2 DEF ParseByte, Moved, GotPrefix, GotCommand, GotArgs
  <2>4. GotArgs(Moved(st, "none", i), Append(a, SubSeq(t, f, i - 1)))
          = Parser("none", i, p, c, Append(a, SubSeq(t, f, i - 1)))
    <3>1. Moved(st, "none", i) = Parser("none", i, p, c, a)
      BY <2>1, ParserMoves
    <3> QED
      BY <3>1, ParserTakes
  <2> QED
    BY <2>1, <2>3, <2>4
<1>5. ParseByte(t, Parser("trailing", f, p, c, a), i) =
               Parser("trailing", f, p, c, a)
  <2>1. PICK st : st = Parser("trailing", f, p, c, a)
    OBVIOUS
  <2>2. st.ctx = "trailing" /\ st.from = f /\ st.args = a
    BY <2>1 DEF Parser
  <2>3. ParseByte(t, st, i) =
            st
    BY <1>0, <2>2 DEF ParseByte, Moved, GotPrefix, GotCommand, GotArgs
  <2> QED
    BY <2>1, <2>3
<1> QED
  BY <1>1, <1>2, <1>3, <1>4, <1>5

LEMMA ParserTyped ==
  ASSUME NEW t \in Seq(Bytes)
  PROVE  /\ Begin \in ParserStates
         /\ \A st \in ParserStates, i \in 1..Len(t) : ParseByte(t, st, i) \in ParserStates
<1>1. Begin \in ParserStates
  BY EmptySeq DEF Begin, ParserStates, ArgLists
<1>2. ASSUME NEW st \in ParserStates, NEW i \in 1..Len(t)
      PROVE  ParseByte(t, st, i) \in ParserStates
  <2>1. PICK ctx \in {"none", "prefix", "command", "arg", "trailing"}, f \in Nat \ {0},
             p \in Seq(Bytes), c \in Seq(Bytes), a \in ArgLists : st = Parser(ctx, f, p, c, a)
    BY DEF ParserStates, Parser
  <2>2. PICK piece : piece = SubSeq(t, f, i - 1)
    OBVIOUS
  <2>3. piece \in Seq(Bytes)
    <3>1. \A j \in f..(i - 1) : t[j] \in Bytes
      OBVIOUS
    <3>2. f \in Int /\ i - 1 \in Int
      OBVIOUS
    <3> QED
      BY <2>2, <3>1, <3>2, SubSeqProperties
  <2>4. Append(a, piece) \in ArgLists
    BY <2>3, AppendTyped DEF ArgLists
  <2>5. ASSUME NEW ctx2 \in {"none", "prefix", "command", "arg", "trailing"},
               NEW f2 \in Nat \ {0}, NEW p2 \in Seq(Bytes), NEW c2 \in Seq(Bytes),
               NEW a2 \in ArgLists
        PROVE  Parser(ctx2, f2, p2, c2, a2) \in ParserStates
    BY DEF ParserStates, Parser
  <2>6. CASE i = 1
    <3>1. ParseByte(t, st, i) = Parser("prefix", 2, p, c, a)
            \/ ParseByte(t, st, i) = Parser("command", 1, p, c, a)
      BY <2>1, <2>6, FirstByteParsed
    <3> QED
      BY <2>5, <3>1
  <2>7. CASE i # 1
    <3>0. i \in Nat \ {0, 1} /\ i + 1 \in Nat \ {0} /\ i \in Nat \ {0}
      BY <2>7
    <3>1. CASE ctx = "none"
      BY <2>1, <2>5, <3>0, <3>1, ByteParsed
    <3>2. CASE ctx = "prefix"
      <4>1. ParseByte(t, st, i) = IF t[i] = Space THEN Parser("command", i + 1, piece, c, a)
                                  ELSE Parser("prefix", f, p, c, a)
        BY <2>1, <2>2, <3>0, <3>2, ByteParsed
      <4> QED
        BY <2>3, <2>5, <3>0, <4>1
    <3>3. CASE ctx = "command"
      <4>1. ParseByte(t, st, i) = IF t[i] = Space THEN Parser("none", i, p, piece, a)
                                  ELSE Parser("command", f, p, c, a)
        BY <2>1, <2>2, <3>0, <3>3, ByteParsed
      <4> QED
        BY <2>3, <2>5, <3>0, <4>1
    <3>4. CASE ctx = "arg"
      <4>1. ParseByte(t, st, i) = IF t[i] = Space THEN Parser("none", i, p, c, Append(a, piece))
                                  ELSE Parser("arg", f, p, c, a)
        BY <2>1, <2>2, <3>0, <3>4, ByteParsed
      <4> QED
        BY <2>4, <2>5, <3>0, <4>1
    <3>5. CASE ctx = "trailing"
      BY <2>1, <2>5, <3>0, <3>5, ByteParsed
    <3> QED
      BY <3>1, <3>2, <3>3, <3>4, <3>5
  <2> QED
    BY <2>6, <2>7
<1> QED
  BY <1>1, <1>2

LEMMA ParseGrows ==
  ASSUME NEW t \in Seq(Bytes)
  PROVE  /\ Parsing(t, <<>>) = Begin
         /\ \A s \in Seq((1..Len(t))) : Parsing(t, s) \in ParserStates
         /\ \A s \in Seq((1..Len(t))), i \in (1..Len(t)) :
               Parsing(t, Append(s, i)) = ParseByte(t, Parsing(t, s), i)
<1> DEFINE T == ParserStates
           U == (1..Len(t))
           op == [x \in T \X U |-> ParseByte(t, x[1], x[2])]
           F(s) == CHOOSE g : g = [i \in 0..Len(s) |->
                                     IF i = 0 THEN Begin ELSE ParseByte(t, g[i - 1], s[i])]
<1>1. Begin \in T /\ \A x \in T, i \in U : ParseByte(t, x, i) \in T
  BY ParserTyped
<1>2. \A s : Parsing(t, s) = F(s)[Len(s)]
  BY DEF Parsing, Run
<1> HIDE DEF T, U
<1>3. IsStep(T, U, op) /\ \A x \in T, i \in U : op[<<x, i>>] = ParseByte(t, x, i)
  BY <1>1 DEF IsStep
<1> HIDE DEF op
<1>4. ASSUME NEW s \in Seq(U) PROVE Parsing(t, s) = Fold(T, op, Begin, s)
  <2>0. Len(s) \in Nat /\ \A i \in 1..Len(s) : s[i] \in U /\ i # 0 /\ i - 1 \in 0..Len(s)
    OBVIOUS
  <2>1. PICK f : Values(T, op, Begin, s, f)
    BY <1>1, <1>3, ValuesExist, Zenon
  <2>2. f \in [0..Len(s) -> T] /\ f[0] = Begin
    BY <2>1 DEF Values
  <2>3. ASSUME NEW i \in 1..Len(s) PROVE f[i] = ParseByte(t, f[i - 1], s[i])
    BY <1>3, <2>0, <2>1, <2>2 DEF Values
  <2>4. PICK c : c = Begin
    OBVIOUS
  <2>5. f = [i \in 0..Len(s) |-> IF i = 0 THEN c ELSE ParseByte(t, f[i - 1], s[i])]
    BY <2>2, <2>3, <2>4
  <2>6. F(s) = [i \in 0..Len(s) |-> IF i = 0 THEN Begin ELSE ParseByte(t, F(s)[i - 1], s[i])]
    BY <2>4, <2>5, Zenon
  <2> HIDE DEF F
  <2>7. F(s)[0] = Begin
    BY <2>0, <2>6
  <2>8. ASSUME NEW i \in 1..Len(s), F(s)[i - 1] \in T
        PROVE  F(s)[i] = op[<<F(s)[i - 1], s[i]>>]
    <3>0. i # 0 /\ i \in 0..Len(s)
      BY <2>0
    <3>1. F(s)[i] = ParseByte(t, F(s)[i - 1], s[i])
      BY <2>6, <3>0, Zenon
    <3> QED
      BY <1>3, <2>0, <2>8, <3>1
  <2>9. IsStep(T, U, op) /\ Begin \in T
    BY <1>1, <1>3
  <2>10. F(s)[Len(s)] = Fold(T, op, Begin, s)
    BY <2>7, <2>8, <2>9, FoldUnique
  <2> QED
    BY <1>2, <2>10
<1>5. Parsing(t, <<>>) = Begin
  <2>1. Parsing(t, <<>>) = Fold(T, op, Begin, <<>>)
    BY <1>4, EmptySeq, Zenon
  <2> QED
    BY <1>1, <1>3, <2>1, FoldNone
<1>6. ASSUME NEW s \in Seq(U) PROVE Parsing(t, s) \in T
  BY <1>1, <1>3, <1>4, FoldTyped
<1>7. ASSUME NEW s \in Seq(U), NEW i \in U
      PROVE  Parsing(t, Append(s, i)) = ParseByte(t, Parsing(t, s), i)
  <2>1. Append(s, i) \in Seq(U)
    BY AppendTyped, Zenon
  <2>2. Fold(T, op, Begin, Append(s, i)) = op[<<Fold(T, op, Begin, s), i>>]
    BY <1>1, <1>3, FoldOne
  <2>3. Parsing(t, Append(s, i)) = op[<<Parsing(t, s), i>>]
    BY <1>4, <2>1, <2>2, Zenon
  <2> QED
    BY <1>3, <1>6, <2>3
<1> QED
  BY <1>5, <1>6, <1>7 DEF T, U

\* The parser after n bytes of the line.
Parsed(line, n) == Parsing(line, Positions(n))

\* What is known of a message after one more byte of its line.
LEMMA ParsedGrows ==
  ASSUME NEW line \in Seq(Bytes)
  PROVE  /\ Parsed(line, 0) = Begin
         /\ \A n \in 0..Len(line) : n < Len(line) =>
               Parsed(line, n + 1) = ParseByte(line, Parsed(line, n), n + 1)
<1>0. Len(line) \in Nat
  OBVIOUS
<1>1. Parsed(line, 0) = Begin
  <2>1. Positions(0) = <<>>
    BY DEF Positions
  <2> QED
    BY <2>1, ParseGrows DEF Parsed
<1>2. ASSUME NEW n \in 0..Len(line), n < Len(line)
      PROVE  Parsed(line, n + 1) = ParseByte(line, Parsed(line, n), n + 1)
  <2>1. /\ Positions(n) \in Seq(1..Len(line)) /\ n + 1 \in 1..Len(line)
        /\ Positions(n + 1) = Append(Positions(n), n + 1)
    <3>1. n \in Nat
      BY <1>0
    <3> QED
      BY <1>0, <1>2, <3>1, PositionsGrow
  <2>2. Parsing(line, Append(Positions(n), n + 1))
          = ParseByte(line, Parsing(line, Positions(n)), n + 1)
    BY <2>1, ParseGrows
  <2> QED
    BY <2>1, <2>2 DEF Parsed
<1> QED
  BY <1>1, <1>2

\* Where the prefix and the command of a line end.
LEMMA EndsMean ==
  ASSUME NEW line \in Seq(Bytes), line # <<>>
  PROVE  LET k == PrefixEnd(line)
             c == CommandEnd(line)
         IN  /\ Len(line) \in Nat \ {0}
             /\ line[1] = Colon =>
                  /\ k \in 2..(Len(line) + 1)
                  /\ k = Len(line) + 1 \/ line[k] = Space
                  /\ \A q \in 2..(k - 1) : line[q] # Space
             /\ line[1] # Colon => k = 0
             /\ k <= Len(line) =>
                  /\ c \in (k + 1)..(Len(line) + 1) /\ c >= 2
                  /\ c = Len(line) + 1 \/ line[c] = Space
                  /\ \A q \in (k + 1)..(c - 1) : q >= 2 => line[q] # Space
<1>1. Len(line) \in Nat \ {0}
  BY EmptySeq
<1>2. PICK k : k = PrefixEnd(line)
  OBVIOUS
<1>3. PICK c : c = CommandEnd(line)
  OBVIOUS
<1>4. CASE line[1] = Colon
  <2>1. k = SpaceFrom(line, 1)
    BY <1>2, <1>4 DEF PrefixEnd
  <2>2. /\ k \in 1..(Len(line) + 1)
        /\ k = Len(line) + 1 \/ line[k] = Space
        /\ \A q \in 1..(k - 1) : line[q] # Space
    BY <1>1, <2>1, SpaceFromMeans
  <2>3. k # 1
    BY <1>1, <1>4, <2>2, ColonDiffers
  <2>4. k \in 2..(Len(line) + 1) /\ \A q \in 2..(k - 1) : line[q] # Space
    BY <1>1, <2>2, <2>3
  <2>5. ASSUME k <= Len(line)
        PROVE  /\ c \in (k + 1)..(Len(line) + 1)
               /\ c = Len(line) + 1 \/ line[c] = Space
               /\ \A q \in (k + 1)..(c - 1) : line[q] # Space
    <3>1. c = SpaceFrom(line, k + 1)
      BY <1>2, <1>3, <1>4 DEF CommandEnd
    <3>2. k + 1 \in 1..(Len(line) + 1)
      BY <1>1, <2>4, <2>5
    <3> QED
      BY <3>1, <3>2, SpaceFromMeans
  <2>6. k <= Len(line) => c >= 2
    BY <1>1, <2>4, <2>5
  <2> QED
    BY <1>1, <1>2, <1>3, <1>4, <2>2, <2>4, <2>5, <2>6
<1>5. CASE line[1] # Colon
  <2>1. k = 0 /\ c = SpaceFrom(line, 2)
    BY <1>2, <1>3, <1>5 DEF PrefixEnd, CommandEnd
  <2>2. 2 \in 1..(Len(line) + 1)
    BY <1>1
  <2>3. /\ c \in 2..(Len(line) + 1)
        /\ c = Len(line) + 1 \/ line[c] = Space
        /\ \A q \in 2..(c - 1) : line[q] # Space
    BY <2>1, <2>2, SpaceFromMeans
  <2>4. c \in (k + 1)..(Len(line) + 1) /\ c >= 2
    BY <1>1, <2>1, <2>3
  <2>5. \A q \in (k + 1)..(c - 1) : q >= 2 => line[q] # Space
    BY <1>1, <2>1, <2>3
  <2> QED
    BY <1>1, <1>2, <1>3, <1>5, <2>1, <2>3, <2>4, <2>5
<1> QED
  BY <1>4, <1>5

\* After n bytes the parser is inside the prefix, the command or the rest, where
\* what it has of the parameters and what is to come are those of the grammar.
InPrefix(line, n, st) ==
    /\ line[1] = Colon /\ n < PrefixEnd(line)
    /\ st = Parser("prefix", 2, <<>>, <<>>, <<>>)
InCommand(line, n, st) ==
    /\ PrefixEnd(line) <= n /\ n < CommandEnd(line)
    /\ st = Parser("command", PrefixEnd(line) + 1, SubSeq(line, 2, PrefixEnd(line) - 1),
                   <<>>, <<>>)

\* The prefix and the command are those of the grammar.
Headed(line, ctx, from, args) ==
    Parser(ctx, from, SubSeq(line, 2, PrefixEnd(line) - 1),
           SubSeq(line, PrefixEnd(line) + 1, CommandEnd(line) - 1), args)
Between(line, n, st, a) ==
    /\ \E f : st = Headed(line, "none", f, a)
    /\ a \o Args(line, n + 1) = Args(line, CommandEnd(line))
InArg(line, n, st, a) ==
    \E f \in 1..n :
        /\ st = Headed(line, "arg", f, a)
        /\ line[f] \notin {Space, Colon} /\ \A q \in f..n : line[q] # Space
        /\ a \o Args(line, f) = Args(line, CommandEnd(line))
InTrailing(line, st, a) ==
    \E f \in Nat \ {0} :
        /\ st = Headed(line, "trailing", f, a)
        /\ a \o <<SubSeq(line, f, Len(line))>> = Args(line, CommandEnd(line))
InRest(line, n, st) ==
    /\ PrefixEnd(line) <= Len(line) /\ CommandEnd(line) <= n
    /\ \E a \in ArgLists :
           Between(line, n, st, a) \/ InArg(line, n, st, a) \/ InTrailing(line, st, a)
Inside(line, n, st) ==
    InPrefix(line, n, st) \/ InCommand(line, n, st) \/ InRest(line, n, st)

\* The first byte of a line leaves the parser inside.
LEMMA InsideStarts ==
  ASSUME NEW line \in Seq(Bytes), line # <<>>
  PROVE  Inside(line, 1, ParseByte(line, Begin, 1))
<1>1. Begin = Parser("none", 1, <<>>, <<>>, <<>>)
  BY DEF Begin, Parser
<1>2. ParseByte(line, Begin, 1) = IF line[1] = Colon THEN Parser("prefix", 2, <<>>, <<>>, <<>>)
                                  ELSE Parser("command", 1, <<>>, <<>>, <<>>)
  BY <1>1, FirstByteParsed
<1>3. CASE line[1] = Colon
  <2>1. 1 < PrefixEnd(line)
    <3>1. PrefixEnd(line) \in 2..(Len(line) + 1)
      BY <1>3, EndsMean
    <3> QED
      BY <3>1
  <2> QED
    BY <1>2, <1>3, <2>1 DEF Inside, InPrefix
<1>4. CASE line[1] # Colon
  <2>1. PrefixEnd(line) = 0 /\ Len(line) \in Nat \ {0}
    BY <1>4, EndsMean
  <2>2. 1 < CommandEnd(line)
    <3>1. 0 <= Len(line)
      BY <2>1
    <3>2. CommandEnd(line) >= 2 /\ CommandEnd(line) \in (0 + 1)..(Len(line) + 1)
      BY <2>1, <3>1, EndsMean
    <3> QED
      BY <3>2
  <2>3. SubSeq(line, 2, 0 - 1) = <<>>
    BY SubSeqEmpty
  <2> QED
    <3>1. PICK st : st = ParseByte(line, Begin, 1)
      OBVIOUS
    <3>2. PICK p : p = SubSeq(line, 2, PrefixEnd(line) - 1)
      OBVIOUS
    <3>3. p = <<>> /\ PrefixEnd(line) + 1 = 1 /\ PrefixEnd(line) <= 1
      BY <2>1, <2>3, <3>2
    <3>4. st = Parser("command", PrefixEnd(line) + 1, p, <<>>, <<>>)
      BY <1>2, <1>4, <3>1, <3>3
    <3>5. InCommand(line, 1, st)
      BY <2>2, <3>2, <3>3, <3>4 DEF InCommand
    <3> QED
      BY <3>1, <3>5 DEF Inside
<1> QED
  BY <1>3, <1>4

\* One more byte of the prefix.
LEMMA PrefixGoesOn ==
  ASSUME NEW line \in Seq(Bytes), line # <<>>, NEW i \in 2..Len(line), NEW st,
         InPrefix(line, i - 1, st)
  PROVE  Inside(line, i, ParseByte(line, st, i))
<1>1. PICK k : k = PrefixEnd(line)
  OBVIOUS
<1>2. line[1] = Colon /\ i - 1 < k /\ st = Parser("prefix", 2, <<>>, <<>>, <<>>)
  BY <1>1 DEF InPrefix
<1>3. /\ k \in 2..(Len(line) + 1) /\ Len(line) \in Nat
      /\ k = Len(line) + 1 \/ line[k] = Space
      /\ \A q \in 2..(k - 1) : line[q] # Space
  BY <1>1, <1>2, EndsMean
<1>4. ParseByte(line, st, i) =
          IF line[i] = Space THEN Parser("command", i + 1, SubSeq(line, 2, i - 1), <<>>, <<>>)
          ELSE Parser("prefix", 2, <<>>, <<>>, <<>>)
  <2>1. i \in Nat \ {0, 1}
    OBVIOUS
  <2> QED
    BY <1>2, <2>1, ByteParsed
<1>5. CASE line[i] = Space
  <2>1. i = k
    BY <1>2, <1>3, <1>5
  <2>2. i < CommandEnd(line)
    <3>1. k <= Len(line)
      BY <2>1
    <3>2. CommandEnd(line) \in (k + 1)..(Len(line) + 1)
      BY <1>1, <3>1, EndsMean
    <3> QED
      BY <1>3, <2>1, <3>2
  <2>3. InCommand(line, i, ParseByte(line, st, i))
    BY <1>1, <1>3, <1>4, <1>5, <2>1, <2>2 DEF InCommand
  <2> QED
    BY <2>3 DEF Inside
<1>6. CASE line[i] # Space
  <2>1. i < k
    BY <1>2, <1>3, <1>6
  <2>2. InPrefix(line, i, ParseByte(line, st, i))
    BY <1>1, <1>2, <1>4, <1>6, <2>1 DEF InPrefix
  <2> QED
    BY <2>2 DEF Inside
<1> QED
  BY <1>5, <1>6

\* One more byte of the command.
LEMMA CommandGoesOn ==
  ASSUME NEW line \in Seq(Bytes), line # <<>>, NEW i \in 2..Len(line), NEW st,
         InCommand(line, i - 1, st)
  PROVE  Inside(line, i, ParseByte(line, st, i))
<1>1. PICK k : k = PrefixEnd(line)
  OBVIOUS
<1>2. PICK c : c = CommandEnd(line)
  OBVIOUS
<1>3. /\ k <= i - 1 /\ i - 1 < c
      /\ st = Parser("command", k + 1, SubSeq(line, 2, k - 1), <<>>, <<>>)
  BY <1>1, <1>2 DEF InCommand
<1>4. Len(line) \in Nat /\ k \in Nat
  BY <1>1, EndsMean
<1>5. k <= Len(line)
  BY <1>3, <1>4
<1>6. /\ c \in (k + 1)..(Len(line) + 1)
      /\ c = Len(line) + 1 \/ line[c] = Space
      /\ \A q \in (k + 1)..(c - 1) : q >= 2 => line[q] # Space
  BY <1>1, <1>2, <1>5, EndsMean
<1>7. ParseByte(line, st, i) =
          IF line[i] = Space
          THEN Parser("none", i, SubSeq(line, 2, k - 1), SubSeq(line, k + 1, i - 1), <<>>)
          ELSE st
  <2>1. i \in Nat \ {0, 1}
    OBVIOUS
  <2> QED
    BY <1>3, <2>1, ByteParsed
<1>8. CASE line[i] = Space
  <2>1. i = c
    BY <1>3, <1>4, <1>6, <1>8
  <2>2. Args(line, c + 1) = Args(line, c) /\ Args(line, c + 1) \in ArgLists
    <3>1. c \in 1..(Len(line) + 1) /\ c + 1 \in 1..(Len(line) + 1) /\ c <= Len(line)
      BY <1>4, <2>1
    <3> QED
      BY <1>8, <2>1, <3>1, ArgsMeans
  <2>3. <<>> \in ArgLists /\ <<>> \o Args(line, c + 1) = Args(line, c + 1)
    BY <2>2, EmptySeq, ConcatEmptySeq DEF ArgLists
  <2>4. ParseByte(line, st, i) = Headed(line, "none", i, <<>>)
    BY <1>1, <1>2, <1>7, <1>8, <2>1 DEF Headed
  <2>5. Between(line, i, ParseByte(line, st, i), <<>>)
    BY <1>2, <2>1, <2>2, <2>3, <2>4 DEF Between
  <2>6. InRest(line, i, ParseByte(line, st, i))
    BY <1>1, <1>2, <1>5, <2>1, <2>3, <2>5 DEF InRest
  <2> QED
    BY <2>6 DEF Inside
<1>9. CASE line[i] # Space
  <2>1. i < c
    BY <1>3, <1>4, <1>6, <1>9
  <2>2. k <= i
    BY <1>3, <1>4
  <2>3. InCommand(line, i, ParseByte(line, st, i))
    BY <1>1, <1>2, <1>3, <1>7, <1>9, <2>1, <2>2 DEF InCommand
  <2> QED
    BY <2>3 DEF Inside
<1> QED
  BY <1>8, <1>9

-----------------------------------------------------------------------------
(* ParseByte: the parser in the parameters, and at the end of the line.     *)

\* One more byte between parameters.
LEMMA BetweenGoesOn ==
  ASSUME NEW line \in Seq(Bytes), NEW i \in 2..Len(line), NEW st,
         PrefixEnd(line) <= Len(line), CommandEnd(line) <= i,
         NEW a \in ArgLists, Between(line, i - 1, st, a)
  PROVE  InRest(line, i, ParseByte(line, st, i))
<1>1. PICK f : st = Headed(line, "none", f, a)
  BY DEF Between
<1>2. a \o Args(line, i) = Args(line, CommandEnd(line))
  <2>1. (i - 1) + 1 = i
    OBVIOUS
  <2> QED
    BY <2>1 DEF Between
<1>3. i \in Nat \ {0, 1} /\ i + 1 \in Nat \ {0} /\ i \in 1..i /\ i \in 1..(Len(line) + 1)
      /\ i <= Len(line)
  OBVIOUS
<1>4. ParseByte(line, st, i) = IF line[i] = Colon THEN Headed(line, "trailing", i + 1, a)
                               ELSE IF line[i] = Space THEN Headed(line, "none", f, a)
                               ELSE Headed(line, "arg", i, a)
  BY <1>1, <1>3, ByteParsed DEF Headed
<1>5. CASE line[i] = Space
  <2>1. ParseByte(line, st, i) = Headed(line, "none", f, a)
    BY <1>4, <1>5, ColonDiffers
  <2>2. Args(line, i) = Args(line, i + 1)
    BY <1>3, <1>5, ArgsMeans
  <2>3. Between(line, i, ParseByte(line, st, i), a)
    BY <1>2, <2>1, <2>2 DEF Between
  <2> QED
    BY <2>3 DEF InRest
<1>6. CASE line[i] = Colon
  <2>1. ParseByte(line, st, i) = Headed(line, "trailing", i + 1, a)
    BY <1>4, <1>6
  <2>2. Args(line, i) = <<SubSeq(line, i + 1, Len(line))>>
    BY <1>3, <1>6, ArgsMeans
  <2>3. InTrailing(line, ParseByte(line, st, i), a)
    BY <1>2, <1>3, <2>1, <2>2 DEF InTrailing
  <2> QED
    BY <2>3 DEF InRest
<1>7. CASE line[i] \notin {Space, Colon}
  <2>1. ParseByte(line, st, i) = Headed(line, "arg", i, a)
    BY <1>4, <1>7
  <2>2. \A q \in i..i : line[q] # Space
    BY <1>7
  <2>3. InArg(line, i, ParseByte(line, st, i), a)
    BY <1>2, <1>3, <1>7, <2>1, <2>2 DEF InArg
  <2> QED
    BY <2>3 DEF InRest
<1> QED
  BY <1>5, <1>6, <1>7

\* An argument that ends before e, where the line ends or has a space.
LEMMA ArgEnds ==
  ASSUME NEW line \in Seq(Bytes), NEW e \in 2..(Len(line) + 1), NEW f \in 1..(e - 1),
         e = Len(line) + 1 \/ line[e] = Space, line[f] \notin {Space, Colon},
         \A q \in f..(e - 1) : line[q] # Space,
         NEW a \in ArgLists, a \o Args(line, f) = Args(line, CommandEnd(line))
  PROVE  /\ Append(a, SubSeq(line, f, e - 1)) \in ArgLists
         /\ Append(a, SubSeq(line, f, e - 1)) \o Args(line, e) = Args(line, CommandEnd(line))
<1>1. PICK piece : piece = SubSeq(line, f, e - 1)
  OBVIOUS
<1>2. piece \in Seq(Bytes)
  <2>1. \A j \in f..(e - 1) : line[j] \in Bytes
    OBVIOUS
  <2>2. f \in Int /\ e - 1 \in Int
    OBVIOUS
  <2> QED
    BY <1>1, <2>1, <2>2, SubSeqProperties
<1>3. f \in 1..(Len(line) + 1) /\ e \in f..(Len(line) + 1) /\ e \in 1..(Len(line) + 1)
      /\ f <= Len(line)
  OBVIOUS
<1>4. SpaceFrom(line, f) = e
  BY <1>3, SpaceFromIs
<1>5. Args(line, f) = <<piece>> \o Args(line, e)
  BY <1>1, <1>3, <1>4, ArgsMeans
<1>6. a \in Seq(Seq(Bytes)) /\ <<piece>> \in Seq(Seq(Bytes)) /\ Args(line, e) \in Seq(Seq(Bytes))
  <2>1. Args(line, e) \in Seq(Seq(Bytes))
    BY <1>3, ArgsMeans DEF ArgLists
  <2>2. a \in Seq(Seq(Bytes)) /\ <<piece>> \in Seq(Seq(Bytes))
    BY <1>2 DEF ArgLists
  <2> QED
    BY <2>1, <2>2
<1>7. (a \o <<piece>>) \o Args(line, e) = a \o (<<piece>> \o Args(line, e))
  <2>1. Regroup(Seq(Bytes), a, <<piece>>, Args(line, e))
    BY <1>6, Regrouped, Zenon
  <2> QED
    BY <2>1, Zenon DEF Regroup
<1>8. Append(a, piece) = a \o <<piece>> /\ Append(a, piece) \in Seq(Seq(Bytes))
  BY <1>2, <1>6, AppendIsConcat, AppendTyped
<1> QED
  BY <1>1, <1>5, <1>7, <1>8 DEF ArgLists

\* One more byte of a parameter.
LEMMA ArgGoesOn ==
  ASSUME NEW line \in Seq(Bytes), NEW i \in 2..Len(line), NEW st,
         PrefixEnd(line) <= Len(line), CommandEnd(line) <= i,
         NEW a \in ArgLists, InArg(line, i - 1, st, a)
  PROVE  InRest(line, i, ParseByte(line, st, i))
<1>1. PICK f \in 1..(i - 1) :
        /\ st = Headed(line, "arg", f, a)
        /\ line[f] \notin {Space, Colon} /\ \A q \in f..(i - 1) : line[q] # Space
        /\ a \o Args(line, f) = Args(line, CommandEnd(line))
  BY DEF InArg
<1>2. i \in Nat \ {0, 1} /\ i \in 2..(Len(line) + 1) /\ i <= Len(line)
  OBVIOUS
<1>3. ParseByte(line, st, i) =
          IF line[i] = Space THEN Headed(line, "none", i, Append(a, SubSeq(line, f, i - 1)))
          ELSE Headed(line, "arg", f, a)
  BY <1>1, <1>2, ByteParsed DEF Headed
<1>4. CASE line[i] = Space
  <2>1. PICK b : b = Append(a, SubSeq(line, f, i - 1))
    OBVIOUS
  <2>2. b \in ArgLists /\ b \o Args(line, i) = Args(line, CommandEnd(line))
    BY <1>1, <1>2, <1>4, <2>1, ArgEnds
  <2>3. Args(line, i) = Args(line, i + 1)
    <3>1. i \in 1..(Len(line) + 1)
      OBVIOUS
    <3> QED
      BY <1>2, <1>4, <3>1, ArgsMeans
  <2>4. Between(line, i, ParseByte(line, st, i), b)
    BY <1>3, <1>4, <2>1, <2>2, <2>3 DEF Between
  <2> QED
    BY <2>2, <2>4 DEF InRest
<1>5. CASE line[i] # Space
  <2>1. \A q \in f..i : line[q] # Space
    <3>1. \A q \in f..i : q = i \/ q \in f..(i - 1)
      OBVIOUS
    <3> QED
      BY <1>1, <1>5, <3>1
  <2>2. f \in 1..i
    OBVIOUS
  <2>3. InArg(line, i, ParseByte(line, st, i), a)
    BY <1>1, <1>3, <1>5, <2>1, <2>2 DEF InArg
  <2> QED
    BY <2>3 DEF InRest
<1> QED
  BY <1>4, <1>5

\* One more byte of a line leaves the parser inside.
LEMMA InsideGoesOn ==
  ASSUME NEW line \in Seq(Bytes), line # <<>>, NEW i \in 2..Len(line), NEW st,
         Inside(line, i - 1, st)
  PROVE  Inside(line, i, ParseByte(line, st, i))
<1>1. CASE InPrefix(line, i - 1, st)
  BY <1>1, PrefixGoesOn
<1>2. CASE InCommand(line, i - 1, st)
  BY <1>2, CommandGoesOn
<1>3. CASE InRest(line, i - 1, st)
  <2>1. PICK a \in ArgLists : Between(line, i - 1, st, a) \/ InArg(line, i - 1, st, a)
                                \/ InTrailing(line, st, a)
    BY <1>3 DEF InRest
  <2>2. PrefixEnd(line) <= Len(line) /\ CommandEnd(line) <= i
    <3>1. PrefixEnd(line) <= Len(line) /\ CommandEnd(line) <= i - 1
      BY <1>3 DEF InRest
    <3>2. CommandEnd(line) \in (PrefixEnd(line) + 1)..(Len(line) + 1)
      BY <3>1, EndsMean
    <3> QED
      BY <3>1, <3>2
  <2>3. CASE Between(line, i - 1, st, a)
    BY <2>2, <2>3, BetweenGoesOn DEF Inside
  <2>4. CASE InArg(line, i - 1, st, a)
    BY <2>2, <2>4, ArgGoesOn DEF Inside
  <2>5. CASE InTrailing(line, st, a)
    <3>1. PICK f \in Nat \ {0} : st = Headed(line, "trailing", f, a)
      BY <2>5 DEF InTrailing
    <3>2. i \in Nat \ {0, 1}
      OBVIOUS
    <3>3. ParseByte(line, st, i) = st
      BY <3>1, <3>2, ByteParsed DEF Headed
    <3> QED
      BY <2>2, <2>5, <3>3 DEF InRest, Inside
  <2> QED
    BY <2>1, <2>3, <2>4, <2>5
<1> QED
  BY <1>1, <1>2, <1>3 DEF Inside

\* The parser is inside at the end of the line.
LEMMA InsideAtEnd ==
  ASSUME NEW line \in Seq(Bytes), line # <<>>
  PROVE  Inside(line, Len(line), Parsed(line, Len(line)))
<1> DEFINE S == {n \in Nat : n + 1 <= Len(line) => Inside(line, n + 1, Parsed(line, n + 1))}
<1>0. Len(line) \in Nat \ {0}
  BY EmptySeq
<1>1. 0 \in S
  <2>1. Parsed(line, 0) = Begin /\ 0 \in 0..Len(line) /\ 0 < Len(line) /\ 0 + 1 = 1
    BY <1>0, ParsedGrows
  <2>2. Parsed(line, 1) = ParseByte(line, Begin, 1)
    BY <2>1, ParsedGrows
  <2> QED
    BY <2>1, <2>2, InsideStarts
<1>2. ASSUME NEW n \in Nat, n \in S PROVE n + 1 \in S
  <2> SUFFICES ASSUME (n + 1) + 1 <= Len(line)
               PROVE  Inside(line, (n + 1) + 1, Parsed(line, (n + 1) + 1))
    OBVIOUS
  <2>1. Inside(line, n + 1, Parsed(line, n + 1))
    BY <1>0, <1>2
  <2>2. PICK i \in 2..Len(line) : i = (n + 1) + 1 /\ i - 1 = n + 1
    BY <1>0
  <2>3. n + 1 \in 0..Len(line) /\ n + 1 < Len(line)
    BY <1>0
  <2>4. Parsed(line, i) = ParseByte(line, Parsed(line, n + 1), i)
    BY <2>2, <2>3, ParsedGrows
  <2> QED
    BY <2>1, <2>2, <2>4, InsideGoesOn
<1>3. PICK n \in Nat : n + 1 = Len(line)
  <2>1. Len(line) - 1 \in Nat /\ (Len(line) - 1) + 1 = Len(line)
    BY <1>0
  <2> QED
    BY <2>1
<1>4. n \in S
  <2> HIDE DEF S
  <2> QED
    BY <1>1, <1>2, NatAll
<1> QED
  BY <1>0, <1>3, <1>4

\* A message as its parts have been told apart at the end of the line.
LEMMA ParsedMessage ==
  ASSUME NEW line, NEW x, NEW f, NEW p, NEW c, NEW a,
         Parsed(line, Len(line)) = Parser(x, f, p, c, a)
  PROVE  ParseSingleClientMessage(line) =
           LET piece == SubSeq(line, f, Len(line))
               command == IF x = "command" THEN piece ELSE c
           IN  IF x = "prefix" THEN PrefixOnly
               ELSE IF command = <<>> THEN EmptyCommand
               ELSE [prefix |-> p, command |-> command,
                     args |-> IF x \in {"arg", "trailing"} THEN Append(a, piece) ELSE a]
<1>1. PICK st : st = Run(LAMBDA s, i : ParseByte(line, s, i), Begin, Positions(Len(line)))
  OBVIOUS
<1>2. st = Parser(x, f, p, c, a)
  BY <1>1, Zenon DEF Parsed, Parsing
<1>3. st.ctx = x /\ st.from = f /\ st.prefix = p /\ st.command = c /\ st.args = a
  BY <1>2 DEF Parser
<1>4. ParseSingleClientMessage(line) =
           LET piece == SubSeq(line, st.from, Len(line))
               command == IF st.ctx = "command" THEN piece ELSE st.command
           IN  IF st.ctx = "prefix" THEN PrefixOnly
               ELSE IF command = <<>> THEN EmptyCommand
               ELSE [prefix |-> st.prefix, command |-> command,
                     args |-> ArgsAtEnd(st, piece)]
  BY <1>1, Zenon DEF ParseSingleClientMessage
<1> QED
  BY <1>3, <1>4 DEF ArgsAtEnd

\* The parser gives what the grammar does for any line.
LEMMA LineParses ==
  ASSUME NEW line \in Seq(Bytes), line # <<>>
  PROVE  ParseSingleClientMessage(line) = Grammar(line)
<1> DEFINE k == PrefixEnd(line)
           c == CommandEnd(line)
           L == Len(line)
           P == SubSeq(line, 2, k - 1)
           C == SubSeq(line, k + 1, c - 1)
<1>0. L \in Nat \ {0} /\ k \in Nat
  BY EndsMean
<1>1. PICK st : st = Parsed(line, L) /\ Inside(line, L, st)
  BY InsideAtEnd
<1>2. k <= L => c \in (k + 1)..(L + 1)
  BY EndsMean
<1>3. ASSUME k <= L PROVE C = <<>> <=> c = k + 1
  <2>1. c \in (k + 1)..(L + 1)
    BY <1>2, <1>3
  <2>2. k + 1 \in Int /\ c - 1 \in Int /\ \A j \in (k + 1)..(c - 1) : line[j] \in Bytes
    BY <1>0, <2>1
  <2>3. C \in Seq(Bytes) /\ Len(C) = IF k + 1 <= c - 1 THEN (c - 1) - (k + 1) + 1 ELSE 0
    BY <2>2, SubSeqProperties
  <2>4. Len(C) = 0 <=> c = k + 1
    BY <1>0, <2>1, <2>3
  <2> QED
    BY <2>3, <2>4, EmptySeq
<1>4. CASE InPrefix(line, L, st)
  <2>1. L < k /\ st = Parser("prefix", 2, <<>>, <<>>, <<>>)
    BY <1>4 DEF InPrefix
  <2>2. ParseSingleClientMessage(line) = PrefixOnly
    BY <1>1, <2>1, ParsedMessage
  <2>3. k > L
    BY <1>0, <2>1
  <2> QED
    BY <2>2, <2>3 DEF Grammar
<1>5. CASE InCommand(line, L, st)
  <2>1. k <= L /\ L < c /\ st = Parser("command", k + 1, P, <<>>, <<>>)
    BY <1>5 DEF InCommand
  <2>2. c = L + 1 /\ c - 1 = L /\ ~(k > L)
    BY <1>0, <1>2, <2>1
  <2>3. Args(line, c) = <<>>
    <3>1. L + 1 \in 1..(L + 1)
      BY <1>0
    <3> QED
      BY <2>2, <3>1, ArgsMeans
  <2>4. ParseSingleClientMessage(line) = IF C = <<>> THEN EmptyCommand
          ELSE [prefix |-> P, command |-> C, args |-> <<>>]
    <3>1. Parsed(line, Len(line)) = Parser("command", k + 1, P, <<>>, <<>>)
      BY <1>1, <2>1
    <3>2. SubSeq(line, k + 1, Len(line)) = C
      BY <2>2
    <3> HIDE DEF P, C, c, k
    <3>3. ParseSingleClientMessage(line) =
             LET piece == SubSeq(line, k + 1, Len(line))
                 command == IF "command" = "command" THEN piece ELSE <<>>
             IN  IF "command" = "prefix" THEN PrefixOnly
                 ELSE IF command = <<>> THEN EmptyCommand
                 ELSE [prefix |-> P, command |-> command,
                       args |-> IF "command" \in {"arg", "trailing"} THEN Append(<<>>, piece) ELSE <<>>]
      BY <3>1, ParsedMessage, Zenon
    <3> QED
      BY <3>2, <3>3
  <2>5. C = <<>> <=> c = k + 1
    BY <1>3, <2>1
  <2>6. Grammar(line) = IF c = k + 1 THEN EmptyCommand
          ELSE [prefix |-> P, command |-> C, args |-> Args(line, c)]
    BY <2>2 DEF Grammar
  <2> QED
    BY <2>3, <2>4, <2>5, <2>6
<1>6. CASE InRest(line, L, st)
  <2>1. k <= L /\ c <= L
    BY <1>6 DEF InRest
  <2>2. PICK a \in ArgLists : Between(line, L, st, a) \/ InArg(line, L, st, a)
                                \/ InTrailing(line, st, a)
    BY <1>6 DEF InRest
  <2>3. Args(line, L + 1) = <<>> /\ L + 1 \in 1..(L + 1)
    <3>1. L + 1 \in 1..(L + 1)
      BY <1>0
    <3> QED
      BY <3>1, ArgsMeans
  <2>4. SUFFICES ASSUME NEW x \in {"none", "arg", "trailing"}, NEW f, NEW b,
                        st = Headed(line, x, f, b),
                        (IF x \in {"arg", "trailing"} THEN Append(b, SubSeq(line, f, L)) ELSE b)
                           = Args(line, c)
                 PROVE  ParseSingleClientMessage(line) = Grammar(line)
    <3>1. CASE Between(line, L, st, a)
      <4>1. PICK f : st = Headed(line, "none", f, a)
        BY <3>1 DEF Between
      <4>2. a \o <<>> = Args(line, c)
        BY <2>3, <3>1 DEF Between
      <4>3. a = Args(line, c)
        BY <4>2, ConcatEmptySeq DEF ArgLists
      <4> QED
        BY <2>4, <4>1, <4>3
    <3>2. CASE InArg(line, L, st, a)
      <4>1. PICK f \in 1..L :
              /\ st = Headed(line, "arg", f, a)
              /\ line[f] \notin {Space, Colon} /\ \A q \in f..L : line[q] # Space
              /\ a \o Args(line, f) = Args(line, c)
        BY <3>2 DEF InArg
      <4>2. PICK e \in 2..(L + 1) : e = L + 1 /\ e - 1 = L
        BY <1>0
      <4>3. PICK b : b = Append(a, SubSeq(line, f, L))
        OBVIOUS
      <4>4. b \in ArgLists /\ b \o <<>> = Args(line, c)
        <5>1. /\ f \in 1..(e - 1) /\ \A q \in f..(e - 1) : line[q] # Space
              /\ e = Len(line) + 1 /\ b = Append(a, SubSeq(line, f, e - 1))
          BY <4>1, <4>2, <4>3
        <5>2. b \in ArgLists /\ b \o Args(line, e) = Args(line, c)
          BY <4>1, <4>2, <5>1, ArgEnds
        <5> QED
          BY <2>3, <4>2, <5>2
      <4>5. b = Args(line, c)
        BY <4>4, ConcatEmptySeq DEF ArgLists
      <4> QED
        BY <2>4, <4>1, <4>3, <4>5
    <3>3. CASE InTrailing(line, st, a)
      <4>1. PICK f \in Nat \ {0} :
              /\ st = Headed(line, "trailing", f, a)
              /\ a \o <<SubSeq(line, f, L)>> = Args(line, c)
        BY <3>3 DEF InTrailing
      <4>2. Append(a, SubSeq(line, f, L)) = a \o <<SubSeq(line, f, L)>>
        <5>1. f \in Int /\ L \in Int /\ \A j \in f..L : line[j] \in Bytes
          BY <1>0
        <5>2. SubSeq(line, f, L) \in Seq(Bytes)
          BY <5>1, SubSeqProperties
        <5> QED
          BY <5>2, AppendIsConcat DEF ArgLists
      <4> QED
        BY <2>4, <4>1, <4>2
    <3> QED
      BY <2>2, <3>1, <3>2, <3>3
  <2>5. ParseSingleClientMessage(line) = IF C = <<>> THEN EmptyCommand
          ELSE [prefix |-> P, command |-> C, args |-> Args(line, c)]
    <3>1. Parsed(line, Len(line)) = Parser(x, f, P, C, b)
      BY <1>1, <2>4 DEF Headed
    <3>2. x # "prefix" /\ x # "command"
      OBVIOUS
    <3> HIDE DEF P, C, c, k
    <3>3. ParseSingleClientMessage(line) =
            IF C = <<>> THEN EmptyCommand
            ELSE [prefix |-> P, command |-> C,
                  args |-> IF x \in {"arg", "trailing"} THEN Append(b, SubSeq(line, f, L)) ELSE b]
      BY <3>1, <3>2, ParsedMessage
    <3> QED
      BY <2>4, <3>3
  <2>6. C = <<>> <=> c = k + 1
    BY <1>3, <2>1
  <2>7. ~(k > L)
    BY <1>0, <2>1
  <2>8. Grammar(line) = IF c = k + 1 THEN EmptyCommand
          ELSE [prefix |-> P, command |-> C, args |-> Args(line, c)]
    BY <2>7 DEF Grammar
  <2> QED
    BY <2>5, <2>6, <2>8
<1> QED
  BY <1>1, <1>4, <1>5, <1>6 DEF Inside

\* No line is empty.
LinesInv == StreamInv /\ \A k \in DOMAIN lines : lines[k] \in Seq(Bytes) \ {<<>>}

LEMMA YieldKeeps ==
  ASSUME NEW line, Yield(line), lines \in Seq(Seq(Bytes)), lines' \in Seq(Seq(Bytes)),
         \A k \in DOMAIN lines : lines[k] \in Seq(Bytes) \ {<<>>}
  PROVE  \A k \in DOMAIN lines' : lines'[k] \in Seq(Bytes) \ {<<>>}
<1>1. CASE line = <<>>
  BY <1>1 DEF Yield
<1>2. CASE line # <<>>
  <2>1. lines' = Append(lines, line)
    BY <1>2 DEF Yield
  <2>2. /\ DOMAIN lines = 1..Len(lines) /\ DOMAIN lines' = 1..(Len(lines) + 1)
        /\ Len(lines) \in Nat /\ lines'[Len(lines) + 1] = line
        /\ \A k \in 1..Len(lines) : lines'[k] = lines[k]
    BY <2>1
  <2>3. ASSUME NEW k \in 1..(Len(lines) + 1) PROVE lines'[k] \in Seq(Bytes) \ {<<>>}
    <3>1. CASE k = Len(lines) + 1
      <4>1. lines'[k] \in Seq(Bytes)
        BY <2>2
      <4> QED
        BY <1>2, <2>2, <3>1, <4>1
    <3>2. CASE k # Len(lines) + 1
      <4>1. k \in 1..Len(lines)
        BY <2>2, <3>2
      <4> QED
        BY <2>2, <4>1
    <3> QED
      BY <3>1, <3>2
  <2> QED
    BY <2>2, <2>3
<1> QED
  BY <1>1, <1>2

\* ParseSingleClientMessage takes every line that the scanner yields apart as the
\* grammar of the protocol does, whatever bytes the client sends.
THEOREM LinesParse ==
  StreamSpec => []ParsesByGrammar
<1>1. StreamInit => LinesInv
  <2>1. StreamInit => lines = <<>> /\ DOMAIN lines = {}
    BY EmptySeq DEF StreamInit
  <2> QED
    BY <2>1, StreamStarts DEF LinesInv
<1>2. LinesInv /\ [StreamNext]_streamVars => LinesInv'
  <2> SUFFICES ASSUME LinesInv, [StreamNext]_streamVars PROVE LinesInv'
    OBVIOUS
  <2>1. StreamInv /\ StreamInv'
    BY StreamKeeps DEF LinesInv
  <2>2. lines \in Seq(Seq(Bytes)) /\ lines' \in Seq(Seq(Bytes))
    BY <2>1 DEF StreamInv, StreamTypeOK
  <2>3. \A k \in DOMAIN lines : lines[k] \in Seq(Bytes) \ {<<>>}
    BY DEF LinesInv
  <2>4. ASSUME lines' = lines PROVE LinesInv'
    BY <2>1, <2>3, <2>4 DEF LinesInv
  <2>5. ASSUME NEW line, Yield(line) PROVE LinesInv'
    BY <2>1, <2>2, <2>3, <2>5, YieldKeeps DEF LinesInv
  <2>6. ASSUME NEW n \in 1..BufCap, Read(n) PROVE LinesInv'
    BY <2>4, <2>6 DEF Read
  <2>7. CASE ClientCloses \/ BufferFull
    BY <2>4, <2>7 DEF ClientCloses, BufferFull
  <2>8. CASE Line
    BY <2>5, <2>8, Zenon DEF Line
  <2>9. CASE LastLine
    BY <2>5, <2>9, Zenon DEF LastLine
  <2>10. CASE UNCHANGED streamVars
    BY <2>4, <2>10 DEF streamVars
  <2> QED
    BY <2>6, <2>7, <2>8, <2>9, <2>10 DEF StreamNext
<1>3. LinesInv => ParsesByGrammar
  BY LineParses DEF LinesInv, ParsesByGrammar
<1> QED
  BY <1>1, <1>2, <1>3, PTL DEF StreamSpec

-----------------------------------------------------------------------------
(* The walks down a page: Only, Kids and Below.                             *)

\* One more child, if it matches.
OnlyStep(out, x, S) == IF x \in S THEN Append(out, x) ELSE out

LEMMA OnlyTyped ==
  ASSUME NEW E, NEW S
  PROVE  \A out \in Seq(E), e \in E : OnlyStep(out, e, S) \in Seq(E)
BY AppendTyped DEF OnlyStep

LEMMA OnlyGrows ==
  ASSUME NEW E, NEW S
  PROVE  /\ Only(<<>>, S) = <<>>
         /\ \A s \in Seq(E) : Only(s, S) \in Seq(E)
         /\ \A s \in Seq(E), e \in E :
               Only(Append(s, e), S) = OnlyStep(Only(s, S), e, S)
<1> DEFINE T == Seq(E)
           U == E
           op == [x \in T \X U |-> OnlyStep(x[1], x[2], S)]
           F(s) == CHOOSE g : g = [i \in 0..Len(s) |->
                                     IF i = 0 THEN <<>> ELSE OnlyStep(g[i - 1], s[i], S)]
<1>1. <<>> \in T /\ \A x \in T, e \in U : OnlyStep(x, e, S) \in T
  BY OnlyTyped, EmptySeq
<1>2. \A s : Only(s, S) = F(s)[Len(s)]
  BY DEF Only, Run, OnlyStep
<1> HIDE DEF T, U
<1>3. IsStep(T, U, op) /\ \A x \in T, e \in U : op[<<x, e>>] = OnlyStep(x, e, S)
  BY <1>1 DEF IsStep
<1> HIDE DEF op
<1>4. ASSUME NEW s \in Seq(U) PROVE Only(s, S) = Fold(T, op, <<>>, s)
  <2>0. Len(s) \in Nat /\ \A i \in 1..Len(s) : s[i] \in U /\ i # 0 /\ i - 1 \in 0..Len(s)
    OBVIOUS
  <2>1. PICK f : Values(T, op, <<>>, s, f)
    BY <1>1, <1>3, ValuesExist, Zenon
  <2>2. f \in [0..Len(s) -> T] /\ f[0] = <<>>
    BY <2>1 DEF Values
  <2>3. ASSUME NEW i \in 1..Len(s) PROVE f[i] = OnlyStep(f[i - 1], s[i], S)
    BY <1>3, <2>0, <2>1, <2>2 DEF Values
  <2>4. PICK c : c = <<>>
    OBVIOUS
  <2>5. f = [i \in 0..Len(s) |-> IF i = 0 THEN c ELSE OnlyStep(f[i - 1], s[i], S)]
    BY <2>2, <2>3, <2>4
  <2>6. F(s) = [i \in 0..Len(s) |-> IF i = 0 THEN <<>> ELSE OnlyStep(F(s)[i - 1], s[i], S)]
    BY <2>4, <2>5, Zenon
  <2> HIDE DEF F
  <2>7. F(s)[0] = <<>>
    BY <2>0, <2>6
  <2>8. ASSUME NEW i \in 1..Len(s), F(s)[i - 1] \in T
        PROVE  F(s)[i] = op[<<F(s)[i - 1], s[i]>>]
    <3>0. i # 0 /\ i \in 0..Len(s)
      BY <2>0
    <3>1. F(s)[i] = OnlyStep(F(s)[i - 1], s[i], S)
      BY <2>6, <3>0, Zenon
    <3> QED
      BY <1>3, <2>0, <2>8, <3>1
  <2>9. IsStep(T, U, op) /\ <<>> \in T
    BY <1>1, <1>3
  <2>10. F(s)[Len(s)] = Fold(T, op, <<>>, s)
    BY <2>7, <2>8, <2>9, FoldUnique
  <2> QED
    BY <1>2, <2>10
<1>5. Only(<<>>, S) = <<>>
  <2>1. Only(<<>>, S) = Fold(T, op, <<>>, <<>>)
    BY <1>4, EmptySeq, Zenon
  <2> QED
    BY <1>1, <1>3, <2>1, FoldNone
<1>6. ASSUME NEW s \in Seq(U) PROVE Only(s, S) \in T
  BY <1>1, <1>3, <1>4, FoldTyped
<1>7. ASSUME NEW s \in Seq(U), NEW e \in U
      PROVE  Only(Append(s, e), S) = OnlyStep(Only(s, S), e, S)
  <2>1. Append(s, e) \in Seq(U)
    BY AppendTyped, Zenon
  <2>2. Fold(T, op, <<>>, Append(s, e)) = op[<<Fold(T, op, <<>>, s), e>>]
    BY <1>1, <1>3, FoldOne
  <2>3. Only(Append(s, e), S) = op[<<Only(s, S), e>>]
    BY <1>4, <2>1, <2>2, Zenon
  <2> QED
    BY <1>3, <1>6, <2>3
<1> QED
  BY <1>5, <1>6, <1>7 DEF T, U

\* Everything is taken, or nothing.
LEMMA OnlyAll ==
  ASSUME NEW E, NEW S
  PROVE  /\ E \subseteq S => \A s \in Seq(E) : Only(s, S) = s
         /\ E \cap S = {} => \A s \in Seq(E) : Only(s, S) = <<>>
<1>1. ASSUME E \subseteq S PROVE \A s \in Seq(E) : Only(s, S) = s
  <2> DEFINE G == {s \in Seq(E) : Only(s, S) = s}
  <2>1. <<>> \in G
    BY OnlyGrows, EmptySeq
  <2>2. ASSUME NEW s \in Seq(E), NEW e \in E, s \in G PROVE Append(s, e) \in G
    <3>1. Only(Append(s, e), S) = OnlyStep(s, e, S)
      BY <2>2, OnlyGrows
    <3>2. OnlyStep(s, e, S) = Append(s, e)
      BY <1>1 DEF OnlyStep
    <3> QED
      BY <3>1, <3>2, AppendTyped
  <2>3. \A s \in Seq(E) : s \in G
    <3> HIDE DEF G
    <3> QED
      BY <2>1, <2>2, SeqAll
  <2> QED
    BY <2>3
<1>2. ASSUME E \cap S = {} PROVE \A s \in Seq(E) : Only(s, S) = <<>>
  <2> DEFINE G == {s \in Seq(E) : Only(s, S) = <<>>}
  <2>1. <<>> \in G
    BY OnlyGrows, EmptySeq
  <2>2. ASSUME NEW s \in Seq(E), NEW e \in E, s \in G PROVE Append(s, e) \in G
    <3>0. Only(Append(s, e), S) = OnlyStep(Only(s, S), e, S)
      BY OnlyGrows
    <3>1. Only(Append(s, e), S) = OnlyStep(<<>>, e, S)
      BY <2>2, <3>0
    <3>2. OnlyStep(<<>>, e, S) = <<>>
      BY <1>2 DEF OnlyStep
    <3> QED
      BY <3>1, <3>2, AppendTyped
  <2>3. \A s \in Seq(E) : s \in G
    <3> HIDE DEF G
    <3> QED
      BY <2>1, <2>2, SeqAll
  <2> QED
    BY <2>3
<1> QED
  BY <1>1, <1>2

LEMMA OnlyOfTwo ==
  ASSUME NEW S, NEW a, NEW b
  PROVE  Only(<<a, b>>, S) = OnlyStep(OnlyStep(<<>>, a, S), b, S)
<1> PICK E : E = {a, b}
  OBVIOUS
<1>0. \A s \in Seq(E), e \in E : Only(Append(s, e), S) = OnlyStep(Only(s, S), e, S)
  BY OnlyGrows
<1>1. PICK u : u = <<>>
  OBVIOUS
<1>2. PICK v : v = <<a>>
  OBVIOUS
<1>3. PICK w : w = <<a, b>>
  OBVIOUS
<1>4. u \in Seq(E) /\ v \in Seq(E) /\ v = Append(u, a) /\ w = Append(v, b)
  BY <1>1, <1>2, <1>3
<1>5. Only(<<>>, S) = <<>>
  BY OnlyGrows
<1>6. Only(u, S) = u /\ Only(v, S) = OnlyStep(Only(u, S), a, S)
      /\ Only(w, S) = OnlyStep(Only(v, S), b, S)
  BY <1>0, <1>1, <1>4, <1>5
<1> QED
  BY <1>1, <1>3, <1>6

LEMMA OnlyOfThree ==
  ASSUME NEW S, NEW a, NEW b, NEW c
  PROVE  Only(<<a, b, c>>, S) = OnlyStep(OnlyStep(OnlyStep(<<>>, a, S), b, S), c, S)
<1> PICK E : E = {a, b, c}
  OBVIOUS
<1>0. \A s \in Seq(E), e \in E : Only(Append(s, e), S) = OnlyStep(Only(s, S), e, S)
  BY OnlyGrows
<1>1. PICK v : v = <<a, b>>
  OBVIOUS
<1>2. PICK w : w = <<a, b, c>>
  OBVIOUS
<1>3. v \in Seq(E) /\ w = Append(v, c)
  BY <1>1, <1>2
<1>4. Only(w, S) = OnlyStep(Only(v, S), c, S)
  BY <1>0, <1>3
<1> QED
  BY <1>1, <1>2, <1>4, OnlyOfTwo

LEMMA JoinedOne ==
  ASSUME NEW V, NEW a \in Seq(V)
  PROVE  Joined(<<a>>) = a
<1>1. PICK none : none = <<>>
  OBVIOUS
<1>2. none \in Seq(Seq(V)) /\ <<a>> = Append(none, a)
  BY <1>1
<1>3. Joined(<<a>>) = JoinStep(Joined(none), a)
  BY <1>2, JoinedGrows
<1>4. Joined(none) = <<>>
  BY <1>1, JoinedGrows
<1> QED
  BY <1>3, <1>4, ConcatEmptySeq DEF JoinStep

LEMMA OnlyOfOne ==
  ASSUME NEW S, NEW a
  PROVE  Only(<<a>>, S) = OnlyStep(<<>>, a, S)
<1> PICK E : E = {a}
  OBVIOUS
<1>1. PICK u \in Seq(E) : u = <<>>
  BY EmptySeq
<1>2. a \in E /\ <<a>> = Append(u, a)
  BY <1>1
<1>3. Only(Append(u, a), S) = OnlyStep(Only(u, S), a, S) /\ Only(<<>>, S) = <<>>
  BY <1>2, OnlyGrows
<1> QED
  BY <1>1, <1>2, <1>3

LEMMA ShortAppends ==
  ASSUME NEW a, NEW b
  PROVE  Append(<<>>, a) = <<a>> /\ Append(<<a>>, b) = <<a, b>>
<1>1. PICK v : v = <<a>>
  OBVIOUS
<1>2. <<a, b>> = Append(v, b)
  BY <1>1
<1>3. Append(<<>>, a) = <<a>>
  OBVIOUS
<1> QED
  BY <1>1, <1>2, <1>3, Zenon

\* A node with one child.
LEMMA KidsOfOne ==
  ASSUME NEW n, NEW k, n.kids = <<k>>, NEW is
  PROVE  Kids(n, is) = IF k.is = is THEN <<k>> ELSE <<>>
<1>1. PICK S : S = {x \in ToSet(<<k>>) : x.is = is}
  OBVIOUS
<1>2. Kids(n, is) = OnlyStep(<<>>, k, S)
  BY <1>1, OnlyOfOne DEF Kids
<1>3. k \in S <=> k.is = is
  BY <1>1 DEF ToSet
<1>4. Append(<<>>, k) = <<k>>
  OBVIOUS
<1> QED
  BY <1>2, <1>3, <1>4 DEF OnlyStep

LEMMA KidsOfTwo ==
  ASSUME NEW n, NEW k, NEW l, n.kids = <<k, l>>, NEW is
  PROVE  Kids(n, is) = IF k.is = is THEN IF l.is = is THEN <<k, l>> ELSE <<k>>
                       ELSE IF l.is = is THEN <<l>> ELSE <<>>
<1>1. PICK S : S = {x \in ToSet(<<k, l>>) : x.is = is}
  OBVIOUS
<1>2. Kids(n, is) = OnlyStep(OnlyStep(<<>>, k, S), l, S)
  BY <1>1, OnlyOfTwo DEF Kids
<1>3. k \in ToSet(<<k, l>>) /\ l \in ToSet(<<k, l>>)
  BY DEF ToSet
<1>4. (k \in S <=> k.is = is) /\ (l \in S <=> l.is = is)
  BY <1>1, <1>3
<1>5. Append(<<>>, k) = <<k>> /\ Append(<<>>, l) = <<l>> /\ Append(<<k>>, l) = <<k, l>>
  BY ShortAppends, Zenon
<1> QED
  BY <1>2, <1>4, <1>5 DEF OnlyStep

\* A node between two others that are not what it is.
LEMMA KidsOfThree ==
  ASSUME NEW n, NEW k, NEW l, NEW m, n.kids = <<k, l, m>>,
         NEW a, NEW b, k.is = a, m.is = a, l.is = b, a # b
  PROVE  Kids(n, a) = <<k, m>> /\ Kids(n, b) = <<l>>
<1>1. Kids(n, a) = <<k, m>>
  <2>1. PICK S : S = {x \in ToSet(<<k, l, m>>) : x.is = a}
    OBVIOUS
  <2>2. Kids(n, a) = OnlyStep(OnlyStep(OnlyStep(<<>>, k, S), l, S), m, S)
    BY <2>1, OnlyOfThree DEF Kids
  <2>3. k \in S /\ l \notin S /\ m \in S
    <3>1. k \in ToSet(<<k, l, m>>) /\ m \in ToSet(<<k, l, m>>)
      BY DEF ToSet
    <3> QED
      BY <2>1, <3>1
  <2>4. Append(<<>>, k) = <<k>> /\ Append(<<k>>, m) = <<k, m>>
    BY ShortAppends, Zenon
  <2> QED
    BY <2>2, <2>3, <2>4 DEF OnlyStep
<1>2. Kids(n, b) = <<l>>
  <2>1. PICK S : S = {x \in ToSet(<<k, l, m>>) : x.is = b}
    OBVIOUS
  <2>2. Kids(n, b) = OnlyStep(OnlyStep(OnlyStep(<<>>, k, S), l, S), m, S)
    BY <2>1, OnlyOfThree DEF Kids
  <2>3. k \notin S /\ l \in S /\ m \notin S
    <3>1. l \in ToSet(<<k, l, m>>)
      BY DEF ToSet
    <3> QED
      BY <2>1, <3>1
  <2>4. Append(<<>>, l) = <<l>>
    OBVIOUS
  <2> QED
    BY <2>2, <2>3, <2>4 DEF OnlyStep
<1> QED
  BY <1>1, <1>2

\* A walk from one node.
LEMMA BelowOne ==
  ASSUME NEW n, NEW is, NEW V, Kids(n, is) \in Seq(V)
  PROVE  Below(<<n>>, is) = Kids(n, is)
<1>1. PICK a \in Seq(V) : a = Kids(n, is)
  OBVIOUS
<1>2. [i \in DOMAIN <<n>> |-> Kids(<<n>>[i], is)] = <<a>>
  BY <1>1
<1> QED
  BY <1>1, <1>2, JoinedOne DEF Below

LEMMA AllKidsOne ==
  ASSUME NEW n, NEW V, n.kids \in Seq(V)
  PROVE  AllKids(<<n>>) = n.kids
<1>1. PICK a \in Seq(V) : a = n.kids
  OBVIOUS
<1>2. [i \in DOMAIN <<n>> |-> <<n>>[i].kids] = <<a>>
  BY <1>1
<1> QED
  BY <1>1, <1>2, JoinedOne DEF AllKids

\* The way into nested nodes.
LEMMA BelowIn ==
  ASSUME NEW a, NEW b, NEW kids
  PROVE  /\ Below(In(a, In(b, kids)), b) = In(b, kids)
         /\ FirstBelow(In(a, In(b, kids)), b) = In(b, kids)
<1>1. PICK m : m = Node(b, 0, kids)
  OBVIOUS
<1>2. PICK n : n = Node(a, 0, <<m>>)
  OBVIOUS
<1>3. n.kids = <<m>> /\ m.is = b
  BY <1>1, <1>2 DEF Node
<1>4. Kids(n, b) = <<m>> /\ <<m>> \in Seq({m})
  BY <1>3, KidsOfOne
<1>5. Below(<<n>>, b) = <<m>>
  BY <1>4, BelowOne
<1>6. First(<<m>>) = <<m>>
  BY DEF First
<1> QED
  BY <1>1, <1>2, <1>5, <1>6 DEF In, FirstBelow

LEMMA ContentIn ==
  ASSUME NEW a, NEW kids
  PROVE  Content(In(a, Wide(kids))) = In("content", kids)
BY BelowIn DEF Content, Wide

\* Rows are found where they were put.
LEMMA RowsFound ==
  ASSUME NEW R, NEW rs \in Seq(R), NEW a, NEW is
  PROVE  /\ Vals(Leaves(is, rs)) = rs
         /\ Kids(Node(a, 0, Leaves(is, rs)), is) = Leaves(is, rs)
         /\ Below(In(a, Leaves(is, rs)), is) = Leaves(is, rs)
<1> DEFINE N == {Node(is, r, <<>>) : r \in R}
<1>1. PICK ns \in Seq(N) : ns = Leaves(is, rs)
  <2>1. Len(rs) \in Nat /\ DOMAIN rs = 1..Len(rs)
    OBVIOUS
  <2>2. \A i \in 1..Len(rs) : Node(is, rs[i], <<>>) \in N
    OBVIOUS
  <2> HIDE DEF N
  <2>3. [i \in 1..Len(rs) |-> Node(is, rs[i], <<>>)] \in Seq(N)
    BY <2>1, <2>2
  <2> QED
    BY <2>1, <2>3 DEF Leaves
<1>2. Vals(Leaves(is, rs)) = rs
  <2>1. \A i \in DOMAIN rs : Leaves(is, rs)[i].val = rs[i]
    BY DEF Leaves, Node
  <2>2. DOMAIN Leaves(is, rs) = DOMAIN rs
    BY DEF Leaves
  <2>3. Vals(Leaves(is, rs)) = [i \in DOMAIN rs |-> rs[i]]
    BY <2>1, <2>2 DEF Vals
  <2> QED
    BY <2>3
<1>3. PICK n : n = Node(a, 0, Leaves(is, rs))
  OBVIOUS
<1>4. n.kids = ns
  BY <1>1, <1>3 DEF Node
<1>5. Kids(n, is) = ns
  <2>1. PICK S : S = {k \in ToSet(ns) : k.is = is}
    OBVIOUS
  <2>2. \A i \in DOMAIN ns : ns[i].is = is
    BY <1>1 DEF Leaves, Node
  <2>3. ToSet(ns) = S
    BY <2>1, <2>2 DEF ToSet
  <2>4. ns \in Seq(S)
    BY <2>3 DEF ToSet
  <2>5. Only(ns, S) = ns
    BY <2>4, OnlyAll
  <2> QED
    BY <1>4, <2>1, <2>5 DEF Kids
<1>6. Below(<<n>>, is) = ns
  BY <1>5, BelowOne
<1> QED
  BY <1>1, <1>2, <1>3, <1>5, <1>6 DEF In

-----------------------------------------------------------------------------
(* parsePosts and parsePrivateMessageFolder.                                *)

\* Page numbers, and what is read of them.
Navigations == [current : Int, total : Int]
NoNav == [current |-> -1, total |-> -1]
NavOf(navs) == Run(TakeNav, NoNav, navs)

LEMMA NavTyped ==
  \A x \in Navigations, e \in Navigations : TakeNav(x, e) \in Navigations
BY DEF Navigations, TakeNav

LEMMA NavGrows ==
  /\ NavOf(<<>>) = NoNav
  /\ \A s \in Seq(Navigations) : NavOf(s) \in Navigations
  /\ \A s \in Seq(Navigations), e \in Navigations :
        NavOf(Append(s, e)) = TakeNav(NavOf(s), e)
<1> DEFINE T == Navigations
           U == Navigations
           op == [x \in T \X U |-> TakeNav(x[1], x[2])]
           F(s) == CHOOSE g : g = [i \in 0..Len(s) |->
                                     IF i = 0 THEN NoNav ELSE TakeNav(g[i - 1], s[i])]
<1>1. NoNav \in T /\ \A x \in T, e \in U : TakeNav(x, e) \in T
  BY NavTyped DEF NoNav, Navigations
<1>2. \A s : NavOf(s) = F(s)[Len(s)]
  BY DEF NavOf, Run
<1> HIDE DEF T, U
<1>3. IsStep(T, U, op) /\ \A x \in T, e \in U : op[<<x, e>>] = TakeNav(x, e)
  BY <1>1 DEF IsStep
<1> HIDE DEF op
<1>4. ASSUME NEW s \in Seq(U) PROVE NavOf(s) = Fold(T, op, NoNav, s)
  <2>0. Len(s) \in Nat /\ \A i \in 1..Len(s) : s[i] \in U /\ i # 0 /\ i - 1 \in 0..Len(s)
    OBVIOUS
  <2>1. PICK f : Values(T, op, NoNav, s, f)
    BY <1>1, <1>3, ValuesExist, Zenon
  <2>2. f \in [0..Len(s) -> T] /\ f[0] = NoNav
    BY <2>1 DEF Values
  <2>3. ASSUME NEW i \in 1..Len(s) PROVE f[i] = TakeNav(f[i - 1], s[i])
    BY <1>3, <2>0, <2>1, <2>2 DEF Values
  <2>4. PICK c : c = NoNav
    OBVIOUS
  <2>5. f = [i \in 0..Len(s) |-> IF i = 0 THEN c ELSE TakeNav(f[i - 1], s[i])]
    BY <2>2, <2>3, <2>4
  <2>6. F(s) = [i \in 0..Len(s) |-> IF i = 0 THEN NoNav ELSE TakeNav(F(s)[i - 1], s[i])]
    BY <2>4, <2>5, Zenon
  <2> HIDE DEF F
  <2>7. F(s)[0] = NoNav
    BY <2>0, <2>6
  <2>8. ASSUME NEW i \in 1..Len(s), F(s)[i - 1] \in T
        PROVE  F(s)[i] = op[<<F(s)[i - 1], s[i]>>]
    <3>0. i # 0 /\ i \in 0..Len(s)
      BY <2>0
    <3>1. F(s)[i] = TakeNav(F(s)[i - 1], s[i])
      BY <2>6, <3>0, Zenon
    <3> QED
      BY <1>3, <2>0, <2>8, <3>1
  <2>9. IsStep(T, U, op) /\ NoNav \in T
    BY <1>1, <1>3
  <2>10. F(s)[Len(s)] = Fold(T, op, NoNav, s)
    BY <2>7, <2>8, <2>9, FoldUnique
  <2> QED
    BY <1>2, <2>10
<1>5. NavOf(<<>>) = NoNav
  <2>1. NavOf(<<>>) = Fold(T, op, NoNav, <<>>)
    BY <1>4, EmptySeq, Zenon
  <2> QED
    BY <1>1, <1>3, <2>1, FoldNone
<1>6. ASSUME NEW s \in Seq(U) PROVE NavOf(s) \in T
  BY <1>1, <1>3, <1>4, FoldTyped
<1>7. ASSUME NEW s \in Seq(U), NEW e \in U
      PROVE  NavOf(Append(s, e)) = TakeNav(NavOf(s), e)
  <2>1. Append(s, e) \in Seq(U)
    BY AppendTyped, Zenon
  <2>2. Fold(T, op, NoNav, Append(s, e)) = op[<<Fold(T, op, NoNav, s), e>>]
    BY <1>1, <1>3, FoldOne
  <2>3. NavOf(Append(s, e)) = op[<<NavOf(s), e>>]
    BY <1>4, <2>1, <2>2, Zenon
  <2> QED
    BY <1>3, <1>6, <2>3
<1> QED
  BY <1>5, <1>6, <1>7 DEF T, U

LEMMA PostsParsed ==
  ASSUME NEW R, NEW rs \in Seq(R)
  PROVE  parsePosts(PostsPage(rs)) =
           [posts |-> Only(rs, {r \in ToSet(rs) :
                                 r.id # Bad /\ r.author # Missing /\ r.text # Missing}),
            current |-> 2, total |-> 3]
<1>1. PICK b : b = Navs("breadcrumbs")
  OBVIOUS
<1>2. PICK t : t = Node("thread", 0, Leaves("row", rs))
  OBVIOUS
<1>3. PICK nav \in Navigations : nav = [current |-> Bad, total |-> 3]
  <2>1. [current |-> Bad, total |-> 3] \in Navigations
    BY DEF Navigations, Bad
  <2> QED
    BY <2>1, Zenon
<1>4. PICK d : d = Node("breadcrumbs", nav, <<>>)
  OBVIOUS
<1>5. PICK kids : kids = <<b, t, d>>
  OBVIOUS
<1>6. <<PostsPage(rs)>> = In("body", In("usergroup", Wide(kids)))
  BY <1>1, <1>2, <1>3, <1>4, <1>5 DEF PostsPage, Body, In
<1>7. PICK content : content = Content(Below(<<PostsPage(rs)>>, "usergroup"))
  OBVIOUS
<1>8. content = In("content", kids)
  <2>1. Below(<<PostsPage(rs)>>, "usergroup") = In("usergroup", Wide(kids))
    BY <1>6, BelowIn
  <2> QED
    BY <1>7, <2>1, ContentIn
<1>9. Below(content, "breadcrumbs") = <<b, d>> /\ Below(content, "thread") = <<t>>
  <2>1. PICK n : n = Node("content", 0, kids)
    OBVIOUS
  <2>2. n.kids = <<b, t, d>> /\ d.is = "breadcrumbs"
        /\ b.is = "breadcrumbs" /\ t.is = "thread"
    BY <1>1, <1>2, <1>4, <1>5, <2>1 DEF Node, Navs
  <2>3. Kids(n, "breadcrumbs") = <<b, d>> /\ Kids(n, "thread") = <<t>>
    BY <2>2, KidsOfThree
  <2>4. <<b, d>> \in Seq({b, d}) /\ <<t>> \in Seq({t})
    OBVIOUS
  <2>5. Below(<<n>>, "breadcrumbs") = <<b, d>> /\ Below(<<n>>, "thread") = <<t>>
    BY <2>3, <2>4, BelowOne
  <2> QED
    BY <1>8, <2>1, <2>5 DEF In
<1>10. Vals(Below(<<t>>, "row")) = rs
  BY <1>2, RowsFound DEF In
<1>11. Vals(<<b, d>>) = <<Nav, nav>>
  BY <1>1, <1>4 DEF Vals, Navs, Node
<1>12. NavOf(<<Nav, nav>>) = Nav
  <2>1. Nav \in Navigations /\ Nav.current = 2 /\ NoNav.current = -1 /\ Nav.total = 3
    BY DEF Nav, NoNav, Navigations
  <2>2. PICK s0 \in Seq(Navigations) : s0 = <<>>
    BY EmptySeq
  <2>3. PICK s1 \in Seq(Navigations) : s1 = <<Nav>>
    <3>1. PICK v \in Navigations : v = Nav
      BY <2>1
    <3>2. <<v>> \in Seq(Navigations)
      OBVIOUS
    <3> QED
      BY <3>1, <3>2
  <2>4. s1 = Append(s0, Nav) /\ <<Nav, nav>> = Append(s1, nav)
    BY <2>2, <2>3
  <2>5. NavOf(s0) = NoNav /\ NavOf(s1) = TakeNav(NoNav, Nav)
        /\ NavOf(<<Nav, nav>>) = TakeNav(NavOf(s1), nav)
    BY <2>1, <2>2, <2>4, NavGrows
  <2>6. TakeNav(NoNav, Nav) = Nav
    BY <2>1 DEF TakeNav, Nav, Bad
  <2>7. TakeNav(Nav, nav) = Nav
    BY <2>1 DEF TakeNav
  <2> QED
    BY <2>5, <2>6, <2>7
<1>13. PICK found : found = Run(TakeNav, [current |-> -1, total |-> -1],
                                Vals(Below(content, "breadcrumbs")))
  OBVIOUS
<1>14. found.current = 2 /\ found.total = 3
  <2>1. found = NavOf(<<Nav, nav>>)
    BY <1>9, <1>11, <1>13, Zenon DEF NavOf, NoNav
  <2> QED
    BY <1>12, <2>1 DEF Nav
<1>15. parsePosts(PostsPage(rs)) =
         LET rows == Vals(Below(Below(content, "thread"), "row"))
         IN [posts |-> Only(rows, {r \in ToSet(rows) :
                                 r.id # Bad /\ r.author # Missing /\ r.text # Missing}),
             current |-> found.current, total |-> found.total]
  BY <1>7, <1>13, Zenon DEF parsePosts
<1>16. Vals(Below(Below(content, "thread"), "row")) = rs
  BY <1>9, <1>10
<1> QED
  BY <1>14, <1>15, <1>16

LEMMA FolderParsed ==
  ASSUME NEW R, NEW rs \in Seq(R)
  PROVE  parseFolder(FolderPage(rs)) =
           Only(rs, {r \in ToSet(rs) : r.id > 0 /\ r.author # Missing /\ r.time > 0})
<1>1. PICK kids : kids = In("form", In("table", Leaves("row", rs)))
  OBVIOUS
<1>2. <<FolderPage(rs)>> = In("body", Wide(kids))
  BY <1>1 DEF FolderPage, Body, In
<1>3. Content(<<FolderPage(rs)>>) = In("content", kids)
  BY <1>2, ContentIn, Zenon
<1>4. Below(Content(<<FolderPage(rs)>>), "form") = kids
  BY <1>1, <1>3, BelowIn
<1>5. Below(kids, "table") = In("table", Leaves("row", rs))
  BY <1>1, BelowIn, Zenon
<1>6. PICK rows : rows = Vals(Below(Below(Below(Content(<<FolderPage(rs)>>), "form"), "table"), "row"))
  OBVIOUS
<1>7. rows = rs
  BY <1>4, <1>5, <1>6, RowsFound
<1>8. parseFolder(FolderPage(rs)) =
           Only(rows, {r \in ToSet(rows) : r.id > 0 /\ r.author # Missing /\ r.time > 0})
  BY <1>6, Zenon DEF parseFolder
<1> QED
  BY <1>7, <1>8

-----------------------------------------------------------------------------
(* parseThreadsFromResponse.                                                *)

\* The threads of rows that are listed, and what is known of a list of them.
ThreadsKept(rs) == Only(rs, {r \in ToSet(rs) : Listed(r) /\ r.id # Bad})
ThreadList(kept, total, err) ==
    [threads |-> [i \in DOMAIN kept |-> [id |-> kept[i].id, killedBy |-> LastPoster(kept[i])]],
     total |-> total, err |-> err]

\* What parseThreads looks at.
ContentOf(doc) ==
    LET group == First(Kids(doc, "usergroup"))
    IN Content(IF group = <<>> THEN <<doc>> ELSE group)
TotalsOf(content) == Vals(Below(Below(content, "form"), "pages"))
RowsOf(content) == Vals(Below(Tables(content), "row"))
Readable(totals) == Only(totals, {n \in ToSet(totals) : n # Bad})

LEMMA ThreadsFrom ==
  ASSUME NEW doc, NEW content, content = ContentOf(doc)
  PROVE  parseThreads(doc) =
           LET good == Readable(TotalsOf(content))
           IN ThreadList(ThreadsKept(RowsOf(content)), IF good = <<>> THEN 1 ELSE Last(good),
                  \/ Bad \in Range(TotalsOf(content))
                  \/ \E r \in Range(RowsOf(content)) : BadNumber(r))
BY Zenon DEF parseThreads, ThreadList, ThreadsKept, ContentOf, TotalsOf, RowsOf, Readable

LEMMA ForumParsed ==
  ASSUME NEW R, NEW rs \in Seq(R)
  PROVE  parseThreads(ForumView(rs)) =
           ThreadList(ThreadsKept(rs), 1, \E r \in Range(rs) : BadNumber(r))
<1>1. PICK f : f = Forum(rs)
  OBVIOUS
<1>2. PICK doc : doc = ForumView(rs)
  OBVIOUS
<1>3. PICK group : group = In("usergroup", Wide(<<f>>))
  OBVIOUS
<1>4. First(Kids(doc, "usergroup")) = group /\ group # <<>>
  <2>1. PICK u : u = Node("usergroup", 0, Wide(<<f>>))
    OBVIOUS
  <2>2. doc.kids = <<u>> /\ u.is = "usergroup"
    BY <1>1, <1>2, <2>1 DEF ForumView, Body, In, Node
  <2>3. Kids(doc, "usergroup") = <<u>> /\ group = <<u>>
    BY <1>3, <2>1, <2>2, KidsOfOne DEF In
  <2> QED
    BY <2>3 DEF First
<1>5. PICK content : content = Content(group)
  OBVIOUS
<1>6. content = In("content", <<f>>)
  BY <1>3, <1>5, ContentIn
<1>7. PICK n : n = Node("content", 0, <<f>>)
  OBVIOUS
<1>8. n.kids = <<f>> /\ f.is = "forum" /\ content = <<n>>
  BY <1>1, <1>6, <1>7 DEF Node, In, Forum
<1>9. PICK none : none = <<>>
  OBVIOUS
<1>10. Below(none, "pages") = none /\ Vals(none) = none
  <2>1. Below(none, "pages") = Joined(<<>>)
    BY <1>9 DEF Below
  <2> QED
    BY <1>9, <2>1, JoinedGrows DEF Vals
<1>11. Below(content, "form") = none
  <2>1. Kids(n, "form") = none
    BY <1>8, <1>9, KidsOfOne
  <2>2. none \in Seq({f})
    BY <1>9, EmptySeq
  <2> QED
    BY <1>8, <2>1, <2>2, BelowOne
<1>12. Tables(content) = <<f>>
  <2>1. <<f>> \in Seq({f})
    OBVIOUS
  <2>2. AllKids(content) = <<f>>
    BY <1>8, <2>1, AllKidsOne
  <2>3. TablesIn(f) = <<f>>
    BY <1>8 DEF TablesIn
  <2>4. PICK all : all = <<f>>
    OBVIOUS
  <2>5. [i \in DOMAIN all |-> TablesIn(all[i])] = << <<f>> >>
    BY <2>3, <2>4
  <2>6. Tables(content) = Joined([i \in DOMAIN all |-> TablesIn(all[i])])
    BY <2>2, <2>4, Zenon DEF Tables
  <2> QED
    BY <2>1, <2>5, <2>6, JoinedOne
<1>13. Vals(Below(Tables(content), "row")) = rs
  BY <1>1, <1>12, RowsFound DEF In, Forum
<1>14. none = Only(none, {m \in ToSet(none) : m # Bad}) /\ Range(none) = {}
  BY <1>9, OnlyGrows DEF Range
<1>15. none = Vals(Below(Below(content, "form"), "pages"))
  BY <1>10, <1>11
<1>16. parseThreads(doc) =
           ThreadList(ThreadsKept(rs), IF none = <<>> THEN 1 ELSE Last(none),
                      Bad \in Range(none) \/ \E r \in Range(rs) : BadNumber(r))
  <2>1. content = ContentOf(doc)
    BY <1>4, <1>5 DEF ContentOf
  <2>2. TotalsOf(content) = none /\ RowsOf(content) = rs /\ Readable(none) = none
    BY <1>13, <1>14, <1>15 DEF TotalsOf, RowsOf, Readable
  <2> QED
    BY <2>1, <2>2, ThreadsFrom
<1> QED
  BY <1>2, <1>9, <1>14, <1>16

LEMMA BookmarksParsed ==
  ASSUME NEW R, NEW rs \in Seq(R)
  PROVE  parseThreads(BookmarksView(rs)) =
           ThreadList(ThreadsKept(rs), 3, \E r \in Range(rs) : BadNumber(r))
<1>1. PICK f : f = Forum(rs)
  OBVIOUS
<1>2. PICK p : p = Node("pages", 3, <<>>)
  OBVIOUS
<1>3. PICK doc : doc = BookmarksView(rs)
  OBVIOUS
<1>4. PICK form : form = Node("form", 0, <<p, f>>)
  OBVIOUS
<1>5. First(Kids(doc, "usergroup")) = <<>>
  <2>1. PICK c : c = Node("container", 0, In("content", In("form", <<p, f>>)))
    OBVIOUS
  <2>2. doc.kids = <<c>> /\ c.is = "container"
    BY <1>1, <1>2, <1>3, <2>1 DEF BookmarksView, Body, Wide, In, Node
  <2>3. Kids(doc, "usergroup") = <<>>
    BY <2>2, KidsOfOne
  <2> QED
    BY <2>3 DEF First
<1>6. PICK content : content = Content(<<doc>>)
  OBVIOUS
<1>7. content = In("content", In("form", <<p, f>>))
  <2>1. <<doc>> = In("body", Wide(In("form", <<p, f>>)))
    BY <1>1, <1>2, <1>3 DEF BookmarksView, Body, In
  <2> QED
    BY <1>6, <2>1, ContentIn
<1>8. Below(content, "form") = <<form>>
  BY <1>4, <1>7, BelowIn DEF In
<1>9. form.kids = <<p, f>> /\ p.is = "pages" /\ f.is = "forum" /\ form.is = "form" /\ p.val = 3
  BY <1>1, <1>2, <1>4 DEF Forum, Node
<1>10. Kids(form, "pages") = <<p>> /\ Kids(form, "forum") = <<f>>
  BY <1>9, KidsOfTwo
<1>11. <<p>> \in Seq({p}) /\ <<f>> \in Seq({f}) /\ <<form>> \in Seq({form})
  OBVIOUS
<1>12. PICK three : three = <<3>>
  OBVIOUS
<1>13. Vals(Below(Below(content, "form"), "pages")) = three
  <2>1. Below(<<form>>, "pages") = <<p>>
    BY <1>10, <1>11, BelowOne
  <2> QED
    BY <1>8, <1>9, <1>12, <2>1 DEF Vals
<1>14. Tables(content) = <<f>>
  <2>1. AllKids(content) = <<form>>
    <3>1. PICK n : n = Node("content", 0, <<form>>)
      OBVIOUS
    <3>2. content = <<n>> /\ n.kids = <<form>>
      BY <1>4, <1>7, <3>1 DEF In, Node
    <3> QED
      BY <1>11, <3>2, AllKidsOne
  <2>2. TablesIn(form) = <<f>>
    BY <1>9, <1>10 DEF TablesIn
  <2>3. PICK all : all = <<form>>
    OBVIOUS
  <2>4. [i \in DOMAIN all |-> TablesIn(all[i])] = << <<f>> >>
    BY <2>2, <2>3
  <2>5. Tables(content) = Joined([i \in DOMAIN all |-> TablesIn(all[i])])
    BY <2>1, <2>3, Zenon DEF Tables
  <2> QED
    BY <1>11, <2>4, <2>5, JoinedOne
<1>15. Vals(Below(Tables(content), "row")) = rs
  BY <1>1, <1>14, RowsFound DEF In, Forum
<1>16. three = Only(three, {m \in ToSet(three) : m # Bad}) /\ Bad \notin Range(three)
  <2>1. PICK S : S = {m \in ToSet(three) : m # Bad}
    OBVIOUS
  <2>2. ToSet(three) = {3} /\ Range(three) = {3} /\ 3 # Bad
    BY <1>12 DEF ToSet, Range, Bad
  <2>3. three \in Seq(S)
    BY <1>12, <2>1, <2>2
  <2>4. Only(three, S) = three
    BY <2>3, OnlyAll
  <2> QED
    BY <2>1, <2>2, <2>4
<1>17. parseThreads(doc) =
           ThreadList(ThreadsKept(rs), IF three = <<>> THEN 1 ELSE Last(three),
                      Bad \in Range(three) \/ \E r \in Range(rs) : BadNumber(r))
  <2>1. content = ContentOf(doc)
    BY <1>5, <1>6 DEF ContentOf
  <2>2. TotalsOf(content) = three /\ RowsOf(content) = rs /\ Readable(three) = three
    BY <1>13, <1>15, <1>16 DEF TotalsOf, RowsOf, Readable
  <2> QED
    BY <2>1, <2>2, ThreadsFrom
<1>18. three # <<>> /\ Last(three) = 3
  BY <1>12 DEF Last
<1> QED
  BY <1>3, <1>16, <1>17, <1>18

-----------------------------------------------------------------------------
(* ParseLepersColony.                                                       *)

\* The nodes of a page of the leper's colony, and what is read of them.
LeperNodes(rs) == {Navs("mqnav"), Node("table", 0, Leaves("row", rs))}
LepersRead(R) == [current : Int, total : Int, rows : Seq(R)]
NoneRead == [current |-> Missing, total |-> Missing, rows |-> <<>>]
InnerOf(nodes) == Run(TakeInner, NoneRead, nodes)

LEMMA InnerNav ==
  ASSUME NEW c, NEW m, NEW rows, NEW e, NEW x, e.is = "mqnav",
         x = [current |-> c, total |-> m, rows |-> rows]
  PROVE  TakeInner(x, e) =
           IF c = 0 \/ m = 0
           THEN [current |-> e.val.current, total |-> e.val.total, rows |-> rows] ELSE x
<1>1. x.current = c /\ x.total = m
  OBVIOUS
<1>2. PICK v, w : v = e.val.current /\ w = e.val.total
  OBVIOUS
<1>3. PICK y : y = [x EXCEPT !.current = v]
  OBVIOUS
<1>4. y = [current |-> v, total |-> m, rows |-> rows]
  BY <1>3
<1>5. [y EXCEPT !.total = w] = [current |-> v, total |-> w, rows |-> rows]
  BY <1>4
<1>6. [x EXCEPT !.current = v, !.total = w] = [current |-> v, total |-> w, rows |-> rows]
  BY <1>3, <1>5
<1> QED
  BY <1>1, <1>2, <1>6 DEF TakeInner, Missing

WithRows(all, rows, e) == all = rows \o Vals(Kids(e, "row"))

LEMMA InnerTable ==
  ASSUME NEW e, NEW x, e.is = "table", NEW all,
         x = [current |-> x.current, total |-> x.total, rows |-> x.rows],
         WithRows(all, x.rows, e)
  PROVE  TakeInner(x, e) = IF x.current = 0 \/ x.total = 0 THEN x
                           ELSE [current |-> x.current, total |-> x.total, rows |-> all]
<1>1. [x EXCEPT !.rows = all] = [current |-> x.current, total |-> x.total, rows |-> all]
  OBVIOUS
<1>2. x.current # 0 /\ x.total # 0 => TakeInner(x, e) = [x EXCEPT !.rows = all]
  BY DEF TakeInner, Missing, WithRows
<1>3. x.current = 0 \/ x.total = 0 => TakeInner(x, e) = x
  BY DEF TakeInner, Missing
<1> QED
  BY <1>1, <1>2, <1>3

TableTaken(x, e) ==
    /\ TakeInner(x, e).current = x.current /\ TakeInner(x, e).total = x.total
    /\ TakeInner(x, e).rows = x.rows \o Vals(Kids(e, "row"))

LEMMA TableRead ==
  ASSUME NEW R, NEW x \in LepersRead(R), NEW e, e.is = "table", x.current # 0, x.total # 0,
         TakeInner(x, e) \in LepersRead(R)
  PROVE  TableTaken(x, e)
<1>1. PICK all : WithRows(all, x.rows, e)
  BY DEF WithRows
<1>2. x = [current |-> x.current, total |-> x.total, rows |-> x.rows]
  BY DEF LepersRead
<1>3. TakeInner(x, e) = [current |-> x.current, total |-> x.total, rows |-> all]
  BY <1>1, <1>2, InnerTable
<1> QED
  BY <1>1, <1>3 DEF WithRows, TableTaken

LEMMA InnerTyped ==
  ASSUME NEW R, NEW rs \in Seq(R)
  PROVE  \A x \in LepersRead(R), e \in LeperNodes(rs) : TakeInner(x, e) \in LepersRead(R)
<1> SUFFICES ASSUME NEW x \in LepersRead(R), NEW e \in LeperNodes(rs)
             PROVE  TakeInner(x, e) \in LepersRead(R)
  OBVIOUS
<1>1. x.current \in Int /\ x.total \in Int /\ x.rows \in Seq(R)
      /\ x = [current |-> x.current, total |-> x.total, rows |-> x.rows]
  BY DEF LepersRead
<1>2. CASE e = Navs("mqnav")
  <2>1. e.is = "mqnav" /\ e.val.current = 2 /\ e.val.total = 3
    BY <1>2 DEF Navs, Node, Nav
  <2>2. TakeInner(x, e) \in {x, [current |-> 2, total |-> 3, rows |-> x.rows]}
    BY <1>1, <2>1, InnerNav
  <2>3. [current |-> 2, total |-> 3, rows |-> x.rows] \in LepersRead(R)
    BY <1>1 DEF LepersRead
  <2> QED
    BY <2>2, <2>3
<1>3. CASE e = Node("table", 0, Leaves("row", rs))
  <2>1. Vals(Kids(e, "row")) = rs
    BY <1>3, RowsFound
  <2>2. e.is = "table"
    BY <1>3 DEF Node
  <2>3. TakeInner(x, e) \in
          {x, [current |-> x.current, total |-> x.total, rows |-> x.rows \o rs]}
    <3>1. PICK all : all = x.rows \o Vals(Kids(e, "row"))
      OBVIOUS
    <3>2. WithRows(all, x.rows, e)
      BY <3>1 DEF WithRows
    <3>3. TakeInner(x, e) \in {x, [current |-> x.current, total |-> x.total, rows |-> all]}
      BY <1>1, <2>2, <3>2, InnerTable
    <3> QED
      BY <2>1, <3>1, <3>3
  <2>4. x.rows \o rs \in Seq(R)
    BY <1>1
  <2>5. [current |-> x.current, total |-> x.total, rows |-> x.rows \o rs] \in LepersRead(R)
    BY <1>1, <2>4 DEF LepersRead
  <2> QED
    BY <2>3, <2>5
<1> QED
  BY <1>2, <1>3 DEF LeperNodes

LEMMA NoneReadTyped ==
  ASSUME NEW R
  PROVE  NoneRead \in LepersRead(R)
<1>1. PICK none \in Seq(R) : none = <<>>
  BY EmptySeq
<1>2. NoneRead = [current |-> 0, total |-> 0, rows |-> none]
  BY <1>1 DEF NoneRead, Missing
<1> QED
  BY <1>2 DEF LepersRead

LEMMA InnerGrows ==
  ASSUME NEW R, NEW rs \in Seq(R)
  PROVE  /\ InnerOf(<<>>) = NoneRead
         /\ \A s \in Seq(LeperNodes(rs)) : InnerOf(s) \in LepersRead(R)
         /\ \A s \in Seq(LeperNodes(rs)), e \in LeperNodes(rs) :
               InnerOf(Append(s, e)) = TakeInner(InnerOf(s), e)
<1> DEFINE T == LepersRead(R)
           U == LeperNodes(rs)
           op == [x \in T \X U |-> TakeInner(x[1], x[2])]
           F(s) == CHOOSE g : g = [i \in 0..Len(s) |->
                                     IF i = 0 THEN NoneRead ELSE TakeInner(g[i - 1], s[i])]
<1>1. NoneRead \in T /\ \A x \in T, e \in U : TakeInner(x, e) \in T
  BY InnerTyped, NoneReadTyped
<1>2. \A s : InnerOf(s) = F(s)[Len(s)]
  BY DEF InnerOf, Run
<1> HIDE DEF T, U
<1>3. IsStep(T, U, op) /\ \A x \in T, e \in U : op[<<x, e>>] = TakeInner(x, e)
  BY <1>1 DEF IsStep
<1> HIDE DEF op
<1>4. ASSUME NEW s \in Seq(U) PROVE InnerOf(s) = Fold(T, op, NoneRead, s)
  <2>0. Len(s) \in Nat /\ \A i \in 1..Len(s) : s[i] \in U /\ i # 0 /\ i - 1 \in 0..Len(s)
    OBVIOUS
  <2>1. PICK f : Values(T, op, NoneRead, s, f)
    BY <1>1, <1>3, ValuesExist, Zenon
  <2>2. f \in [0..Len(s) -> T] /\ f[0] = NoneRead
    BY <2>1 DEF Values
  <2>3. ASSUME NEW i \in 1..Len(s) PROVE f[i] = TakeInner(f[i - 1], s[i])
    BY <1>3, <2>0, <2>1, <2>2 DEF Values
  <2>4. PICK c : c = NoneRead
    OBVIOUS
  <2>5. f = [i \in 0..Len(s) |-> IF i = 0 THEN c ELSE TakeInner(f[i - 1], s[i])]
    BY <2>2, <2>3, <2>4
  <2>6. F(s) = [i \in 0..Len(s) |-> IF i = 0 THEN NoneRead ELSE TakeInner(F(s)[i - 1], s[i])]
    BY <2>4, <2>5, Zenon
  <2> HIDE DEF F
  <2>7. F(s)[0] = NoneRead
    BY <2>0, <2>6
  <2>8. ASSUME NEW i \in 1..Len(s), F(s)[i - 1] \in T
        PROVE  F(s)[i] = op[<<F(s)[i - 1], s[i]>>]
    <3>0. i # 0 /\ i \in 0..Len(s)
      BY <2>0
    <3>1. F(s)[i] = TakeInner(F(s)[i - 1], s[i])
      BY <2>6, <3>0, Zenon
    <3> QED
      BY <1>3, <2>0, <2>8, <3>1
  <2>9. IsStep(T, U, op) /\ NoneRead \in T
    BY <1>1, <1>3
  <2>10. F(s)[Len(s)] = Fold(T, op, NoneRead, s)
    BY <2>7, <2>8, <2>9, FoldUnique
  <2> QED
    BY <1>2, <2>10
<1>5. InnerOf(<<>>) = NoneRead
  <2>1. InnerOf(<<>>) = Fold(T, op, NoneRead, <<>>)
    BY <1>4, EmptySeq, Zenon
  <2> QED
    BY <1>1, <1>3, <2>1, FoldNone
<1>6. ASSUME NEW s \in Seq(U) PROVE InnerOf(s) \in T
  BY <1>1, <1>3, <1>4, FoldTyped
<1>7. ASSUME NEW s \in Seq(U), NEW e \in U
      PROVE  InnerOf(Append(s, e)) = TakeInner(InnerOf(s), e)
  <2>1. Append(s, e) \in Seq(U)
    BY AppendTyped, Zenon
  <2>2. Fold(T, op, NoneRead, Append(s, e)) = op[<<Fold(T, op, NoneRead, s), e>>]
    BY <1>1, <1>3, FoldOne
  <2>3. InnerOf(Append(s, e)) = op[<<InnerOf(s), e>>]
    BY <1>4, <2>1, <2>2, Zenon
  <2> QED
    BY <1>3, <1>6, <2>3
<1> QED
  BY <1>5, <1>6, <1>7 DEF T, U

\* Navigation, the table, navigation.
LEMMA InnerRead ==
  ASSUME NEW R, NEW rs \in Seq(R), NEW q, NEW t, q = Navs("mqnav"),
         t = Node("table", 0, Leaves("row", rs))
  PROVE  InnerOf(<<q, t, q>>) = [current |-> 2, total |-> 3, rows |-> rs]
<1>1. PICK E : E = LeperNodes(rs)
  OBVIOUS
<1>2. q \in E /\ t \in E
  BY <1>1 DEF LeperNodes
<1>3. PICK s0 \in Seq(E) : s0 = <<>>
  BY EmptySeq
<1>4. PICK s1 \in Seq(E) : s1 = Append(s0, q)
  BY <1>2, AppendTyped
<1>5. PICK s2 \in Seq(E) : s2 = Append(s1, t)
  BY <1>2, AppendTyped
<1>6. Append(s2, q) = <<q, t, q>>
  <2>1. s1 = <<q>>
    BY <1>3, <1>4
  <2>2. s2 = <<q, t>>
    BY <1>5, <2>1, ShortAppends
  <2>3. PICK w : w = <<q, t>>
    OBVIOUS
  <2>4. PICK v : v = <<q, t, q>>
    OBVIOUS
  <2>5. v = Append(w, q)
    BY <2>3, <2>4
  <2> QED
    BY <2>2, <2>3, <2>4, <2>5
<1>7. InnerOf(s0) = NoneRead /\ InnerOf(s1) = TakeInner(InnerOf(s0), q)
  BY <1>1, <1>2, <1>3, <1>4, InnerGrows
<1>8. InnerOf(s2) = TakeInner(InnerOf(s1), t)
      /\ InnerOf(<<q, t, q>>) = TakeInner(InnerOf(s2), q)
  BY <1>1, <1>2, <1>5, <1>6, InnerGrows
<1>9. q.is = "mqnav" /\ q.val.current = 2 /\ q.val.total = 3 /\ t.is = "table"
  BY DEF Navs, Node, Nav
<1>10. Vals(Kids(t, "row")) = rs
  BY RowsFound
<1>11. PICK none \in Seq(R) : none = <<>>
  BY EmptySeq
<1>12. InnerOf(s1) = [current |-> 2, total |-> 3, rows |-> none]
  <2>1. InnerOf(s0) = [current |-> 0, total |-> 0, rows |-> none]
    BY <1>7, <1>11 DEF NoneRead, Missing
  <2> QED
    BY <1>7, <1>9, <2>1, InnerNav
<1>13. InnerOf(s2) = [current |-> 2, total |-> 3, rows |-> none \o rs]
  <2>1. PICK x \in LepersRead(R) : x = InnerOf(s1)
    BY <1>1, InnerGrows
  <2>2. PICK y \in LepersRead(R) : y = InnerOf(s2)
    BY <1>1, InnerGrows
  <2>3. x.current = 2 /\ x.total = 3 /\ x.rows = none
    BY <1>12, <2>1
  <2>4. y = TakeInner(x, t)
    BY <1>8, <2>1, <2>2
  <2>5. y.current = x.current /\ y.total = x.total /\ y.rows = x.rows \o Vals(Kids(t, "row"))
    <3>1. TakeInner(x, t) \in LepersRead(R)
      BY <2>4
    <3>2. t.is = "table"
      BY <1>9
    <3>3. x.current # 0 /\ x.total # 0
      BY <2>3
    <3>4. TableTaken(x, t)
      BY <3>1, <3>2, <3>3, TableRead
    <3> QED
      BY <2>4, <3>4 DEF TableTaken
  <2> QED
    BY <1>10, <2>2, <2>3, <2>5 DEF LepersRead
<1>14. none \o rs = rs
  BY <1>11
<1>15. InnerOf(s2) = [current |-> 2, total |-> 3, rows |-> rs]
  BY <1>13, <1>14
<1> QED
  BY <1>8, <1>9, <1>15, InnerNav

LeperEntries(kept) ==
    [i \in DOMAIN kept |-> [id |-> LeperId(kept[i].minute, kept[i].postid), row |-> kept[i]]]

LEMMA LepersParsed ==
  ASSUME NEW R, NEW rs \in Seq(R)
  PROVE  parseLepers(LepersPage(rs)) =
           Reverse(LeperEntries(Only(rs, {r \in ToSet(rs) : LeperListed(r)})))
<1>1. PICK q : q = Navs("mqnav")
  OBVIOUS
<1>2. PICK t : t = Node("table", 0, Leaves("row", rs))
  OBVIOUS
<1>3. PICK kids : kids = <<q, t, q>>
  OBVIOUS
<1>4. PICK doc : doc = LepersPage(rs)
  OBVIOUS
<1>5. PICK wrap : wrap = In("standard", In("inner", kids))
  OBVIOUS
<1>6. <<doc>> = In("body", Wide(wrap))
  BY <1>1, <1>2, <1>3, <1>4, <1>5 DEF LepersPage, Body, In
<1>7. FirstBelow(<<doc>>, "container") = Wide(wrap)
  BY <1>6, BelowIn DEF Wide
<1>8. PICK content : content = FirstBelow(FirstBelow(<<doc>>, "container"), "content")
  OBVIOUS
<1>9. content = In("content", wrap)
  BY <1>7, <1>8, BelowIn DEF Wide
<1>10. FirstBelow(content, "standard") = wrap
  BY <1>5, <1>9, BelowIn
<1>11. PICK inner : inner = FirstBelow(FirstBelow(content, "standard"), "inner")
  OBVIOUS
<1>12. inner = In("inner", kids)
  BY <1>5, <1>10, <1>11, BelowIn
<1>13. AllKids(inner) = kids
  <2>1. PICK n : n = Node("inner", 0, kids)
    OBVIOUS
  <2>2. n.kids \in Seq({q, t}) /\ n.kids = kids
    BY <1>3, <2>1 DEF Node
  <2>3. AllKids(<<n>>) = kids
    BY <2>2, AllKidsOne
  <2> QED
    BY <1>12, <2>1, <2>3 DEF In
<1>14. PICK st : st = Run(TakeInner, [current |-> Missing, total |-> Missing, rows |-> <<>>],
                          AllKids(inner))
  OBVIOUS
<1>15. st = InnerOf(kids)
  BY <1>13, <1>14, Zenon DEF InnerOf, NoneRead
<1>16. st = [current |-> 2, total |-> 3, rows |-> rs]
  BY <1>1, <1>2, <1>3, <1>15, InnerRead
<1>17. parseLepers(doc) =
         LET kept == Only(st.rows, {r \in ToSet(st.rows) : LeperListed(r)})
         IN IF Missing \in {st.current, st.total} \/ Bad \in {st.current, st.total} THEN <<>>
            ELSE Reverse([i \in DOMAIN kept |->
                       [id |-> LeperId(kept[i].minute, kept[i].postid), row |-> kept[i]]])
  BY <1>8, <1>11, <1>14, Zenon DEF parseLepers
<1>18. Missing \notin {st.current, st.total} /\ Bad \notin {st.current, st.total} /\ st.rows = rs
  BY <1>16 DEF Missing, Bad
<1> QED
  BY <1>4, <1>17, <1>18 DEF LeperEntries

-----------------------------------------------------------------------------
(* A page gives the rows that are whole.                                    *)

PagesTypeOK ==
    /\ kind \in {"posts", "threads", "lepers", "folder", "post"}
    /\ shown \in Seq(Rows(kind))

LEMMA PagesTyped == PagesSpec => []PagesTypeOK
<1>1. PagesInit => PagesTypeOK
  BY EmptySeq DEF PagesInit, PagesTypeOK
<1>2. PagesTypeOK /\ [PagesNext]_pageVars => PagesTypeOK'
  <2> SUFFICES ASSUME PagesTypeOK, [PagesNext]_pageVars PROVE PagesTypeOK'
    OBVIOUS
  <2>1. CASE PagesNext
    <3>1. PICK r \in Rows(kind) : shown' = Append(shown, r) /\ kind' = kind
      BY <2>1 DEF PagesNext
    <3>2. shown' \in Seq(Rows(kind))
      BY <3>1, AppendTyped DEF PagesTypeOK
    <3>3. Rows(kind)' = Rows(kind)
      BY <3>1 DEF Rows
    <3> QED
      BY <3>1, <3>2, <3>3 DEF PagesTypeOK
  <2>2. CASE UNCHANGED pageVars
    <3>1. Rows(kind)' = Rows(kind)
      BY <2>2 DEF Rows, pageVars
    <3> QED
      BY <2>2, <3>1 DEF pageVars, PagesTypeOK
  <2> QED
    BY <2>1, <2>2
<1> QED
  BY <1>1, <1>2, PTL DEF PagesSpec

\* What the code checks of a row is that it is whole.
LEMMA WholeRows ==
  /\ \A r \in PostRows : Whole(r) <=> r.id # Bad /\ r.author # Missing /\ r.text # Missing
  /\ \A r \in ThreadRows : Whole(r) <=> Listed(r) /\ r.id # Bad
  /\ \A r \in LeperRows : Whole(r) <=> LeperListed(r)
  /\ \A r \in FolderRows : Whole(r) <=> r.id > 0 /\ r.author # Missing /\ r.time > 0
<1>1. ASSUME NEW r \in PostRows
      PROVE  Whole(r) <=> r.id # Bad /\ r.author # Missing /\ r.text # Missing
  <2>1. DOMAIN r = {"id", "author", "text"}
    BY DEF PostRows
  <2>2. r.id \in {1, 2, Bad} /\ r.author \in {1, Missing} /\ r.text \in {1, Missing}
    BY DEF PostRows
  <2> QED
    BY <2>1, <2>2 DEF Whole, Bad, Missing
<1>2. ASSUME NEW r \in ThreadRows PROVE Whole(r) <=> Listed(r) /\ r.id # Bad
  <2>1. DOMAIN r = {"id", "title", "replies", "time", "poster", "author"}
    BY DEF ThreadRows
  <2>2. r.id \in {1, 2, Bad} /\ r.title \in {1, Missing} /\ r.replies \in {1, Bad, Missing}
        /\ r.time \in {1, Bad} /\ r.poster \in {1, Missing} /\ r.author = 2
    BY DEF ThreadRows
  <2> QED
    BY <2>1, <2>2 DEF Whole, Listed, Bad, Missing
<1>3. ASSUME NEW r \in LeperRows PROVE Whole(r) <=> LeperListed(r)
  <2>1. DOMAIN r = {"postid", "minute", "named"}
    BY DEF LeperRows
  <2>2. r.postid \in Int /\ r.minute \in {1, 2, Bad} /\ r.named \in {1, 2, Missing}
    BY DEF LeperRows, Bad
  <2> QED
    BY <2>1, <2>2 DEF Whole, LeperListed, Bad, Missing
<1>4. ASSUME NEW r \in FolderRows
      PROVE  Whole(r) <=> r.id > 0 /\ r.author # Missing /\ r.time > 0
  <2>1. DOMAIN r = {"id", "author", "time"}
    BY DEF FolderRows
  <2>2. r.id \in {1, 2, Bad} /\ r.author \in {1, Missing} /\ r.time \in {1, Bad}
    BY DEF FolderRows
  <2> QED
    BY <2>1, <2>2 DEF Whole, Bad, Missing
<1> QED
  BY <1>1, <1>2, <1>3, <1>4

WholeOf(rs) == Only(rs, {r \in ToSet(rs) : Whole(r)})

LEMMA ToSetIn ==
  ASSUME NEW R, NEW s \in Seq(R)
  PROVE  ToSet(s) \subseteq R /\ Range(s) = ToSet(s)
BY DEF ToSet, Range

LEMMA PostsPageParsed ==
  ASSUME NEW rs \in Seq(PostRows)
  PROVE  parsePosts(PostsPage(rs)) = [posts |-> WholeOf(rs), current |-> 2, total |-> 3]
<1>1. {r \in ToSet(rs) : Whole(r)}
        = {r \in ToSet(rs) : r.id # Bad /\ r.author # Missing /\ r.text # Missing}
  BY ToSetIn, WholeRows
<1> QED
  BY <1>1, PostsParsed DEF WholeOf

LEMMA FolderPageParsed ==
  ASSUME NEW rs \in Seq(FolderRows)
  PROVE  parseFolder(FolderPage(rs)) = WholeOf(rs)
<1>1. {r \in ToSet(rs) : Whole(r)}
        = {r \in ToSet(rs) : r.id > 0 /\ r.author # Missing /\ r.time > 0}
  BY ToSetIn, WholeRows
<1> QED
  BY <1>1, FolderParsed DEF WholeOf

LEMMA LepersPageParsed ==
  ASSUME NEW rs \in Seq(LeperRows)
  PROVE  parseLepers(LepersPage(rs)) = Reverse(LeperEntries(WholeOf(rs)))
<1>1. {r \in ToSet(rs) : Whole(r)} = {r \in ToSet(rs) : LeperListed(r)}
  BY ToSetIn, WholeRows
<1> QED
  BY <1>1, LepersParsed DEF WholeOf

LEMMA ThreadViewsParsed ==
  ASSUME NEW rs \in Seq(ThreadRows), NEW err, err = \E r \in ToSet(rs) : BadNumber(r)
  PROVE  /\ parseThreads(ForumView(rs)) = ThreadList(WholeOf(rs), 1, err)
         /\ parseThreads(BookmarksView(rs)) = ThreadList(WholeOf(rs), 3, err)
<1>1. {r \in ToSet(rs) : Whole(r)} = {r \in ToSet(rs) : Listed(r) /\ r.id # Bad}
  BY ToSetIn, WholeRows
<1>2. ThreadsKept(rs) = WholeOf(rs)
  BY <1>1 DEF ThreadsKept, WholeOf
<1>3. err = \E r \in Range(rs) : BadNumber(r)
  BY ToSetIn
<1> QED
  BY <1>2, <1>3, ForumParsed, BookmarksParsed, Zenon

LEMMA WholeTyped ==
  ASSUME NEW R, NEW rs \in Seq(R)
  PROVE  WholeOf(rs) \in Seq(R)
BY OnlyGrows DEF WholeOf

LEMMA EntriesAre ==
  ASSUME NEW R, NEW w \in Seq(R), NEW entries, entries = Reverse(LeperEntries(w))
  PROVE  /\ entries = [i \in 1..Len(w) |-> LeperEntries(w)[Len(w) - i + 1]]
         /\ \A i \in 1..Len(w) :
              /\ entries[i].row = w[Len(w) - i + 1]
              /\ entries[i].id = LeperId(entries[i].row.minute, entries[i].row.postid)
              /\ entries[i].row \in R
<1>1. Len(w) \in Nat /\ DOMAIN w = 1..Len(w) /\ \A i \in 1..Len(w) : w[i] \in R
  OBVIOUS
<1>2. PICK e : e = LeperEntries(w)
  OBVIOUS
<1>3. \A i \in 1..Len(w) : e[i] = [id |-> LeperId(w[i].minute, w[i].postid), row |-> w[i]]
  BY <1>1, <1>2 DEF LeperEntries
<1>4. Len(e) = Len(w)
  BY <1>1, <1>2 DEF LeperEntries
<1>5. entries = [i \in 1..Len(w) |-> e[Len(w) - i + 1]]
  BY <1>2, <1>4, Zenon DEF Reverse
<1>6. ASSUME NEW i \in 1..Len(w)
      PROVE  /\ entries[i].row = w[Len(w) - i + 1]
             /\ entries[i].id = LeperId(entries[i].row.minute, entries[i].row.postid)
             /\ entries[i].row \in R
  <2>1. PICK j \in 1..Len(w) : j = Len(w) - i + 1
    BY <1>1
  <2>2. entries[i] = e[j]
    BY <1>5, <2>1
  <2>3. e[j].row = w[j] /\ e[j].id = LeperId(w[j].minute, w[j].postid)
    <3>1. e[j] = [id |-> LeperId(w[j].minute, w[j].postid), row |-> w[j]]
      BY <1>3, Zenon
    <3> QED
      BY <3>1
  <2> QED
    BY <1>1, <2>1, <2>2, <2>3
<1> QED
  BY <1>2, <1>5, <1>6

LEMMA RowsReversed ==
  ASSUME NEW R, NEW w \in Seq(R), NEW entries, entries = Reverse(LeperEntries(w))
  PROVE  [i \in DOMAIN entries |-> entries[i].row] = Reverse(w)
<1>1. DOMAIN entries = 1..Len(w)
  BY EntriesAre
<1>2. \A i \in 1..Len(w) : entries[i].row = w[Len(w) - i + 1]
  BY EntriesAre
<1>3. [i \in DOMAIN entries |-> entries[i].row] = [i \in 1..Len(w) |-> w[Len(w) - i + 1]]
  BY <1>1, <1>2
<1> QED
  BY <1>3, Zenon DEF Reverse

\* The views of a list of threads, with the numbers that the rows have.
ThreadsAgree(rs, forum, marks) ==
    /\ forum.threads = marks.threads /\ forum.err = marks.err
    /\ forum.total = 1 /\ marks.total = 3
    /\ [i \in DOMAIN marks.threads |-> marks.threads[i].id] =
          [i \in DOMAIN WholeOf(rs) |-> WholeOf(rs)[i].id]
    /\ marks.err = \E r \in ToSet(rs) : BadNumber(r)

LEMMA ViewsAgree ==
  ASSUME NEW rs \in Seq(ThreadRows), NEW forum, NEW marks,
         forum = parseThreads(ForumView(rs)), marks = parseThreads(BookmarksView(rs))
  PROVE  ThreadsAgree(rs, forum, marks)
<1>1. PICK err : err = \E r \in ToSet(rs) : BadNumber(r)
  OBVIOUS
<1>2. PICK w : w = WholeOf(rs)
  OBVIOUS
<1>3. PICK threads : threads = [i \in DOMAIN w |-> [id |-> w[i].id, killedBy |-> LastPoster(w[i])]]
  OBVIOUS
<1>4. forum = ThreadList(w, 1, err) /\ marks = ThreadList(w, 3, err)
  BY <1>1, <1>2, ThreadViewsParsed
<1>5. forum = [threads |-> threads, total |-> 1, err |-> err]
      /\ marks = [threads |-> threads, total |-> 3, err |-> err]
  BY <1>3, <1>4 DEF ThreadList
<1>6. forum.threads = threads /\ forum.total = 1 /\ forum.err = err
      /\ marks.threads = threads /\ marks.total = 3 /\ marks.err = err
  BY <1>5
<1>7. [i \in DOMAIN threads |-> threads[i].id] = [i \in DOMAIN w |-> w[i].id]
  BY <1>3
<1> QED
  BY <1>1, <1>2, <1>6, <1>7 DEF ThreadsAgree

\* A number that is not readable is an error, and a row that is left out without
\* one lacks a part.
LEMMA ErrorsMean ==
  /\ \A r \in ThreadRows : BadNumber(r) => Bad \in {r.id, r.replies}
  /\ \A r \in ThreadRows : ~BadNumber(r) =>
        Whole(r) \/ Missing \in {r.title, r.replies} \/ r.time = Bad
<1> SUFFICES ASSUME NEW r \in ThreadRows
             PROVE  /\ BadNumber(r) => Bad \in {r.id, r.replies}
                    /\ ~BadNumber(r) => \/ Whole(r) \/ Missing \in {r.title, r.replies}
                                        \/ r.time = Bad
  OBVIOUS
<1>1. r.id \in {1, 2, Bad} /\ r.title \in {1, Missing} /\ r.replies \in {1, Bad, Missing}
      /\ r.time \in {1, Bad}
  BY DEF ThreadRows
<1>2. Whole(r) <=> Listed(r) /\ r.id # Bad
  BY WholeRows
<1> QED
  BY <1>1, <1>2 DEF BadNumber, Listed, Bad, Missing

LEMMA ParsedIfTyped == PagesTypeOK => PagesParsed
<1> SUFFICES ASSUME PagesTypeOK PROVE PagesParsed
  OBVIOUS
<1> PICK whole : whole = WholeOf(shown)
  OBVIOUS
<1>0. whole = Only(shown, {r \in ToSet(shown) : Whole(r)})
  BY DEF WholeOf
<1>1. kind = "posts" =>
        parsePosts(PostsPage(shown)) = [posts |-> whole, current |-> 2, total |-> 3]
  <2> SUFFICES ASSUME kind = "posts"
               PROVE  parsePosts(PostsPage(shown)) = [posts |-> whole, current |-> 2, total |-> 3]
    OBVIOUS
  <2>1. shown \in Seq(PostRows)
    BY DEF PagesTypeOK, Rows
  <2> QED
    BY <2>1, PostsPageParsed
<1>2. kind = "threads" =>
        LET forum == parseThreads(ForumView(shown))
            marks == parseThreads(BookmarksView(shown))
        IN /\ forum.threads = marks.threads /\ forum.err = marks.err
           /\ forum.total = 1 /\ marks.total = 3
           /\ [i \in DOMAIN marks.threads |-> marks.threads[i].id] =
                 [i \in DOMAIN whole |-> whole[i].id]
           /\ marks.err => \E r \in ToSet(shown) : Bad \in {r.id, r.replies}
           /\ ~marks.err => \A r \in ToSet(shown) :
                 Whole(r) \/ Missing \in {r.title, r.replies} \/ r.time = Bad
  <2> SUFFICES ASSUME kind = "threads", NEW forum, NEW marks,
                      forum = parseThreads(ForumView(shown)),
                      marks = parseThreads(BookmarksView(shown))
               PROVE  /\ forum.threads = marks.threads /\ forum.err = marks.err
                      /\ forum.total = 1 /\ marks.total = 3
                      /\ [i \in DOMAIN marks.threads |-> marks.threads[i].id] =
                            [i \in DOMAIN whole |-> whole[i].id]
                      /\ marks.err => \E r \in ToSet(shown) : Bad \in {r.id, r.replies}
                      /\ ~marks.err => \A r \in ToSet(shown) :
                            Whole(r) \/ Missing \in {r.title, r.replies} \/ r.time = Bad
    BY Zenon
  <2>1. shown \in Seq(ThreadRows)
    BY DEF PagesTypeOK, Rows
  <2>2. /\ forum.threads = marks.threads /\ forum.err = marks.err
        /\ forum.total = 1 /\ marks.total = 3
        /\ [i \in DOMAIN marks.threads |-> marks.threads[i].id] =
              [i \in DOMAIN whole |-> whole[i].id]
        /\ marks.err = \E r \in ToSet(shown) : BadNumber(r)
    <3>1. ThreadsAgree(shown, forum, marks)
      BY <2>1, ViewsAgree
    <3> QED
      BY <3>1 DEF ThreadsAgree
  <2>3. ToSet(shown) \subseteq ThreadRows
    BY <2>1, ToSetIn
  <2> QED
    BY <2>2, <2>3, ErrorsMean
<1>3. kind = "lepers" =>
        LET entries == parseLepers(LepersPage(shown))
        IN [i \in DOMAIN entries |-> entries[i].row] = Reverse(whole)
  <2> SUFFICES ASSUME kind = "lepers", NEW entries, entries = parseLepers(LepersPage(shown))
               PROVE  [i \in DOMAIN entries |-> entries[i].row] = Reverse(whole)
    OBVIOUS
  <2>1. shown \in Seq(LeperRows)
    BY DEF PagesTypeOK, Rows
  <2>2. whole \in Seq(LeperRows) /\ entries = Reverse(LeperEntries(whole))
    BY <2>1, WholeTyped, LepersPageParsed
  <2> QED
    BY <2>2, RowsReversed
<1>4. kind = "folder" => parseFolder(FolderPage(shown)) = whole
  <2> SUFFICES ASSUME kind = "folder" PROVE parseFolder(FolderPage(shown)) = whole
    OBVIOUS
  <2>1. shown \in Seq(FolderRows)
    BY DEF PagesTypeOK, Rows
  <2> QED
    BY <2>1, FolderPageParsed
<1> QED
  BY <1>0, <1>1, <1>2, <1>3, <1>4, Zenon DEF PagesParsed

\* parsePosts, parseThreadsFromResponse, ParseLepersColony and
\* parsePrivateMessageFolder take the rows that are whole from a page of any length,
\* in its order, in either view of threads; no damaged row takes another with it.
THEOREM PagesAreParsed == PagesSpec => []PagesParsed
BY PagesTyped, ParsedIfTyped, PTL

-----------------------------------------------------------------------------
(* The lines of a text and their words, part by part.                       *)

\* A text is without separators, or it has a last one.
Parted(A, sep, s) == \E t \in Seq(A), w \in Seq(A \ {sep}) : s = Append(t, sep) \o w

LEMMA LastPart ==
  ASSUME NEW A, NEW sep \in A
  PROVE  \A s \in Seq(A) : s \in Seq(A \ {sep}) \/ Parted(A, sep, s)
<1> DEFINE E == A \ {sep}
           S == {s \in Seq(A) : \/ s \in Seq(E)
                                \/ \E t \in Seq(A), w \in Seq(E) : s = Append(t, sep) \o w}
<1>1. <<>> \in S
  BY EmptySeq
<1>2. ASSUME NEW s \in Seq(A), NEW b \in A, s \in S PROVE Append(s, b) \in S
  <2>0. Append(s, b) \in Seq(A)
    BY AppendTyped, Zenon
  <2>1. CASE b = sep
    <3>1. PICK none \in Seq(E) : none = <<>>
      BY EmptySeq
    <3>2. Append(s, sep) \o none = Append(s, sep)
      BY <2>0, <2>1, <3>1, ConcatEmptySeq
    <3> QED
      BY <2>0, <2>1, <3>2
  <2>2. CASE b # sep /\ s \in Seq(E)
    <3>1. b \in E
      BY <2>2
    <3>2. Append(s, b) \in Seq(E)
      BY <2>2, <3>1, AppendTyped, Zenon
    <3> QED
      BY <2>0, <3>2
  <2>3. CASE b # sep /\ s \notin Seq(E)
    <3>1. PICK t \in Seq(A), w \in Seq(E) : s = Append(t, sep) \o w
      BY <1>2, <2>3
    <3>2. b \in E /\ w \in Seq(A)
      BY <2>3, SeqMonotonic
    <3>3. Append(w, b) \in Seq(E) /\ Append(t, sep) \in Seq(A)
      BY <3>2, AppendTyped, Zenon
    <3>4. Append(t, sep) \o Append(w, b) = Append(Append(t, sep) \o w, b)
      <4>1. PICK u \in Seq(A) : u = Append(t, sep)
        BY <3>3
      <4>2. u \o Append(w, b) = Append(u \o w, b)
        BY <3>2
      <4> QED
        BY <4>1, <4>2
    <3> QED
      BY <2>0, <3>1, <3>3, <3>4
  <2> QED
    BY <2>1, <2>2, <2>3
<1>3. \A s \in Seq(A) : s \in S
  <2> HIDE DEF S
  <2> QED
    BY <1>1, <1>2, SeqAll
<1> QED
  BY <1>3 DEF Parted

\* Induction over the parts of a text.
LEMMA PartsAll ==
  ASSUME NEW A, NEW sep \in A, NEW S, \A w \in Seq(A \ {sep}) : w \in S,
         \A t \in Seq(A), w \in Seq(A \ {sep}) : t \in S => Append(t, sep) \o w \in S
  PROVE  \A s \in Seq(A) : s \in S
<1> DEFINE N == {n \in Nat : \A s \in Seq(A) : Len(s) <= n => s \in S}
<1>1. ASSUME NEW n \in Nat,
             \A t \in Seq(A) : Len(t) < n => t \in S,
             NEW s \in Seq(A), Len(s) <= n
      PROVE  s \in S
  <2>1. CASE s \in Seq(A \ {sep})
    BY <2>1
  <2>2. CASE s \notin Seq(A \ {sep})
    <3>1. PICK t \in Seq(A), w \in Seq(A \ {sep}) : s = Append(t, sep) \o w
      <4>1. Parted(A, sep, s)
        BY <2>2, LastPart
      <4> QED
        BY <4>1, Zenon DEF Parted
    <3>2. PICK u \in Seq(A) : u = Append(t, sep)
      BY AppendTyped
    <3>3. Len(u) = Len(t) + 1 /\ Len(s) = Len(u) + Len(w)
          /\ Len(t) \in Nat /\ Len(w) \in Nat
      <4>1. w \in Seq(A)
        BY SeqMonotonic
      <4> QED
        BY <3>1, <3>2, <4>1, AppendProperties, ConcatProperties
    <3>4. t \in S
      BY <1>1, <3>3
    <3> QED
      BY <3>1, <3>4
  <2> QED
    BY <2>1, <2>2
<1>2. 0 \in N
  <2>1. \A t \in Seq(A) : ~(Len(t) < 0)
    OBVIOUS
  <2> QED
    BY <1>1, <2>1
<1>3. ASSUME NEW n \in Nat, n \in N PROVE n + 1 \in N
  <2>1. \A t \in Seq(A) : Len(t) < n + 1 => t \in S
    BY <1>3
  <2> QED
    BY <1>1, <2>1
<1>4. \A n \in Nat : n \in N
  <2> HIDE DEF N
  <2> QED
    BY <1>2, <1>3, NatAll
<1> QED
  BY <1>4

\* A separator, and a text with a last one.
Moves(sep, t, u, w) == t \o (Append(u, sep) \o w) = Append(t \o u, sep) \o w

LEMMA PartsMove ==
  ASSUME NEW A, NEW sep \in A, NEW t \in Seq(A), NEW u \in Seq(A), NEW w \in Seq(A)
  PROVE  Moves(sep, t, u, w)
<1>1. Append(u, sep) \in Seq(A) /\ Append(t, sep) \in Seq(A) /\ t \o u \in Seq(A)
  BY AppendTyped, ConcatProperties
<1>2. t \o Append(u, sep) = Append(t \o u, sep)
  OBVIOUS
<1>3. Regroup(A, t, Append(u, sep), w)
  BY <1>1, Regrouped, Zenon
<1> QED
  BY <1>1, <1>2, <1>3, Zenon DEF Regroup, Moves

\* The words up to a space and from there.
LEMMA WordsCut ==
  ASSUME NEW C, Space \in C, NEW t \in Seq(C)
  PROVE  \A u \in Seq(C) : WordsOf(Append(t, Space) \o u) = WordsOf(t) \o WordsOf(u)
<1> DEFINE E == C \ {Space}
           S == {u \in Seq(C) : WordsOf(Append(t, Space) \o u) = WordsOf(t) \o WordsOf(u)}
<1>0. ASSUME NEW u \in Seq(C) PROVE WordsOf(u) \in Seq(Seq(E))
  <2>1. <<>> \in Seq(E)
    BY EmptySeq
  <2> QED
    BY <2>1, WordsSplit
<1>1. ASSUME NEW w \in Seq(E) PROVE w \in S
  <2>1. w \in Seq(C)
    BY SeqMonotonic
  <2> QED
    BY <2>1, WordsSplit
<1>2. ASSUME NEW u \in Seq(C), NEW w \in Seq(E), u \in S PROVE Append(u, Space) \o w \in S
  <2>1. w \in Seq(C)
    BY SeqMonotonic
  <2>2. PICK x \in Seq(C) : x = Append(t, Space) \o u
    BY AppendTyped, ConcatProperties
  <2>3. PICK v \in Seq(C) : v = Append(u, Space) \o w
    BY <2>1, AppendTyped, ConcatProperties
  <2>4. Append(t, Space) \o v = Append(x, Space) \o w
    <3>1. PICK a \in Seq(C) : a = Append(t, Space)
      BY AppendTyped
    <3>2. Moves(Space, a, u, w)
      BY <2>1, PartsMove
    <3> QED
      BY <2>2, <2>3, <3>1, <3>2 DEF Moves
  <2>5. PICK p \in Seq(Seq(E)), q \in Seq(Seq(E)), r \in Seq(Seq(E)) :
            p = WordsOf(t) /\ q = WordsOf(u) /\ r = WordsOf(w)
    BY <1>0, <2>1
  <2>6. WordsOf(Append(x, Space) \o w) = WordsOf(x) \o r /\ WordsOf(v) = q \o r
    BY <2>3, <2>5, WordsSplit
  <2>7. WordsOf(x) = p \o q
    BY <1>2, <2>2, <2>5
  <2>8. Regroup(Seq(E), p, q, r)
    BY Regrouped, Zenon
  <2>9. (p \o q) \o r = p \o (q \o r)
    BY <2>8, Zenon DEF Regroup
  <2> QED
    BY <2>3, <2>4, <2>5, <2>6, <2>7, <2>9
<1>3. \A u \in Seq(C) : u \in S
  <2> HIDE DEF S
  <2> QED
    BY <1>1, <1>2, PartsAll
<1> QED
  BY <1>3

\* The bytes of posts, and of their lines.
PostBytes == {Other, LF, Space}
LineBytes == PostBytes \ {LF}
WordLists == Seq(Seq(Seq(LineBytes \ {Space})))

LEMMA PostBytesAre == LF \in PostBytes /\ Space \in LineBytes /\ LineBytes \subseteq PostBytes
BY BytesDiffer DEF PostBytes, LineBytes

LEMMA LineInPost == \A w \in Seq(LineBytes) : w \in Seq(PostBytes)
BY PostBytesAre, SeqMonotonic

LEMMA WordsOfLine ==
  \A w \in Seq(LineBytes) : WordsOf(w) \in Seq(Seq(LineBytes \ {Space}))
<1>1. <<>> \in Seq(LineBytes \ {Space})
  BY EmptySeq
<1> QED
  BY <1>1, PostBytesAre, WordsSplit

\* The lines that have words, one line more.
TakeLine(out, line) == IF WordsOf(line) = <<>> THEN out ELSE Append(out, WordsOf(line))
LinesOf(ls) == Run(TakeLine, <<>>, ls)

LEMMA TakeLineTyped ==
  \A x \in WordLists, line \in Seq(LineBytes) : TakeLine(x, line) \in WordLists
<1> SUFFICES ASSUME NEW x \in WordLists, NEW line \in Seq(LineBytes)
             PROVE  TakeLine(x, line) \in WordLists
  OBVIOUS
<1>1. PICK W : W = Seq(Seq(LineBytes \ {Space}))
  OBVIOUS
<1>2. x \in Seq(W) /\ WordsOf(line) \in W
  BY <1>1, WordsOfLine DEF WordLists
<1>3. TakeLine(x, line) \in Seq(W)
  BY <1>2, AppendTyped DEF TakeLine
<1> QED
  BY <1>1, <1>3 DEF WordLists

LEMMA LinesOfGrows ==
  /\ LinesOf(<<>>) = <<>>
  /\ \A s \in Seq(Seq(LineBytes)) : LinesOf(s) \in WordLists
  /\ \A s \in Seq(Seq(LineBytes)), line \in Seq(LineBytes) :
        LinesOf(Append(s, line)) = TakeLine(LinesOf(s), line)
<1> DEFINE T == WordLists
           U == Seq(LineBytes)
           op == [x \in T \X U |-> TakeLine(x[1], x[2])]
           F(s) == CHOOSE g : g = [i \in 0..Len(s) |->
                                     IF i = 0 THEN <<>> ELSE TakeLine(g[i - 1], s[i])]
<1>1. <<>> \in T /\ \A x \in T, line \in U : TakeLine(x, line) \in T
  BY TakeLineTyped, EmptySeq DEF WordLists
<1>2. \A s : LinesOf(s) = F(s)[Len(s)]
  BY DEF LinesOf, Run, TakeLine
<1> HIDE DEF T, U
<1>3. IsStep(T, U, op) /\ \A x \in T, line \in U : op[<<x, line>>] = TakeLine(x, line)
  BY <1>1 DEF IsStep
<1> HIDE DEF op
<1>4. ASSUME NEW s \in Seq(U) PROVE LinesOf(s) = Fold(T, op, <<>>, s)
  <2>0. Len(s) \in Nat /\ \A i \in 1..Len(s) : s[i] \in U /\ i # 0 /\ i - 1 \in 0..Len(s)
    OBVIOUS
  <2>1. PICK f : Values(T, op, <<>>, s, f)
    BY <1>1, <1>3, ValuesExist, Zenon
  <2>2. f \in [0..Len(s) -> T] /\ f[0] = <<>>
    BY <2>1 DEF Values
  <2>3. ASSUME NEW i \in 1..Len(s) PROVE f[i] = TakeLine(f[i - 1], s[i])
    BY <1>3, <2>0, <2>1, <2>2 DEF Values
  <2>4. PICK c : c = <<>>
    OBVIOUS
  <2>5. f = [i \in 0..Len(s) |-> IF i = 0 THEN c ELSE TakeLine(f[i - 1], s[i])]
    BY <2>2, <2>3, <2>4
  <2>6. F(s) = [i \in 0..Len(s) |-> IF i = 0 THEN <<>> ELSE TakeLine(F(s)[i - 1], s[i])]
    BY <2>4, <2>5, Zenon
  <2> HIDE DEF F
  <2>7. F(s)[0] = <<>>
    BY <2>0, <2>6
  <2>8. ASSUME NEW i \in 1..Len(s), F(s)[i - 1] \in T
        PROVE  F(s)[i] = op[<<F(s)[i - 1], s[i]>>]
    <3>0. i # 0 /\ i \in 0..Len(s)
      BY <2>0
    <3>1. F(s)[i] = TakeLine(F(s)[i - 1], s[i])
      BY <2>6, <3>0, Zenon
    <3> QED
      BY <1>3, <2>0, <2>8, <3>1
  <2>9. IsStep(T, U, op) /\ <<>> \in T
    BY <1>1, <1>3
  <2>10. F(s)[Len(s)] = Fold(T, op, <<>>, s)
    BY <2>7, <2>8, <2>9, FoldUnique
  <2> QED
    BY <1>2, <2>10
<1>5. LinesOf(<<>>) = <<>>
  <2>1. LinesOf(<<>>) = Fold(T, op, <<>>, <<>>)
    BY <1>4, EmptySeq, Zenon
  <2> QED
    BY <1>1, <1>3, <2>1, FoldNone
<1>6. ASSUME NEW s \in Seq(U) PROVE LinesOf(s) \in T
  BY <1>1, <1>3, <1>4, FoldTyped
<1>7. ASSUME NEW s \in Seq(U), NEW line \in U
      PROVE  LinesOf(Append(s, line)) = TakeLine(LinesOf(s), line)
  <2>1. Append(s, line) \in Seq(U)
    BY AppendTyped, Zenon
  <2>2. Fold(T, op, <<>>, Append(s, line)) = op[<<Fold(T, op, <<>>, s), line>>]
    BY <1>1, <1>3, FoldOne
  <2>3. LinesOf(Append(s, line)) = op[<<LinesOf(s), line>>]
    BY <1>4, <2>1, <2>2, Zenon
  <2> QED
    BY <1>3, <1>6, <2>3
<1> QED
  BY <1>5, <1>6, <1>7 DEF T, U

\* The lines of a text up to a line feed, and the line from there.
LineAfter(t, w) == TextLines(Append(t, LF) \o w) = TakeLine(TextLines(t), w)

LEMMA TextLinesSplit ==
  /\ \A t \in Seq(PostBytes) : TextLines(t) \in WordLists
  /\ \A w \in Seq(LineBytes) : TextLines(w) = TakeLine(<<>>, w)
  /\ \A t \in Seq(PostBytes), w \in Seq(LineBytes) : LineAfter(t, w)
<1>0. \A s : TextLines(s) = LinesOf(SplitAt(s, LF))
  BY Zenon DEF TextLines, LinesOf, TakeLine
<1>1. ASSUME NEW t \in Seq(PostBytes)
      PROVE  SplitAt(t, LF) \in Seq(Seq(LineBytes))
  <2>1. SplitAt(t, LF) \in Cut(PostBytes, LF)
    BY SplitGrows
  <2> QED
    BY <2>1 DEF Cut, LineBytes
<1>2. ASSUME NEW t \in Seq(PostBytes) PROVE TextLines(t) \in WordLists
  BY <1>0, <1>1, LinesOfGrows
<1>3. ASSUME NEW t \in Seq(PostBytes), NEW w \in Seq(LineBytes)
      PROVE  TextLines(w) = TakeLine(<<>>, w) /\ LineAfter(t, w)
  <2>1. SplitAt(w, LF) = <<w>> /\ SplitAt(Append(t, LF) \o w, LF) = Append(SplitAt(t, LF), w)
    BY PostBytesAre, SplitLast DEF LineBytes
  <2>2. PICK none \in Seq(Seq(LineBytes)) : none = <<>>
    BY EmptySeq
  <2>3. LinesOf(none) = none /\ Append(none, w) = <<w>>
    BY <2>2, LinesOfGrows
  <2>4. LinesOf(<<w>>) = TakeLine(none, w)
    BY <2>3, LinesOfGrows
  <2>5. LinesOf(Append(SplitAt(t, LF), w)) = TakeLine(LinesOf(SplitAt(t, LF)), w)
    BY <1>1, LinesOfGrows
  <2> QED
    BY <1>0, <2>1, <2>2, <2>4, <2>5 DEF LineAfter
<1>4. PICK t \in Seq(PostBytes) : t = <<>>
  BY EmptySeq
<1> QED
  BY <1>2, <1>3

\* Lines up to a line feed and from there.
LEMMA TakeLineConcat ==
  ASSUME NEW x \in WordLists, NEW w \in Seq(LineBytes)
  PROVE  TakeLine(x, w) = x \o TakeLine(<<>>, w) /\ TakeLine(<<>>, w) \in WordLists
<1>1. PICK W : W = Seq(Seq(LineBytes \ {Space}))
  OBVIOUS
<1>2. PICK none \in Seq(W) : none = <<>>
  BY EmptySeq
<1>3. x \in Seq(W) /\ WordsOf(w) \in W
  BY <1>1, WordsOfLine DEF WordLists
<1>4. TakeLine(none, w) \in WordLists
  BY <1>1, <1>2, TakeLineTyped DEF WordLists
<1>5. TakeLine(x, w) = x \o TakeLine(none, w)
  <2>1. PICK v \in W : v = WordsOf(w)
    BY <1>3
  <2>2. CASE v = <<>>
    <3>1. TakeLine(x, w) = x /\ TakeLine(none, w) = none
      BY <2>1, <2>2 DEF TakeLine
    <3> QED
      BY <1>2, <1>3, <3>1, ConcatEmptySeq
  <2>3. CASE v # <<>>
    <3>1. TakeLine(x, w) = Append(x, v) /\ TakeLine(none, w) = Append(none, v)
      BY <2>1, <2>3 DEF TakeLine
    <3>2. Append(none, v) = <<v>>
      BY <1>2
    <3>3. Append(x, v) = x \o <<v>>
      BY <1>3, AppendIsConcat
    <3> QED
      BY <3>1, <3>2, <3>3
  <2> QED
    BY <2>2, <2>3
<1> QED
  BY <1>2, <1>4, <1>5

LEMMA TextLinesCut ==
  ASSUME NEW t \in Seq(PostBytes)
  PROVE  \A u \in Seq(PostBytes) : TextLines(Append(t, LF) \o u) = TextLines(t) \o TextLines(u)
<1> DEFINE S == {u \in Seq(PostBytes) :
                   TextLines(Append(t, LF) \o u) = TextLines(t) \o TextLines(u)}
<1>1. ASSUME NEW w \in Seq(LineBytes) PROVE w \in S
  <2>1. PICK a \in WordLists : a = TextLines(t)
    BY TextLinesSplit
  <2>2. TextLines(Append(t, LF) \o w) = TakeLine(a, w)
    BY <2>1, TextLinesSplit DEF LineAfter
  <2>3. PICK b : b = TakeLine(<<>>, w)
    OBVIOUS
  <2>4. TextLines(w) = b /\ TakeLine(a, w) = a \o b
    BY <2>3, TextLinesSplit, TakeLineConcat
  <2> QED
    BY <2>1, <2>2, <2>4, LineInPost
<1>2. ASSUME NEW u \in Seq(PostBytes), NEW w \in Seq(LineBytes), u \in S
      PROVE  Append(u, LF) \o w \in S
  <2>1. w \in Seq(PostBytes)
    BY LineInPost
  <2>2. PICK x \in Seq(PostBytes) : x = Append(t, LF) \o u
    BY PostBytesAre, AppendTyped, ConcatProperties
  <2>3. PICK v \in Seq(PostBytes) : v = Append(u, LF) \o w
    BY <2>1, PostBytesAre, AppendTyped, ConcatProperties
  <2>4. Append(t, LF) \o v = Append(x, LF) \o w
    <3>1. PICK a \in Seq(PostBytes) : a = Append(t, LF)
      BY PostBytesAre, AppendTyped
    <3>2. Moves(LF, a, u, w)
      BY <2>1, PostBytesAre, PartsMove
    <3> QED
      BY <2>2, <2>3, <3>1, <3>2 DEF Moves
  <2>5. PICK p \in WordLists, q \in WordLists, r \in WordLists :
            p = TextLines(t) /\ q = TextLines(u) /\ r = TakeLine(<<>>, w)
    <3>1. PICK p \in WordLists : p = TextLines(t)
      BY TextLinesSplit
    <3> QED
      BY <3>1, TextLinesSplit, TakeLineConcat
  <2>6. TextLines(Append(x, LF) \o w) = TextLines(x) \o r /\ TextLines(v) = q \o r
    <3>1. LineAfter(x, w) /\ LineAfter(u, w) /\ TextLines(x) \in WordLists
      BY TextLinesSplit
    <3> QED
      BY <2>3, <2>5, <3>1, TakeLineConcat DEF LineAfter
  <2>7. TextLines(x) = p \o q
    BY <1>2, <2>2, <2>5
  <2>8. Regroup(Seq(Seq(LineBytes \ {Space})), p, q, r)
    BY Regrouped, Zenon DEF WordLists
  <2>9. (p \o q) \o r = p \o (q \o r)
    BY <2>8, Zenon DEF Regroup
  <2> QED
    BY <2>3, <2>4, <2>5, <2>6, <2>7, <2>9
<1>3. \A u \in Seq(PostBytes) : u \in S
  <2> HIDE DEF S
  <2> QED
    BY <1>1, <1>2, PostBytesAre, PartsAll DEF LineBytes
<1> QED
  BY <1>3

-----------------------------------------------------------------------------
(* strings.TrimSpace.                                                       *)

AppendMoves(a, b, e) == a \o Append(b, e) = Append(a \o b, e)

LEMMA AppendLater ==
  ASSUME NEW E, NEW a \in Seq(E), NEW b \in Seq(E), NEW e \in E
  PROVE  AppendMoves(a, b, e)
BY ConcatAppend DEF AppendMoves

\* Blanks at the end of a text.
LEMMA TrailingBlank ==
  ASSUME NEW s \in Seq(PostBytes), NEW b \in {LF, Space}
  PROVE  TextLines(Append(s, b)) = TextLines(s)
<1>1. PICK none \in Seq(LineBytes) : none = <<>>
  BY EmptySeq
<1>2. WordsOf(none) = <<>>
  BY <1>1, PostBytesAre, WordsSplit, EmptySeq
<1>3. CASE b = LF
  <2>1. Append(s, LF) \o none = Append(s, LF)
    BY <1>1, PostBytesAre, AppendTyped, ConcatEmptySeq
  <2>2. LineAfter(s, none)
    BY TextLinesSplit
  <2> QED
    BY <1>2, <1>3, <2>1, <2>2 DEF LineAfter, TakeLine
<1>4. ASSUME NEW w \in Seq(LineBytes)
      PROVE  Append(w, Space) \in Seq(LineBytes) /\ WordsOf(Append(w, Space)) = WordsOf(w)
  <2>1. PICK v \in Seq(LineBytes) : v = Append(w, Space)
    BY PostBytesAre, AppendTyped
  <2>2. v \o none = v
    BY <1>1, ConcatEmptySeq
  <2>3. WordsOf(v \o none) = WordsOf(w) \o WordsOf(none)
    BY <1>1, <2>1, PostBytesAre, WordsCut
  <2>4. WordsOf(w) \o WordsOf(none) = WordsOf(w)
    BY <1>2, WordsOfLine, ConcatEmptySeq
  <2> QED
    BY <2>1, <2>2, <2>3, <2>4
<1>5. CASE b = Space /\ s \in Seq(LineBytes)
  BY <1>4, <1>5, TextLinesSplit DEF TakeLine
<1>6. CASE b = Space /\ Parted(PostBytes, LF, s)
  <2>1. PICK t \in Seq(PostBytes), w \in Seq(LineBytes) : s = Append(t, LF) \o w
    BY <1>6 DEF Parted, LineBytes
  <2>2. PICK u \in Seq(PostBytes) : u = Append(t, LF)
    BY PostBytesAre, AppendTyped
  <2>3. Append(s, Space) = u \o Append(w, Space)
    <3>1. PICK v \in Seq(PostBytes), c \in PostBytes : v = w /\ c = Space
      BY LineInPost, PostBytesAre
    <3>2. AppendMoves(u, v, c)
      BY AppendLater, Zenon
    <3> QED
      BY <2>1, <2>2, <3>1, <3>2 DEF AppendMoves
  <2>4. LineAfter(t, w) /\ LineAfter(t, Append(w, Space))
    BY <1>4, TextLinesSplit
  <2>5. TakeLine(TextLines(t), Append(w, Space)) = TakeLine(TextLines(t), w)
    BY <1>4 DEF TakeLine
  <2> QED
    BY <1>6, <2>1, <2>2, <2>3, <2>4, <2>5 DEF LineAfter
<1> QED
  BY <1>3, <1>5, <1>6, PostBytesAre, LastPart DEF LineBytes

\* Blanks at the beginning of one.
LEMMA LeadingBlank ==
  ASSUME NEW b \in {LF, Space}
  PROVE  \A s \in Seq(PostBytes) : TextLines(<<b>> \o s) = TextLines(s)
<1>1. PICK none \in Seq(PostBytes) : none = <<>>
  BY EmptySeq
<1>2. <<b>> = Append(none, b)
  BY <1>1
<1>3. CASE b = LF
  <2>1. \A s \in Seq(PostBytes) : TextLines(<<b>> \o s) = TextLines(none) \o TextLines(s)
    BY <1>2, <1>3, TextLinesCut
  <2>2. TextLines(none) = <<>>
    <3>1. PICK line \in Seq(LineBytes) : line = <<>>
      BY EmptySeq
    <3>2. WordsOf(line) = <<>>
      BY <3>1, PostBytesAre, WordsSplit, EmptySeq
    <3>3. TextLines(line) = TakeLine(<<>>, line)
      BY TextLinesSplit
    <3> QED
      BY <1>1, <3>1, <3>2, <3>3 DEF TakeLine
  <2>3. \A s \in Seq(PostBytes) : <<>> \o TextLines(s) = TextLines(s)
    BY TextLinesSplit, ConcatEmptySeq DEF WordLists
  <2> QED
    BY <2>1, <2>2, <2>3
<1>4. CASE b = Space
  <2> DEFINE S == {s \in Seq(PostBytes) : TextLines(<<b>> \o s) = TextLines(s)}
  <2>1. ASSUME NEW w \in Seq(LineBytes) PROVE w \in S
    <3>1. PICK v \in Seq(LineBytes) : v = <<b>> \o w
      <4>1. <<Space>> \in Seq(LineBytes)
        BY PostBytesAre
      <4> QED
        BY <1>4, <4>1, ConcatProperties
    <3>2. WordsOf(v) = WordsOf(w)
      <4>1. PICK line \in Seq(LineBytes) : line = <<>>
        BY EmptySeq
      <4>2. WordsOf(Append(line, Space) \o w) = WordsOf(line) \o WordsOf(w)
        BY PostBytesAre, WordsCut
      <4>3. WordsOf(line) = <<>>
        BY <4>1, PostBytesAre, WordsSplit, EmptySeq
      <4>4. <<>> \o WordsOf(w) = WordsOf(w)
        BY WordsOfLine, ConcatEmptySeq
      <4>5. v = Append(line, Space) \o w
        BY <1>1, <1>2, <1>4, <3>1, <4>1
      <4> QED
        BY <4>2, <4>3, <4>4, <4>5
    <3>3. TextLines(v) = TextLines(w)
      BY <3>2, TextLinesSplit DEF TakeLine
    <3> QED
      BY <3>1, <3>3, LineInPost
  <2>2. ASSUME NEW t \in Seq(PostBytes), NEW w \in Seq(LineBytes), t \in S
        PROVE  Append(t, LF) \o w \in S
    <3>1. PICK a \in Seq(PostBytes) : a = <<b>>
      <4>1. <<Space>> \in Seq(PostBytes)
        BY PostBytesAre
      <4> QED
        BY <1>4, <4>1
    <3>2. Moves(LF, a, t, w)
      BY PostBytesAre, LineInPost, PartsMove
    <3>3. a \o t \in Seq(PostBytes) /\ Append(t, LF) \o w \in Seq(PostBytes)
      BY PostBytesAre, LineInPost, AppendTyped, ConcatProperties
    <3>4. LineAfter(a \o t, w) /\ LineAfter(t, w)
      BY <3>3, TextLinesSplit
    <3>5. TextLines(a \o t) = TextLines(t)
      BY <2>2, <3>1
    <3> QED
      BY <3>1, <3>2, <3>3, <3>4, <3>5 DEF Moves, LineAfter
  <2>3. \A s \in Seq(PostBytes) : s \in S
    <3> HIDE DEF S
    <3> QED
      BY <2>1, <2>2, PostBytesAre, PartsAll DEF LineBytes
  <2> QED
    BY <2>3
<1> QED
  BY <1>3, <1>4

\* Any number of them.
LEMMA BlanksAround ==
  ASSUME NEW m \in Seq(PostBytes)
  PROVE  \A l, r \in Seq({LF, Space}) : TextLines(l \o (m \o r)) = TextLines(m)
<1>0. {LF, Space} \subseteq PostBytes
  BY DEF PostBytes
<1> DEFINE B == {LF, Space}
           R == {r \in Seq(B) : TextLines(m \o r) = TextLines(m)}
           L == {l \in Seq(B) : \A u \in Seq(PostBytes) : TextLines(l \o u) = TextLines(u)}
<1>01. \A x \in Seq(B) : x \in Seq(PostBytes)
  BY <1>0, SeqMonotonic
<1>1. \A r \in Seq(B) : r \in R
  <2>1. <<>> \in R
    BY EmptySeq, ConcatEmptySeq
  <2>2. ASSUME NEW r \in Seq(B), NEW b \in B, r \in R PROVE Append(r, b) \in R
    <3>1. PICK u \in Seq(PostBytes) : u = m \o r
      BY <1>01, ConcatProperties
    <3>2. m \o Append(r, b) = Append(u, b)
      BY <1>0, <1>01, <3>1
    <3>3. TextLines(Append(u, b)) = TextLines(u)
      BY TrailingBlank
    <3>4. Append(r, b) \in Seq(B)
      BY AppendTyped
    <3> QED
      BY <2>2, <3>1, <3>2, <3>3, <3>4
  <2> HIDE DEF R
  <2> QED
    BY <2>1, <2>2, SeqAll
<1>2. \A l \in Seq(B) : l \in L
  <2>1. <<>> \in L
    BY EmptySeq, ConcatEmptySeq
  <2>2. ASSUME NEW l \in Seq(B), NEW b \in B, l \in L PROVE Append(l, b) \in L
    <3>1. Append(l, b) \in Seq(B)
      BY AppendTyped
    <3>2. ASSUME NEW u \in Seq(PostBytes) PROVE TextLines(Append(l, b) \o u) = TextLines(u)
      <4>1. PICK one \in Seq(PostBytes) : one = <<b>>
        <5>1. PICK c \in PostBytes : c = b
          BY <1>0
        <5>2. <<c>> \in Seq(PostBytes)
          OBVIOUS
        <5> QED
          BY <5>1, <5>2
      <4>2. PICK k \in Seq(PostBytes) : k = l
        BY <1>01
      <4>3. Append(k, b) = k \o one
        BY <1>0, <4>1, AppendIsConcat
      <4>4. Regroup(PostBytes, k, one, u)
        BY Regrouped, Zenon
      <4>5. (k \o one) \o u = k \o (one \o u) /\ one \o u \in Seq(PostBytes)
        BY <4>4, ConcatProperties DEF Regroup
      <4>6. TextLines(k \o (one \o u)) = TextLines(one \o u)
        BY <2>2, <4>2, <4>5
      <4>7. TextLines(one \o u) = TextLines(u)
        BY <4>1, LeadingBlank
      <4> QED
        BY <4>2, <4>3, <4>5, <4>6, <4>7
    <3> QED
      BY <3>1, <3>2
  <2> HIDE DEF L
  <2> QED
    BY <2>1, <2>2, SeqAll
<1>3. ASSUME NEW l \in Seq(B), NEW r \in Seq(B) PROVE TextLines(l \o (m \o r)) = TextLines(m)
  <2>1. m \o r \in Seq(PostBytes)
    BY <1>01, ConcatProperties
  <2>2. TextLines(m \o r) = TextLines(m)
    BY <1>1
  <2>3. \A u \in Seq(PostBytes) : TextLines(l \o u) = TextLines(u)
    BY <1>2
  <2> QED
    BY <2>1, <2>2, <2>3
<1> QED
  BY <1>3

LEMMA OtherDiffers == Other # CR
<1>1. Other = CR => Bytes = {CR, LF, Space, Colon}
  BY DEF Bytes
<1>2. Cardinality({CR, LF, Space, Colon}) <= 4
  BY FourBytes
<1> QED
  BY <1>1, <1>2, BytesAssumption

\* The library's Max of a bounded set of numbers.
LEMMA GreatestExists ==
  ASSUME NEW n \in Nat, NEW S, S \subseteq 1..n, S # {}
  PROVE  Max(S) \in S /\ \A y \in S : y <= Max(S)
<1> DEFINE D == {n - x : x \in S}
<1>1. D \subseteq Nat /\ D # {}
  <2>1. \A x \in S : n - x \in Nat
    OBVIOUS
  <2>2. PICK x \in S : TRUE
    OBVIOUS
  <2>3. n - x \in D
    OBVIOUS
  <2> QED
    BY <2>1, <2>3
<1> HIDE DEF D
<1>2. Min(D) \in D /\ \A y \in D : Min(D) <= y
  BY <1>1, LeastExists
<1> USE DEF D
<1>3. PICK x \in S : Min(D) = n - x
  BY <1>2
<1>4. \A y \in S : y <= x
  <2> SUFFICES ASSUME NEW y \in S PROVE y <= x
    OBVIOUS
  <2>1. Min(D) <= n - y
    BY <1>2
  <2>2. x \in Nat /\ y \in Nat
    OBVIOUS
  <2> HIDE DEF D
  <2> QED
    BY <1>3, <2>1, <2>2
<1>5. \E m \in S : \A y \in S : m >= y
  BY <1>4
<1> QED
  BY <1>5 DEF Max

\* TrimSpace takes blanks from both ends, and nothing else.
Trims(s, l, r) == s = l \o (TrimSpace(s) \o r)

LEMMA TrimParts ==
  ASSUME NEW s \in Seq(PostBytes)
  PROVE  /\ TrimSpace(s) \in Seq(PostBytes)
         /\ \E l, r \in Seq({LF, Space}) : Trims(s, l, r)
<1> DEFINE I == {i \in DOMAIN s : s[i] \notin Blanks}
<1>0. Len(s) \in Nat /\ DOMAIN s = 1..Len(s) /\ \A i \in 1..Len(s) : s[i] \in PostBytes
  OBVIOUS
<1>1. \A i \in DOMAIN s : i \notin I => s[i] \in {LF, Space}
  BY <1>0, OtherDiffers DEF PostBytes, Blanks
<1>2. PICK none \in Seq(PostBytes) : none = <<>>
  BY EmptySeq
<1>3. none \in Seq({LF, Space})
  BY <1>2, EmptySeq
<1>4. CASE I = {}
  <2>1. s \in Seq({LF, Space})
    BY <1>0, <1>1, <1>4
  <2>2. TrimSpace(s) = none
    BY <1>2, <1>4 DEF TrimSpace
  <2>3. none \o none = none /\ s \o none = s
    BY <1>2, ConcatEmptySeq
  <2> QED
    BY <1>3, <2>1, <2>2, <2>3 DEF Trims
<1>5. CASE I # {}
  <2>1. I \subseteq Nat /\ I \subseteq 1..Len(s)
    BY <1>0
  <2>2. PICK a \in I : a = Min(I) /\ \A y \in I : a <= y
    <3> HIDE DEF I
    <3> QED
      BY <1>5, <2>1, LeastExists
  <2>3. PICK b \in I : b = Max(I) /\ \A y \in I : y <= b
    <3> HIDE DEF I
    <3> QED
      BY <1>0, <1>5, <2>1, GreatestExists
  <2>4. PICK n \in Nat : n = Len(s)
    BY <1>0
  <2>5. a \in 1..n /\ b \in 1..n /\ a <= b
    BY <2>1, <2>2, <2>3, <2>4
  <2>6. TrimSpace(s) = SubSeq(s, a, b)
    BY <1>5, <2>2, <2>3 DEF TrimSpace
  <2> HIDE DEF I
  <2>7. PICK l : l = SubSeq(s, 1, a - 1)
    OBVIOUS
  <2>8. PICK m : m = SubSeq(s, a, b)
    OBVIOUS
  <2>9. PICK r : r = SubSeq(s, b + 1, n)
    OBVIOUS
  <2>10. l \in Seq({LF, Space})
    <3>1. \A i \in 1..(a - 1) : s[i] \in {LF, Space}
      BY <1>0, <1>1, <2>1, <2>2, <2>4, <2>5
    <3> QED
      BY <2>5, <2>7, <3>1, SubSeqProperties
  <2>11. r \in Seq({LF, Space})
    <3>1. \A i \in (b + 1)..n : s[i] \in {LF, Space}
      BY <1>0, <1>1, <2>1, <2>3, <2>4, <2>5
    <3> QED
      BY <2>5, <2>9, <3>1, SubSeqProperties
  <2>12. m \in Seq(PostBytes)
    <3>1. \A i \in a..b : s[i] \in PostBytes
      BY <1>0, <2>4, <2>5
    <3> QED
      BY <2>5, <2>8, <3>1, SubSeqProperties
  <2>13. m \o r = SubSeq(s, a, n)
    <3>1. a \in 1..(n + 1) /\ b \in (a - 1)..n /\ n \in b..n
      BY <2>5
    <3> QED
      BY <2>4, <2>8, <2>9, <3>1, ConcatAdjacentSubSeq
  <2>14. l \o (m \o r) = s
    <3>1. PICK c \in Int : c = a - 1
      BY <2>5
    <3>2. 1 \in 1..(n + 1) /\ c \in (1 - 1)..n /\ n \in c..n /\ c + 1 = a
      BY <2>5, <3>1
    <3>3. SubSeq(s, 1, c) \o SubSeq(s, c + 1, n) = SubSeq(s, 1, n)
      BY <2>4, <3>2, ConcatAdjacentSubSeq
    <3>4. SubSeq(s, 1, n) = s
      BY <2>4, SubSeqFull
    <3> QED
      BY <2>7, <2>13, <3>1, <3>2, <3>3, <3>4
  <2> QED
    BY <2>6, <2>8, <2>10, <2>11, <2>12, <2>14 DEF Trims
<1> QED
  BY <1>4, <1>5

LEMMA TrimKeeps ==
  ASSUME NEW s \in Seq(PostBytes)
  PROVE  /\ TrimSpace(s) \in Seq(PostBytes)
         /\ TextLines(TrimSpace(s)) = TextLines(s)
         /\ TrimSpace(s) = s \/ Len(TrimSpace(s)) < Len(s)
<1>1. PICK m \in Seq(PostBytes) : m = TrimSpace(s)
  BY TrimParts
<1>2. PICK l \in Seq({LF, Space}), r \in Seq({LF, Space}) : s = l \o (m \o r)
  BY <1>1, TrimParts DEF Trims
<1>3. TextLines(s) = TextLines(m)
  BY <1>2, BlanksAround
<1>4. l \in Seq(PostBytes) /\ r \in Seq(PostBytes)
  <2>1. {LF, Space} \subseteq PostBytes
    BY DEF PostBytes
  <2> QED
    BY <2>1, SeqMonotonic
<1>5. m \o r \in Seq(PostBytes) /\ Len(m \o r) = Len(m) + Len(r) /\ Len(s) = Len(l) + Len(m \o r)
      /\ Len(l) \in Nat /\ Len(m) \in Nat /\ Len(r) \in Nat
  BY <1>2, <1>4, ConcatProperties
<1>6. CASE Len(l) = 0 /\ Len(r) = 0
  <2>1. l = <<>> /\ r = <<>>
    BY <1>4, <1>6, EmptySeq
  <2>2. m \o <<>> = m /\ <<>> \o m = m
    BY ConcatEmptySeq
  <2> QED
    BY <1>1, <1>2, <1>3, <2>1, <2>2
<1>7. CASE Len(l) # 0 \/ Len(r) # 0
  BY <1>1, <1>3, <1>5, <1>7
<1> QED
  BY <1>6, <1>7

-----------------------------------------------------------------------------
(* strings.ReplaceAll of two newlines by one.                               *)

\* What strings.ReplaceAll has made of a text.
Halving == [out : Seq(PostBytes), one : BOOLEAN]
Unhalved == [out |-> <<>>, one |-> FALSE]
HalvingOf(s) == Run(Halve, Unhalved, s)

LEMMA OneTaken ==
  ASSUME NEW x, x = [out |-> x.out, one |-> x.one], NEW c
  PROVE  [x EXCEPT !.one = c] = [out |-> x.out, one |-> c]
OBVIOUS

LEMMA HalveIs ==
  ASSUME NEW st \in Halving, NEW b
  PROVE  /\ b = LF /\ st.one => Halve(st, b) = [out |-> st.out, one |-> FALSE]
         /\ ~(b = LF /\ st.one) => Halve(st, b) = [out |-> Append(st.out, b), one |-> b = LF]
<1>1. st = [out |-> st.out, one |-> st.one]
  BY DEF Halving
<1>2. [st EXCEPT !.one = FALSE] = [out |-> st.out, one |-> FALSE]
  BY <1>1, OneTaken, Zenon
<1> QED
  BY <1>2 DEF Halve

LEMMA HalveTyped ==
  Unhalved \in Halving /\ \A st \in Halving, b \in PostBytes : Halve(st, b) \in Halving
<1>1. Unhalved \in Halving
  BY EmptySeq DEF Unhalved, Halving
<1>2. ASSUME NEW st \in Halving, NEW b \in PostBytes PROVE Halve(st, b) \in Halving
  <2>1. st.out \in Seq(PostBytes) /\ Append(st.out, b) \in Seq(PostBytes)
    BY AppendTyped DEF Halving
  <2>2. [out |-> st.out, one |-> FALSE] \in Halving
        /\ [out |-> Append(st.out, b), one |-> b = LF] \in Halving
    BY <2>1 DEF Halving
  <2> QED
    BY <2>2, HalveIs
<1> QED
  BY <1>1, <1>2

LEMMA HalvingGrows ==
  /\ HalvingOf(<<>>) = Unhalved
  /\ \A s \in Seq(PostBytes) : HalvingOf(s) \in Halving
  /\ \A s \in Seq(PostBytes), b \in PostBytes :
        HalvingOf(Append(s, b)) = Halve(HalvingOf(s), b)
<1> DEFINE T == Halving
           U == PostBytes
           op == [x \in T \X U |-> Halve(x[1], x[2])]
           F(s) == CHOOSE g : g = [i \in 0..Len(s) |->
                                     IF i = 0 THEN Unhalved ELSE Halve(g[i - 1], s[i])]
<1>1. Unhalved \in T /\ \A x \in T, b \in U : Halve(x, b) \in T
  BY HalveTyped
<1>2. \A s : HalvingOf(s) = F(s)[Len(s)]
  BY DEF HalvingOf, Run
<1> HIDE DEF T, U
<1>3. IsStep(T, U, op) /\ \A x \in T, b \in U : op[<<x, b>>] = Halve(x, b)
  BY <1>1 DEF IsStep
<1> HIDE DEF op
<1>4. ASSUME NEW s \in Seq(U) PROVE HalvingOf(s) = Fold(T, op, Unhalved, s)
  <2>0. Len(s) \in Nat /\ \A i \in 1..Len(s) : s[i] \in U /\ i # 0 /\ i - 1 \in 0..Len(s)
    OBVIOUS
  <2>1. PICK f : Values(T, op, Unhalved, s, f)
    BY <1>1, <1>3, ValuesExist, Zenon
  <2>2. f \in [0..Len(s) -> T] /\ f[0] = Unhalved
    BY <2>1 DEF Values
  <2>3. ASSUME NEW i \in 1..Len(s) PROVE f[i] = Halve(f[i - 1], s[i])
    BY <1>3, <2>0, <2>1, <2>2 DEF Values
  <2>4. PICK c : c = Unhalved
    OBVIOUS
  <2>5. f = [i \in 0..Len(s) |-> IF i = 0 THEN c ELSE Halve(f[i - 1], s[i])]
    BY <2>2, <2>3, <2>4
  <2>6. F(s) = [i \in 0..Len(s) |-> IF i = 0 THEN Unhalved ELSE Halve(F(s)[i - 1], s[i])]
    BY <2>4, <2>5, Zenon
  <2> HIDE DEF F
  <2>7. F(s)[0] = Unhalved
    BY <2>0, <2>6
  <2>8. ASSUME NEW i \in 1..Len(s), F(s)[i - 1] \in T
        PROVE  F(s)[i] = op[<<F(s)[i - 1], s[i]>>]
    <3>0. i # 0 /\ i \in 0..Len(s)
      BY <2>0
    <3>1. F(s)[i] = Halve(F(s)[i - 1], s[i])
      BY <2>6, <3>0, Zenon
    <3> QED
      BY <1>3, <2>0, <2>8, <3>1
  <2>9. IsStep(T, U, op) /\ Unhalved \in T
    BY <1>1, <1>3
  <2>10. F(s)[Len(s)] = Fold(T, op, Unhalved, s)
    BY <2>7, <2>8, <2>9, FoldUnique
  <2> QED
    BY <1>2, <2>10
<1>5. HalvingOf(<<>>) = Unhalved
  <2>1. HalvingOf(<<>>) = Fold(T, op, Unhalved, <<>>)
    BY <1>4, EmptySeq, Zenon
  <2> QED
    BY <1>1, <1>3, <2>1, FoldNone
<1>6. ASSUME NEW s \in Seq(U) PROVE HalvingOf(s) \in T
  BY <1>1, <1>3, <1>4, FoldTyped
<1>7. ASSUME NEW s \in Seq(U), NEW b \in U
      PROVE  HalvingOf(Append(s, b)) = Halve(HalvingOf(s), b)
  <2>1. Append(s, b) \in Seq(U)
    BY AppendTyped, Zenon
  <2>2. Fold(T, op, Unhalved, Append(s, b)) = op[<<Fold(T, op, Unhalved, s), b>>]
    BY <1>1, <1>3, FoldOne
  <2>3. HalvingOf(Append(s, b)) = op[<<HalvingOf(s), b>>]
    BY <1>4, <2>1, <2>2, Zenon
  <2> QED
    BY <1>3, <1>6, <2>3
<1> QED
  BY <1>5, <1>6, <1>7 DEF T, U

\* Texts that have the same lines, whatever follows them.
SameLines(a, b) == \A w \in Seq(PostBytes) : TextLines(a \o w) = TextLines(b \o w)

LEMMA OneByte == \A b \in PostBytes : <<b>> \in Seq(PostBytes)
OBVIOUS

LEMMA SameOnes ==
  ASSUME NEW a \in Seq(PostBytes), NEW c \in Seq(PostBytes), SameLines(a, c)
  PROVE  /\ TextLines(a) = TextLines(c)
         /\ \A b \in PostBytes : SameLines(Append(a, b), Append(c, b))
<1>1. TextLines(a) = TextLines(c)
  <2>1. PICK none \in Seq(PostBytes) : none = <<>>
    BY EmptySeq
  <2>2. a \o none = a /\ c \o none = c
    BY <2>1, ConcatEmptySeq
  <2> QED
    BY <2>2 DEF SameLines
<1>2. ASSUME NEW b \in PostBytes, NEW w \in Seq(PostBytes)
      PROVE  TextLines(Append(a, b) \o w) = TextLines(Append(c, b) \o w)
  <2>1. PICK one \in Seq(PostBytes) : one = <<b>>
    BY OneByte
  <2>2. PICK v \in Seq(PostBytes) : v = one \o w
    BY ConcatProperties
  <2>3. ASSUME NEW x \in Seq(PostBytes) PROVE Append(x, b) \o w = x \o v
    <3>1. Append(x, b) = x \o one
      BY <2>1, AppendIsConcat
    <3>2. Regroup(PostBytes, x, one, w)
      BY Regrouped, Zenon
    <3> QED
      BY <2>2, <3>1, <3>2, Zenon DEF Regroup
  <2>4. TextLines(a \o v) = TextLines(c \o v)
    BY DEF SameLines
  <2> QED
    BY <2>3, <2>4
<1> QED
  BY <1>1, <1>2 DEF SameLines

\* ReplaceAll keeps the lines of a text.
LEMMA HalvingSame ==
  \A s \in Seq(PostBytes) :
     /\ SameLines(HalvingOf(s).out, s)
     /\ HalvingOf(s).one => \E o \in Seq(PostBytes) : HalvingOf(s).out = Append(o, LF)
<1> DEFINE Ends(st) == \E o \in Seq(PostBytes) : st.out = Append(o, LF)
           S == {s \in Seq(PostBytes) : /\ SameLines(HalvingOf(s).out, s)
                                        /\ HalvingOf(s).one => Ends(HalvingOf(s))}
<1>1. <<>> \in S
  <2>1. PICK none \in Seq(PostBytes) : none = <<>>
    BY EmptySeq
  <2>2. HalvingOf(none).out = none /\ HalvingOf(none).one = FALSE
    BY <2>1, HalvingGrows DEF Unhalved
  <2>3. SameLines(none, none)
    BY DEF SameLines
  <2> QED
    BY <2>1, <2>2, <2>3
<1>2. ASSUME NEW s \in Seq(PostBytes), NEW b \in PostBytes, s \in S PROVE Append(s, b) \in S
  <2>1. PICK st \in Halving : st = HalvingOf(s)
    BY HalvingGrows
  <2>2. HalvingOf(Append(s, b)) = Halve(st, b)
    BY <2>1, HalvingGrows
  <2>3. st.out \in Seq(PostBytes) /\ SameLines(st.out, s) /\ (st.one => Ends(st))
    BY <1>2, <2>1 DEF Halving
  <2>4. Append(s, b) \in Seq(PostBytes)
    BY AppendTyped
  <2>5. CASE b = LF /\ st.one
    <3>1. HalvingOf(Append(s, b)) = [out |-> st.out, one |-> FALSE]
      BY <2>2, <2>5, HalveIs
    <3>2. PICK o \in Seq(PostBytes) : st.out = Append(o, LF)
      BY <2>3, <2>5
    <3>3. ASSUME NEW w \in Seq(PostBytes)
          PROVE  TextLines(st.out \o w) = TextLines(Append(s, b) \o w)
      <4>1. TextLines(st.out \o w) = TextLines(o) \o TextLines(w)
        BY <3>2, TextLinesCut
      <4>2. TextLines(Append(s, b) \o w) = TextLines(s) \o TextLines(w)
        BY <2>5, TextLinesCut
      <4>3. TextLines(st.out) = TextLines(o)
        BY <3>2, TrailingBlank
      <4>4. TextLines(st.out) = TextLines(s)
        BY <2>3, SameOnes
      <4> QED
        BY <4>1, <4>2, <4>3, <4>4
    <3>4. SameLines(st.out, Append(s, b))
      BY <3>3 DEF SameLines
    <3> QED
      BY <2>4, <3>1, <3>4
  <2>6. CASE ~(b = LF /\ st.one)
    <3>1. HalvingOf(Append(s, b)) = [out |-> Append(st.out, b), one |-> b = LF]
      BY <2>2, <2>6, HalveIs
    <3>2. SameLines(Append(st.out, b), Append(s, b))
      BY <2>3, SameOnes
    <3>3. PICK next : next = HalvingOf(Append(s, b))
      OBVIOUS
    <3>4. next.out = Append(st.out, b) /\ (next.one => b = LF)
      <4>1. PICK c : c = (b = LF)
        OBVIOUS
      <4>2. PICK o : o = Append(st.out, b)
        OBVIOUS
      <4>3. next = [out |-> o, one |-> c]
        BY <3>1, <3>3, <4>1, <4>2, Zenon
      <4>4. next.out = o /\ next.one = c
        BY <4>3
      <4> QED
        BY <4>1, <4>2, <4>4
    <3>5. next.one => Ends(next)
      BY <2>3, <3>4
    <3> QED
      BY <2>4, <3>2, <3>3, <3>4, <3>5
  <2> QED
    BY <2>5, <2>6
<1>3. \A s \in Seq(PostBytes) : s \in S
  <2> HIDE DEF S
  <2> QED
    BY <1>1, <1>2, SeqAll
<1> QED
  BY <1>3

\* It leaves a text as long as it was only if there was nothing to replace.
LEMMA HalvingShort ==
  \A s \in Seq(PostBytes) :
     /\ Len(HalvingOf(s).out) <= Len(s)
     /\ Len(HalvingOf(s).out) = Len(s) =>
           /\ ~HasBlankLine(s)
           /\ Len(s) > 0 /\ s[Len(s)] = LF => HalvingOf(s).one
<1> DEFINE Rest(s) == /\ ~HasBlankLine(s)
                      /\ Len(s) > 0 /\ s[Len(s)] = LF => HalvingOf(s).one
           S == {s \in Seq(PostBytes) : /\ Len(HalvingOf(s).out) <= Len(s)
                                        /\ Len(HalvingOf(s).out) = Len(s) => Rest(s)}
<1>1. <<>> \in S
  <2>1. PICK none \in Seq(PostBytes) : none = <<>> /\ Len(none) = 0
    BY EmptySeq
  <2>2. HalvingOf(none).out = none
    BY <2>1, HalvingGrows DEF Unhalved
  <2> QED
    BY <2>1, <2>2 DEF HasBlankLine
<1>2. ASSUME NEW s \in Seq(PostBytes), NEW b \in PostBytes, s \in S PROVE Append(s, b) \in S
  <2>1. PICK st \in Halving : st = HalvingOf(s)
    BY HalvingGrows
  <2>2. HalvingOf(Append(s, b)) = Halve(st, b)
    BY <2>1, HalvingGrows
  <2>3. PICK t \in Seq(PostBytes) : t = Append(s, b)
    BY AppendTyped
  <2>4. Len(s) \in Nat /\ Len(t) = Len(s) + 1 /\ t[Len(s) + 1] = b
        /\ \A i \in 1..Len(s) : t[i] = s[i]
    BY <2>3, AppendProperties
  <2>5. st.out \in Seq(PostBytes) /\ Len(st.out) \in Nat /\ Len(st.out) <= Len(s)
        /\ (Len(st.out) = Len(s) => Rest(s))
    BY <1>2, <2>1 DEF Halving
  <2>6. CASE b = LF /\ st.one
    <3>1. HalvingOf(t).out = st.out
      BY <2>2, <2>3, <2>6, HalveIs
    <3> QED
      BY <2>3, <2>4, <2>5, <3>1
  <2>7. CASE ~(b = LF /\ st.one)
    <3>1. HalvingOf(t).out = Append(st.out, b) /\ HalvingOf(t).one = (b = LF)
      BY <2>2, <2>3, <2>7, HalveIs
    <3>2. Len(HalvingOf(t).out) = Len(st.out) + 1
      BY <2>5, <3>1, AppendProperties
    <3>3. ASSUME Len(st.out) = Len(s) PROVE ~HasBlankLine(t)
      <4> SUFFICES ASSUME NEW i \in 1..(Len(t) - 1), t[i] = LF, t[i + 1] = LF PROVE FALSE
        BY DEF HasBlankLine
      <4>1. i \in 1..Len(s) /\ t[i] = s[i]
        BY <2>4
      <4>2. CASE i = Len(s)
        <5>1. b = LF /\ s[Len(s)] = LF /\ Len(s) > 0
          BY <2>4, <4>1, <4>2
        <5> QED
          BY <2>1, <2>5, <2>7, <3>3, <5>1
      <4>3. CASE i # Len(s)
        <5>1. i \in 1..(Len(s) - 1) /\ i + 1 \in 1..Len(s)
          BY <2>4, <4>1, <4>3
        <5>2. s[i] = LF /\ s[i + 1] = LF
          BY <2>4, <4>1, <5>1
        <5>3. ~HasBlankLine(s)
          BY <2>5, <3>3
        <5> QED
          BY <5>1, <5>2, <5>3 DEF HasBlankLine
      <4> QED
        BY <4>2, <4>3
    <3>4. Len(t) > 0 /\ t[Len(t)] = LF => HalvingOf(t).one
      BY <2>4, <3>1
    <3>5. Len(HalvingOf(t).out) = Len(t) => Rest(t)
      BY <2>4, <2>5, <3>2, <3>3, <3>4
    <3>6. Len(HalvingOf(t).out) <= Len(t)
      BY <2>4, <2>5, <3>2
    <3> QED
      BY <2>3, <3>5, <3>6
  <2> QED
    BY <2>6, <2>7
<1>3. \A s \in Seq(PostBytes) : s \in S
  <2> HIDE DEF S
  <2> QED
    BY <1>1, <1>2, SeqAll
<1> QED
  BY <1>3

-----------------------------------------------------------------------------
(* NormalizePost and parsePrivateMessageID.                                 *)

\* One round of the loop in NormalizePost.
Cleaned(t) == Halved(TrimSpace(t))

LEMMA RoundCleans ==
  ASSUME NEW t \in Seq(PostBytes)
  PROVE  /\ Cleaned(t) \in Seq(PostBytes) /\ TextLines(Cleaned(t)) = TextLines(t)
         /\ HasBlankLine(t) => Len(Cleaned(t)) < Len(t)
<1>1. PICK m \in Seq(PostBytes) : m = TrimSpace(t)
  BY TrimKeeps
<1>2. Cleaned(t) = HalvingOf(m).out
  BY <1>1, Zenon DEF Cleaned, Halved, HalvingOf, Unhalved
<1>3. PICK u \in Seq(PostBytes) : u = Cleaned(t)
  BY <1>2, HalvingGrows DEF Halving
<1>4. TextLines(u) = TextLines(m)
  BY <1>2, <1>3, HalvingSame, SameOnes
<1>5. TextLines(m) = TextLines(t)
  BY <1>1, TrimKeeps
<1>6. HasBlankLine(t) => Len(u) < Len(t)
  <2>1. Len(t) \in Nat /\ Len(m) \in Nat /\ Len(u) \in Nat
    OBVIOUS
  <2>2. Len(u) <= Len(m) /\ (Len(u) = Len(m) => ~HasBlankLine(m))
    BY <1>2, <1>3, HalvingShort
  <2>3. m = t \/ Len(m) < Len(t)
    BY <1>1, TrimKeeps
  <2> QED
    BY <2>1, <2>2, <2>3
<1> QED
  BY <1>3, <1>4, <1>5, <1>6

Round(u, i) == IF HasBlankLine(u) THEN Cleaned(u) ELSE u
RoundsOf(t, s) == Run(Round, t, s)

LEMMA RoundTyped ==
  \A u \in Seq(PostBytes), i \in Nat : Round(u, i) \in Seq(PostBytes)
BY RoundCleans DEF Round

LEMMA RoundsGrow ==
  ASSUME NEW t \in Seq(PostBytes)
  PROVE  /\ RoundsOf(t, <<>>) = t
         /\ \A s \in Seq(Nat) : RoundsOf(t, s) \in Seq(PostBytes)
         /\ \A s \in Seq(Nat), n \in Nat :
               RoundsOf(t, Append(s, n)) = Round(RoundsOf(t, s), n)
<1> DEFINE T == Seq(PostBytes)
           U == Nat
           op == [x \in T \X U |-> Round(x[1], x[2])]
           F(s) == CHOOSE g : g = [i \in 0..Len(s) |->
                                     IF i = 0 THEN t ELSE Round(g[i - 1], s[i])]
<1>1. t \in T /\ \A x \in T, n \in U : Round(x, n) \in T
  BY RoundTyped
<1>2. \A s : RoundsOf(t, s) = F(s)[Len(s)]
  BY DEF RoundsOf, Run
<1> HIDE DEF T, U
<1>3. IsStep(T, U, op) /\ \A x \in T, n \in U : op[<<x, n>>] = Round(x, n)
  BY <1>1 DEF IsStep
<1> HIDE DEF op
<1>4. ASSUME NEW s \in Seq(U) PROVE RoundsOf(t, s) = Fold(T, op, t, s)
  <2>0. Len(s) \in Nat /\ \A i \in 1..Len(s) : s[i] \in U /\ i # 0 /\ i - 1 \in 0..Len(s)
    OBVIOUS
  <2>1. PICK f : Values(T, op, t, s, f)
    BY <1>1, <1>3, ValuesExist, Zenon
  <2>2. f \in [0..Len(s) -> T] /\ f[0] = t
    BY <2>1 DEF Values
  <2>3. ASSUME NEW i \in 1..Len(s) PROVE f[i] = Round(f[i - 1], s[i])
    BY <1>3, <2>0, <2>1, <2>2 DEF Values
  <2>4. PICK c : c = t
    OBVIOUS
  <2>5. f = [i \in 0..Len(s) |-> IF i = 0 THEN c ELSE Round(f[i - 1], s[i])]
    BY <2>2, <2>3, <2>4
  <2>6. F(s) = [i \in 0..Len(s) |-> IF i = 0 THEN t ELSE Round(F(s)[i - 1], s[i])]
    BY <2>4, <2>5, Zenon
  <2> HIDE DEF F
  <2>7. F(s)[0] = t
    BY <2>0, <2>6
  <2>8. ASSUME NEW i \in 1..Len(s), F(s)[i - 1] \in T
        PROVE  F(s)[i] = op[<<F(s)[i - 1], s[i]>>]
    <3>0. i # 0 /\ i \in 0..Len(s)
      BY <2>0
    <3>1. F(s)[i] = Round(F(s)[i - 1], s[i])
      BY <2>6, <3>0, Zenon
    <3> QED
      BY <1>3, <2>0, <2>8, <3>1
  <2>9. IsStep(T, U, op) /\ t \in T
    BY <1>1, <1>3
  <2>10. F(s)[Len(s)] = Fold(T, op, t, s)
    BY <2>7, <2>8, <2>9, FoldUnique
  <2> QED
    BY <1>2, <2>10
<1>5. RoundsOf(t, <<>>) = t
  <2>1. RoundsOf(t, <<>>) = Fold(T, op, t, <<>>)
    BY <1>4, EmptySeq, Zenon
  <2> QED
    BY <1>1, <1>3, <2>1, FoldNone
<1>6. ASSUME NEW s \in Seq(U) PROVE RoundsOf(t, s) \in T
  BY <1>1, <1>3, <1>4, FoldTyped
<1>7. ASSUME NEW s \in Seq(U), NEW n \in U
      PROVE  RoundsOf(t, Append(s, n)) = Round(RoundsOf(t, s), n)
  <2>1. Append(s, n) \in Seq(U)
    BY AppendTyped, Zenon
  <2>2. Fold(T, op, t, Append(s, n)) = op[<<Fold(T, op, t, s), n>>]
    BY <1>1, <1>3, FoldOne
  <2>3. RoundsOf(t, Append(s, n)) = op[<<RoundsOf(t, s), n>>]
    BY <1>4, <2>1, <2>2, Zenon
  <2> QED
    BY <1>3, <1>6, <2>3
<1> QED
  BY <1>5, <1>6, <1>7 DEF T, U

LEMMA PositionsAll ==
  /\ Positions(0) = <<>>
  /\ \A n \in Nat :
        Positions(n) \in Seq(Nat) /\ Positions(n + 1) = Append(Positions(n), n + 1)
<1>1. Positions(0) = <<>>
  <2>1. 0 \in Nat /\ 1 \in Nat /\ 0 < 1
    OBVIOUS
  <2> QED
    BY <2>1, PositionsGrow
<1>2. ASSUME NEW n \in Nat
      PROVE  Positions(n) \in Seq(Nat) /\ Positions(n + 1) = Append(Positions(n), n + 1)
  <2>1. n < n + 1 /\ n + 1 \in Nat /\ 1..(n + 1) \subseteq Nat
    OBVIOUS
  <2>2. Positions(n) \in Seq(1..(n + 1))
    BY <2>1, PositionsGrow
  <2>3. Positions(n + 1) = Append(Positions(n), n + 1)
    BY <2>1, PositionsGrow
  <2> QED
    BY <2>1, <2>2, <2>3, SeqMonotonic
<1> QED
  BY <1>1, <1>2

\* Each round takes at least one byte off.
LEMMA UnblankIs ==
  ASSUME NEW t \in Seq(PostBytes)
  PROVE  ~HasBlankLine(Unblank(t)) /\ TextLines(Unblank(t)) = TextLines(t)
<1> DEFINE After(n) == RoundsOf(t, Positions(n))
           S == {n \in Nat : /\ TextLines(After(n)) = TextLines(t)
                             /\ HasBlankLine(After(n)) => Len(After(n)) + n <= Len(t)}
<1>0. Len(t) \in Nat
  OBVIOUS
<1>1. Positions(0) = <<>> /\ \A n \in Nat :
         Positions(n) \in Seq(Nat) /\ Positions(n + 1) = Append(Positions(n), n + 1)
  BY PositionsAll
<1>2. After(0) = t
  BY <1>1, RoundsGrow
<1>3. ASSUME NEW n \in Nat
      PROVE  After(n) \in Seq(PostBytes) /\ After(n + 1) = Round(After(n), n + 1)
  <2>1. PICK p \in Seq(Nat) : p = Positions(n)
    BY <1>1
  <2>2. RoundsOf(t, p) \in Seq(PostBytes)
    BY RoundsGrow
  <2>3. RoundsOf(t, Append(p, n + 1)) = Round(RoundsOf(t, p), n + 1)
    <3>1. n + 1 \in Nat
      OBVIOUS
    <3> QED
      BY <3>1, RoundsGrow
  <2> QED
    BY <1>1, <2>1, <2>2, <2>3
<1>4. 0 \in S
  BY <1>0, <1>2
<1>5. ASSUME NEW n \in Nat, n \in S PROVE n + 1 \in S
  <2>1. PICK u \in Seq(PostBytes) : u = After(n)
    BY <1>3
  <2>2. PICK v : v = After(n + 1)
    OBVIOUS
  <2>3. v = IF HasBlankLine(u) THEN Cleaned(u) ELSE u
    BY <1>3, <2>1, <2>2 DEF Round
  <2>4. TextLines(u) = TextLines(t) /\ (HasBlankLine(u) => Len(u) + n <= Len(t))
    BY <1>5, <2>1
  <2>5. TextLines(v) = TextLines(t)
    BY <2>3, <2>4, RoundCleans
  <2>6. HasBlankLine(v) => Len(v) + (n + 1) <= Len(t)
    <3>1. HasBlankLine(v) => /\ HasBlankLine(u) /\ v = Cleaned(u)
      BY <2>3
    <3>2. HasBlankLine(v) => /\ v \in Seq(PostBytes) /\ Len(v) < Len(u)
      BY <3>1, RoundCleans
    <3>3. Len(u) \in Nat /\ (v \in Seq(PostBytes) => Len(v) \in Nat)
      OBVIOUS
    <3> QED
      BY <1>0, <2>4, <3>1, <3>2, <3>3
  <2> HIDE DEF After
  <2> QED
    BY <2>2, <2>5, <2>6
<1>6. Len(t) \in S
  <2> HIDE DEF S
  <2> QED
    BY <1>0, <1>4, <1>5, NatAll
<1>7. PICK u \in Seq(PostBytes) : u = After(Len(t))
  BY <1>0, <1>3
<1>8. TextLines(u) = TextLines(t) /\ (HasBlankLine(u) => Len(u) + Len(t) <= Len(t))
  BY <1>6, <1>7
<1>9. ~HasBlankLine(u)
  <2> SUFFICES ASSUME HasBlankLine(u) PROVE FALSE
    OBVIOUS
  <2>1. Len(u) \in Nat /\ Len(u) <= 0
    BY <1>0, <1>8
  <2> QED
    BY <2>1 DEF HasBlankLine
<1>10. Unblank(t) = After(Len(t))
  BY Zenon DEF Unblank, RoundsOf, Round, Cleaned
<1> QED
  BY <1>7, <1>8, <1>9, <1>10

\* One step of extractTextFromDeepChild.
Deeper(m, i) == IF m.is = "text" \/ m.kids = <<>> THEN m ELSE m.kids[1]
DeepOf(n, s) == Run(Deeper, n, s)

LEMMA DeepGrows ==
  ASSUME NEW M, NEW n \in M, \A m \in M, e \in Nat : Deeper(m, e) \in M
  PROVE  /\ DeepOf(n, <<>>) = n
         /\ \A s \in Seq(Nat) : DeepOf(n, s) \in M
         /\ \A s \in Seq(Nat), e \in Nat :
               DeepOf(n, Append(s, e)) = Deeper(DeepOf(n, s), e)
<1> DEFINE T == M
           U == Nat
           op == [x \in T \X U |-> Deeper(x[1], x[2])]
           F(s) == CHOOSE g : g = [i \in 0..Len(s) |->
                                     IF i = 0 THEN n ELSE Deeper(g[i - 1], s[i])]
<1>1. n \in T /\ \A x \in T, e \in U : Deeper(x, e) \in T
  OBVIOUS
<1>2. \A s : DeepOf(n, s) = F(s)[Len(s)]
  BY DEF DeepOf, Run
<1> HIDE DEF T, U
<1>3. IsStep(T, U, op) /\ \A x \in T, e \in U : op[<<x, e>>] = Deeper(x, e)
  BY <1>1 DEF IsStep
<1> HIDE DEF op
<1>4. ASSUME NEW s \in Seq(U) PROVE DeepOf(n, s) = Fold(T, op, n, s)
  <2>0. Len(s) \in Nat /\ \A i \in 1..Len(s) : s[i] \in U /\ i # 0 /\ i - 1 \in 0..Len(s)
    OBVIOUS
  <2>1. PICK f : Values(T, op, n, s, f)
    BY <1>1, <1>3, ValuesExist, Zenon
  <2>2. f \in [0..Len(s) -> T] /\ f[0] = n
    BY <2>1 DEF Values
  <2>3. ASSUME NEW i \in 1..Len(s) PROVE f[i] = Deeper(f[i - 1], s[i])
    BY <1>3, <2>0, <2>1, <2>2 DEF Values
  <2>4. PICK c : c = n
    OBVIOUS
  <2>5. f = [i \in 0..Len(s) |-> IF i = 0 THEN c ELSE Deeper(f[i - 1], s[i])]
    BY <2>2, <2>3, <2>4
  <2>6. F(s) = [i \in 0..Len(s) |-> IF i = 0 THEN n ELSE Deeper(F(s)[i - 1], s[i])]
    BY <2>4, <2>5, Zenon
  <2> HIDE DEF F
  <2>7. F(s)[0] = n
    BY <2>0, <2>6
  <2>8. ASSUME NEW i \in 1..Len(s), F(s)[i - 1] \in T
        PROVE  F(s)[i] = op[<<F(s)[i - 1], s[i]>>]
    <3>0. i # 0 /\ i \in 0..Len(s)
      BY <2>0
    <3>1. F(s)[i] = Deeper(F(s)[i - 1], s[i])
      BY <2>6, <3>0, Zenon
    <3> QED
      BY <1>3, <2>0, <2>8, <3>1
  <2>9. IsStep(T, U, op) /\ n \in T
    BY <1>1, <1>3
  <2>10. F(s)[Len(s)] = Fold(T, op, n, s)
    BY <2>7, <2>8, <2>9, FoldUnique
  <2> QED
    BY <1>2, <2>10
<1>5. DeepOf(n, <<>>) = n
  <2>1. DeepOf(n, <<>>) = Fold(T, op, n, <<>>)
    BY <1>4, EmptySeq, Zenon
  <2> QED
    BY <1>1, <1>3, <2>1, FoldNone
<1>6. ASSUME NEW s \in Seq(U) PROVE DeepOf(n, s) \in T
  BY <1>1, <1>3, <1>4, FoldTyped
<1>7. ASSUME NEW s \in Seq(U), NEW e \in U
      PROVE  DeepOf(n, Append(s, e)) = Deeper(DeepOf(n, s), e)
  <2>1. Append(s, e) \in Seq(U)
    BY AppendTyped, Zenon
  <2>2. Fold(T, op, n, Append(s, e)) = op[<<Fold(T, op, n, s), e>>]
    BY <1>1, <1>3, FoldOne
  <2>3. DeepOf(n, Append(s, e)) = op[<<DeepOf(n, s), e>>]
    BY <1>4, <2>1, <2>2, Zenon
  <2> QED
    BY <1>3, <1>6, <2>3
<1> QED
  BY <1>5, <1>6, <1>7 DEF T, U

LEMMA OneLeaf ==
  ASSUME NEW is, NEW v
  PROVE  Leaves(is, <<v>>) = <<Node(is, v, <<>>)>> /\ Vals(Leaves(is, <<v>>)) = <<v>>
<1>1. PICK k : k = Node(is, v, <<>>)
  OBVIOUS
<1>2. Leaves(is, <<v>>) = <<k>>
  BY <1>1 DEF Leaves
<1>3. k.val = v
  BY <1>1 DEF Node
<1>4. Vals(<<k>>) = <<v>>
  BY <1>3 DEF Vals
<1> QED
  BY <1>1, <1>2, <1>4

\* The quote of the model: a text two levels down.
LEMMA QuoteDeep ==
  ASSUME NEW v, NEW q, q = Node("quote", 0, <<Node("a", 0, Leaves("text", <<v>>))>>)
  PROVE  DeepText(q) = v
<1>1. PICK t : t = Node("text", v, <<>>)
  OBVIOUS
<1>2. PICK a : a = Node("a", 0, <<t>>)
  OBVIOUS
<1>3. q = Node("quote", 0, <<a>>)
  BY <1>1, <1>2, OneLeaf, Zenon
<1>4. /\ t.is = "text" /\ t.val = v
      /\ a.is = "a" /\ a.kids = <<t>>
      /\ q.is = "quote" /\ q.kids = <<a>>
  BY <1>1, <1>2, <1>3 DEF Node
<1>5. \A i : Deeper(q, i) = a /\ Deeper(a, i) = t /\ Deeper(t, i) = t
  BY <1>4 DEF Deeper
<1> DEFINE M == {q, a, t}
           Reached(n) == DeepOf(q, Positions(n))
           S == {n \in Nat : Reached(n) = IF n = 0 THEN q ELSE IF n = 1 THEN a ELSE t}
<1>6. q \in M /\ \A m \in M, i \in Nat : Deeper(m, i) \in M
  BY <1>5
<1>7. DeepOf(q, <<>>) = q
      /\ \A s \in Seq(Nat), i \in Nat : DeepOf(q, Append(s, i)) = Deeper(DeepOf(q, s), i)
  <2> HIDE DEF M
  <2> QED
    BY <1>6, DeepGrows
<1>8. Reached(0) = q
  BY <1>7, PositionsAll
<1>9. ASSUME NEW n \in Nat PROVE Reached(n + 1) = Deeper(Reached(n), n + 1)
  <2>1. PICK p \in Seq(Nat) : p = Positions(n)
    BY PositionsAll
  <2>2. n + 1 \in Nat /\ Positions(n + 1) = Append(p, n + 1)
    <3>1. Positions(n + 1) = Append(Positions(n), n + 1)
      BY PositionsAll
    <3> QED
      BY <2>1, <3>1
  <2>3. DeepOf(q, Append(p, n + 1)) = Deeper(DeepOf(q, p), n + 1)
    BY <1>7, <2>2
  <2> QED
    BY <2>1, <2>2, <2>3
<1> HIDE DEF Reached
<1>10. 0 \in S
  BY <1>8
<1>11. ASSUME NEW n \in Nat, n \in S PROVE n + 1 \in S
  BY <1>5, <1>9, <1>11
<1>12. MaxDepth \in S
  <2>1. MaxDepth \in Nat
    BY PagesAssumption
  <2> HIDE DEF S
  <2> QED
    BY <1>10, <1>11, <2>1, NatAll
<1>13. Reached(MaxDepth) = t
  BY <1>12, PagesAssumption
<1>14. DeepText(q) = IF Reached(MaxDepth).is = "text" THEN Reached(MaxDepth).val ELSE "hangs"
  BY Zenon DEF DeepText, Reached, DeepOf, Deeper
<1> QED
  BY <1>4, <1>13, <1>14

LEMMA ShortTexts ==
  /\ <<>> \in Seq(PostBytes) /\ <<Other>> \in Seq(PostBytes) /\ <<LF>> \in Seq(PostBytes)
  /\ <<Space>> \in Seq(PostBytes) /\ <<Other, Other>> \in Seq(PostBytes)
  /\ <<Other, Space>> \in Seq(PostBytes) /\ <<LF, LF, Other>> \in Seq(PostBytes)
BY DEF PostBytes

LEMMA PostConcat ==
  \A a, b \in Seq(PostBytes) : a \o b \in Seq(PostBytes)
BY ConcatProperties

LEMMA PieceTyped ==
  \A n \in PostNodes : Piece(n) \in Seq(PostBytes)
<1> SUFFICES ASSUME NEW n \in PostNodes PROVE Piece(n) \in Seq(PostBytes)
  OBVIOUS
<1>1. ASSUME NEW t \in Text, n = Node("text", t, <<>>) PROVE Piece(n) \in Seq(PostBytes)
  <2>1. n.is = "text" /\ n.val = t
    BY <1>1 DEF Node
  <2>2. Piece(n) = t
    BY <2>1 DEF Piece
  <2> QED
    BY <2>2, ShortTexts DEF Text
<1>2. CASE n = Node("br", 0, <<>>) \/ n = Node("div", 0, <<>>)
  <2>1. n.is \in {"br", "div"}
    BY <1>2 DEF Node
  <2>2. Piece(n) = <<LF>> \/ Piece(n) = <<>>
    BY <2>1 DEF Piece
  <2> QED
    BY <2>2, ShortTexts
<1>3. ASSUME NEW l \in [href : {<<>>, <<Other>>}, text : {<<>>, <<Other, Other>>}],
             n = Node("a", l, <<>>)
      PROVE  Piece(n) \in Seq(PostBytes)
  <2>1. n.is = "a" /\ n.val = l
    BY <1>3 DEF Node
  <2>2. PICK h \in Seq(PostBytes), t \in Seq(PostBytes) : l.href = h /\ l.text = t
    BY ShortTexts
  <2>3. \/ Piece(n) = t
        \/ Piece(n) = h
        \/ Piece(n) = <<Other>> \o t \o <<Other, Other>> \o h \o <<Other>>
    <3>1. PICK c : c = <<Other>> \o n.val.text \o <<Other, Other>> \o n.val.href \o <<Other>>
      OBVIOUS
    <3>2. Piece(n) \in {n.val.text, n.val.href, c}
      BY <2>1, <3>1 DEF Piece
    <3>3. n.val.text = t /\ n.val.href = h
      BY <2>1, <2>2
    <3> QED
      BY <3>1, <3>2, <3>3
  <2>4. <<Other>> \o t \o <<Other, Other>> \o h \o <<Other>> \in Seq(PostBytes)
    BY ShortTexts, PostConcat
  <2> QED
    BY <2>3, <2>4, ShortTexts
<1>4. ASSUME NEW t \in {<<>>, <<Other>>}, n = Node("strong", t, <<>>)
      PROVE  Piece(n) \in Seq(PostBytes)
  <2>1. n.is = "strong" /\ n.val = t
    BY <1>4 DEF Node
  <2>2. Piece(n) = <<>> \/ Piece(n) = <<Other>> \o t \o <<Other>>
    BY <2>1 DEF Piece
  <2>3. <<Other>> \o t \o <<Other>> \in Seq(PostBytes)
    BY ShortTexts, PostConcat
  <2> QED
    BY <2>2, <2>3, ShortTexts
<1>5. ASSUME NEW u \in {<<>>, << <<Other>> >>}, n = Node("p", 0, Leaves("img", u))
      PROVE  Piece(n) \in Seq(PostBytes)
  <2>1. n.is = "p" /\ n.kids = Leaves("img", u)
    BY <1>5 DEF Node
  <2>2. PICK j : j = Joined(Vals(Leaves("img", u)))
    OBVIOUS
  <2>3. \/ Piece(n) = <<LF>> \o <<>>
        \/ n.kids # <<>> /\ Piece(n) = <<LF>> \o (j \o <<LF>>)
    BY <2>1, <2>2 DEF Piece
  <2>4. n.kids # <<>> => j = <<Other>>
    <3>1. CASE u = <<>>
      <4>1. n.kids = <<>>
        BY <2>1, <3>1 DEF Leaves
      <4> QED
        BY <4>1
    <3>2. CASE u = << <<Other>> >>
      <4>1. PICK v \in Seq(PostBytes) : v = <<Other>>
        BY ShortTexts
      <4>2. Vals(Leaves("img", u)) = <<v>>
        BY <3>2, <4>1, OneLeaf
      <4> QED
        BY <2>2, <4>1, <4>2, JoinedOne
    <3> QED
      BY <3>1, <3>2
  <2>5. <<LF>> \o <<>> \in Seq(PostBytes) /\ <<LF>> \o (<<Other>> \o <<LF>>) \in Seq(PostBytes)
    BY ShortTexts, PostConcat
  <2> QED
    BY <2>3, <2>4, <2>5
<1>6. CASE n = Node("quote", 0, <<Node("a", 0, Leaves("text", << <<Other>> >>))>>)
  <2>1. n.is = "quote"
    BY <1>6 DEF Node
  <2>2. PICK v : v = <<Other>>
    OBVIOUS
  <2>3. DeepText(n) = v
    BY <1>6, <2>2, QuoteDeep
  <2>4. Piece(n) = v \o <<Other, Space>>
    BY <2>1, <2>3 DEF Piece
  <2> QED
    BY <2>2, <2>4, ShortTexts, PostConcat
<1> QED
  BY <1>1, <1>2, <1>3, <1>4, <1>5, <1>6 DEF PostNodes

LEMMA RawTyped ==
  ASSUME NEW nodes \in Seq(PostNodes)
  PROVE  Raw(nodes) \in Seq(PostBytes)
<1>1. PICK E : E = Seq(PostBytes)
  OBVIOUS
<1>2. Len(nodes) \in Nat /\ DOMAIN nodes = 1..Len(nodes)
      /\ \A i \in 1..Len(nodes) : nodes[i] \in PostNodes
  OBVIOUS
<1>3. \A i \in 1..Len(nodes) : Piece(nodes[i]) \in E
  BY <1>1, <1>2, PieceTyped
<1>4. PICK ps \in Seq(E) : ps = [i \in DOMAIN nodes |-> Piece(nodes[i])]
  <2>1. [i \in 1..Len(nodes) |-> Piece(nodes[i])] \in Seq(E)
    BY <1>2, <1>3
  <2> QED
    BY <1>2, <2>1
<1> QED
  BY <1>1, <1>4, JoinedGrows DEF Raw

LEMMA Alone == \A x : <<x>> \in Seq({x})
OBVIOUS

\* The page of a private message gives the post that is in it.
LEMMA MessageParsed ==
  ASSUME NEW nodes
  PROVE  parseMessage(MessagePage(nodes)) = NormalizePost(nodes)
<1>1. PICK author : author = Node("author", 1, <<>>)
  OBVIOUS
<1>2. PICK post : post = Node("body", nodes, <<>>)
  OBVIOUS
<1>3. PICK one : one = Node("row", 0, <<author, post>>)
  OBVIOUS
<1>4. PICK two : two = Node("row", 0, <<Node("body", <<>>, <<>>)>>)
  OBVIOUS
<1>5. PICK table : table = Node("table", 0, <<one, two>>)
  OBVIOUS
<1>6. PICK doc : doc = MessagePage(nodes)
  OBVIOUS
<1>7. <<doc>> = In("body", Wide(In("thread", In("table", <<one, two>>))))
  BY <1>1, <1>2, <1>3, <1>4, <1>6, Zenon DEF MessagePage, Body, In
<1>8. Content(<<doc>>) = In("content", In("thread", In("table", <<one, two>>)))
  BY <1>7, ContentIn
<1>9. Below(Content(<<doc>>), "thread") = In("thread", In("table", <<one, two>>))
  BY <1>8, BelowIn
<1>10. Below(Below(Content(<<doc>>), "thread"), "table") = <<table>>
  BY <1>5, <1>9, BelowIn DEF In
<1>11. First(Kids(table, "row")) = <<one>>
  <2>1. table.kids = <<one, two>> /\ one.is = "row" /\ two.is = "row"
    BY <1>3, <1>4, <1>5 DEF Node
  <2>2. Kids(table, "row") = <<one, two>>
    BY <2>1, KidsOfTwo
  <2>3. <<one, two>> # <<>> /\ Head(<<one, two>>) = one
    OBVIOUS
  <2> QED
    BY <2>2, <2>3 DEF First
<1>12. Joined([i \in DOMAIN <<table>> |-> First(Kids(<<table>>[i], "row"))]) = <<one>>
  <2>1. PICK v \in Seq({one}) : v = <<one>>
    BY Alone
  <2>2. [i \in DOMAIN <<table>> |-> First(Kids(<<table>>[i], "row"))] = <<v>>
    BY <1>11, <2>1
  <2> QED
    BY <2>1, <2>2, JoinedOne
<1>13. Vals(Below(<<one>>, "body")) = <<nodes>>
  <2>1. one.kids = <<author, post>> /\ author.is = "author" /\ post.is = "body"
        /\ post.val = nodes
    BY <1>1, <1>2, <1>3 DEF Node
  <2>2. Kids(one, "body") = <<post>> /\ <<post>> \in Seq({post})
    BY <2>1, KidsOfTwo
  <2>3. Below(<<one>>, "body") = <<post>>
    BY <2>2, BelowOne
  <2> QED
    BY <2>1, <2>3 DEF Vals
<1>14. <<nodes>> # <<>> /\ Last(<<nodes>>) = nodes
  BY DEF Last
<1>15. parseMessage(doc) =
         LET bodies == Vals(Below(<<one>>, "body"))
         IN IF bodies = <<>> THEN <<>> ELSE NormalizePost(Last(bodies))
  BY <1>10, <1>12, Zenon DEF parseMessage
<1> QED
  BY <1>6, <1>13, <1>14, <1>15

\* NormalizePost leaves no blank line in a post of any length and changes no word
\* and no line of it, and parsePrivateMessageID gives what it makes of the post
\* in the page.
THEOREM PostsNormalize == PagesSpec => []PostNormalized
<1>1. PagesTypeOK => PostNormalized
  <2> SUFFICES ASSUME PagesTypeOK, kind = "post"
               PROVE  /\ ~HasBlankLine(NormalizePost(shown))
                      /\ TextLines(NormalizePost(shown)) = TextLines(Raw(shown))
                      /\ parseMessage(MessagePage(shown)) = NormalizePost(shown)
    BY DEF PostNormalized
  <2>1. shown \in Seq(PostNodes)
    BY DEF PagesTypeOK, Rows
  <2>2. PICK t \in Seq(PostBytes) : t = Raw(shown)
    BY <2>1, RawTyped
  <2>3. NormalizePost(shown) = Unblank(t)
    BY <2>2 DEF NormalizePost
  <2> QED
    BY <2>2, <2>3, UnblankIs, MessageParsed
<1> QED
  BY <1>1, PagesTyped, PTL
=============================================================================
