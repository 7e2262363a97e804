----------------------------- MODULE TextBytes -----------------------------
(***************************************************************************)
(* The classes of bytes that the code tells apart in what it is sent by    *)
(* clients and by the site.                                                *)
(***************************************************************************)
EXTENDS FiniteSets, Naturals, Sequences

CONSTANTS CR, LF, Space, Colon, Other

Bytes == {CR, LF, Space, Colon, Other}

ASSUME BytesAssumption == Cardinality(Bytes) = 5

\* FoldLeft by recursion on the index, which TLC evaluates much faster.
Run(Op(_, _), base, s) ==
    LET f[i \in 0..Len(s)] == IF i = 0 THEN base ELSE Op(f[i - 1], s[i])
    IN f[Len(s)]

\* The positions of a text, for a pass that looks around itself.
Positions(n) == [i \in 1..n |-> i]
=============================================================================
