------------------------- MODULE MCPrivateMessages -------------------------
(* Instances of PrivateMessages for TLC.                                    *)
EXTENDS PrivateMessagesInvariant, TLC

CONSTANTS c1, c2  \* connections

ConnSymmetry == Permutations(Conns)

\* The first two messages are by ann, the others by bob.
TwoSenders == [p \in Pms |-> IF p <= 2 THEN "ann" ELSE "bob"]
=============================================================================
