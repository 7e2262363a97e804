-------------------------- MODULE MCForumChannel --------------------------
(* Instances of ForumChannel for TLC.                                       *)
EXTENDS ForumChannelInvariant

CONSTANTS c1, c2  \* connections

\* The second post in a minute of its own, the third in the same as the second.
OneAuthor == [p \in Posts |-> "ann"]
Late == [p \in Posts |-> IF p = 1 THEN 1 ELSE 2]

\* Bound: with the third post at most one of the JOINs.
FewJoins == now = 3 => joins <= 1
=============================================================================
