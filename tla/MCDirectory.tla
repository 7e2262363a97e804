---------------------------- MODULE MCDirectory ----------------------------
(* Instances of Directory for TLC.                                          *)
EXTENDS DirectoryInvariant, TLC

CONSTANT c1  \* a connection

Digits == [d \in 0..Cardinality(Threads) |-> ToString(d)]

\* The words that cleaning leaves of some titles.
Cleaned == [t \in Titles |->
    CASE t = "Foo"     -> <<"foo">>
      [] t = "A foo 0" -> <<"a", "foo", "0">>
      [] t = "LC"      -> <<"lc">>
      [] t = "!!!"     -> <<"">>]

\* The first row is titled like the leper's colony; its hint is the first word
\* of other titles.
HintTaken == <<[id |-> 1, title |-> "LC", words |-> <<"foo">>]>>
\* Lists of one row; the third thread has two of the titles.
SingleRows == {<<r>> : r \in {q \in Rows : q.id = 3 => q.title \in {"A foo 0", "LC"}}}

ASSUME HintsAssumption == HintsDistinct
=============================================================================
