-------------------------- MODULE MCThreadChannel --------------------------
(* Instances of ThreadChannel small enough for TLC.  Posts are numbered in  *)
(* the order the site lists them; post 1 is by ann, post 2 by bob.          *)
EXTENDS ThreadChannelInvariant

CONSTANTS c1, c2  \* connections

TwoAuthors == [p \in Posts |-> IF p = 1 THEN "ann" ELSE "bob"]
OneAuthor  == [p \in Posts |-> "ann"]

\* A poll sees nothing new, the first post, both, or (the page after) the second.
Polls == {b \in {<<>>, <<1>>, <<1, 2>>, <<2>>} : b \in Seq(Posts)}
\* "The goroutine periodically polls the thread and dispatches updates to
\* connected clients": a post that was taken in reaches a subscribed connection,
\* whatever the other one does.  The two are alike, so one says it all.
EveryPostArrives == EveryPostArrivesAt(c1)
=============================================================================
