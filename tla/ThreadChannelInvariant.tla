----------------------- MODULE ThreadChannelInvariant -----------------------
(* The inductive invariant behind the safety properties of ThreadChannel.  *)
(* Whatever a subscribed client has not been told, somebody still owes it: *)
(* the poller, which has not finished mirroring, or the client's own JOIN, *)
(* which has not finished replaying.                                       *)
EXTENDS ThreadChannel

\* The lock is held exactly by the receive loop that is between the Lock and
\* the Unlock of JOIN or WHO.
LockHeld == \A c \in Conns : cpc[c] \in InJoin \cup InWho <=> lock = c

\* The channel's side of the mapping follows the connection's.
Membership ==
    \A c \in Conns :
       /\ c \in subscribers <=> mine[c] /\ cpc[c] # "lock"
       /\ cpc[c] = "listen" => ~mine[c]
       /\ cpc[c] = "lock" => mine[c]
       /\ cpc[c] = "part" => mine[c]

\* Before the first JOIN starts the poller the channel is empty; afterwards,
\* where the poller is in the slice of posts, and how far a replay may go.
Indices ==
    /\ ppc = "off" <=> ~listening
    /\ ppc = "off" => posts = <<>>
    /\ at <= Len(posts) + 1
    /\ ppc = "mirrorIter" => at <= Len(posts)
    /\ ppc \in {"off", "fetch", "backoff", "sleep"} => at > Len(posts)
    /\ \A c \in Conns : rlim[c] <= Len(posts)
    /\ ppc = "joinIter" => cur # None
    /\ ppc = "append" => batch # <<>>

\* The backlog is the taken-in posts, once each; the poller is between marking
\* a post as seen and appending it only at "append".
TakenIn1 ==
    /\ TakenInOnce
    /\ \A i \in 1..Len(posts) : posts[i] \in seen
    /\ ppc = "append" =>
          /\ Head(batch) \in seen
          /\ \A i \in 1..Len(posts) : posts[i] # Head(batch)

PollerOwesPost(c, i) ==
    \/ i > at
    \/ i = at /\ (ppc = "mirrorIter" => c \in left \/ target = c)
JoinOwesPost(c, i) ==
    \/ cpc[c] \in {"self", "topic", "names", "endnames"}
    \/ cpc[c] = "replay" /\ rnext[c] <= i /\ i <= rlim[c]
PostDue(c, i) ==
    copies[c][posts[i]] > 0 \/ PollerOwesPost(c, i) \/ JoinOwesPost(c, i)
PostsOwed ==
    \A c \in subscribers : ~cancelled[c] => \A i \in 1..Len(posts) : PostDue(c, i)

PollerOwesAuthor(c, a) ==
    \/ a \in joined
    \/ ppc = "joinIter" /\ cur = a /\ (c \in left \/ target = c)
JoinOwesAuthor(c, a) ==
    \/ cpc[c] \in {"self", "topic"}
    \/ cpc[c] = "names" /\ a \in must[c] \ named[c]
AuthorDue(c, a) ==
    a \in announced[c] \/ PollerOwesAuthor(c, a) \/ JoinOwesAuthor(c, a)
AuthorsOwed ==
    \A c \in subscribers : ~cancelled[c] => \A a \in authors : AuthorDue(c, a)
AuthorsKnown ==
    /\ \A i \in 1..Len(posts) : AuthorOf[posts[i]] \in authors
    /\ ppc = "append" => AuthorOf[Head(batch)] \in authors
    /\ ppc \in {"off", "fetch", "backoff", "mirror", "mirrorIter", "sleep"} =>
          joined = {}

\* The inductive invariant.
IInv ==
    /\ TypeOK /\ LockHeld /\ Membership /\ Indices
    /\ TakenIn1 /\ PostsOwed /\ AuthorsKnown /\ AuthorsOwed
-----------------------------------------------------------------------------
(* How many copies of a post are still to come: one from the replay of the  *)
(* JOIN, one from the poller that has the connection in hand, and one from  *)
(* the visit, of this range loop or a later one, that is still ahead.       *)
One(owed) == IF owed THEN 1 ELSE 0
InHand(c, i) == ppc = "mirrorIter" /\ at = i /\ target = c
VisitAhead(c, i) ==
    \/ i > at
    \/ i = at /\ (ppc = "mirrorIter" => c \in left \cup fresh)
ToCome(c, i) == One(JoinOwesPost(c, i)) + One(InHand(c, i)) + One(VisitAhead(c, i))

\* A JOIN that has subscribed has not sent the line yet that opens the window.
CopiesBounded ==
    /\ ppc \notin Looping => target = None
    /\ \A c \in Conns : ~cancelled[c] =>
          \A p \in Posts \ PostSet : copies[c][p] = 0
    /\ \A c \in Conns : ~cancelled[c] /\ cpc[c] # "self" =>
          \A i \in 1..Len(posts) : copies[c][posts[i]] + ToCome(c, i) <= 3
=============================================================================
