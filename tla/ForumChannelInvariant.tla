------------------------ MODULE ForumChannelInvariant ------------------------
(* The inductive invariant behind the safety properties of ForumChannel.   *)
(* What a subscriber was not told, the poller owes it, which has the line  *)
(* in hand or before it, or its own JOIN, which has yet to get there.      *)
EXTENDS ForumChannel

Replaying == {"join", "names", "show", "name", "shown"}

\* The lock is held by the receive loop that is between the Lock and the
\* Unlock of JOIN, and by no other.
LockHeld == \A c \in Conns : cpc[c] \in Replaying <=> flock = c

\* The forum's side of the mapping follows the connection's, and nobody
\* subscribes before there is a listener.
Membership ==
    /\ ~listening => subscribers = {}
    /\ \A c \in Conns :
          /\ c \in subscribers <=> mine[c] /\ cpc[c] # "subscribe"
          /\ cpc[c] = "listen" => ~mine[c]
          /\ cpc[c] \in Replaying \cup {"subscribe"} => mine[c] /\ listening

\* What the poller and the replays have in hand.
InHand ==
    /\ ppc # "absorb" => batch = {}
    /\ ppc # "send" => must = {}
    /\ ppc \in {"fetch", "sleep"} => joined = {} /\ news = {}
    /\ ppc = "send" => cur \in (Authors \X {0}) \cup (Threads \X Posts)
    /\ must \subseteq subscribers
    /\ \A c \in Conns :
          /\ cpc[c] \in {"name", "shown"} => held[c] \in Threads \X Posts
          /\ \A t \in toShow[c] : known[t] # 0

\* Nothing runs ahead of what the forum knows, nor that ahead of the site; a
\* poll has one row for a thread.
Bounded ==
    /\ \A t \in Threads : updated[t] <= now /\ known[t] <= updated[t]
    /\ \A r \in batch : known[r[1]] <= r[2] /\ r[2] <= updated[r[1]]
    /\ \A r, s \in batch : r[1] = s[1] => r = s
    /\ \A u \in news : u[2] <= known[u[1]]
    /\ ppc = "send" /\ cur[2] # 0 => cur[2] <= known[cur[1]]
    /\ \A c \in Conns :
          /\ cpc[c] \in {"name", "shown"} => held[c][2] <= known[held[c][1]]
          /\ \A t \in Threads : best[c][t] <= known[t]

\* A line tells of a thread as late as the forum knows it.
UpToDate(line, t) == line[1] = t /\ Minute(line[2]) = Minute(known[t])

PollerOwesUpdate(c, t) == ppc = "send" /\ c \in must /\ UpToDate(cur, t)
JoinOwesUpdate(c, t) ==
    \/ cpc[c] \in {"join", "names"}
    \/ cpc[c] \in Replaying /\ t \in toShow[c]
    \/ cpc[c] \in {"name", "shown"} /\ UpToDate(held[c], t)
UpdateDue(c, t) ==
    \/ Minute(best[c][t]) = Minute(known[t])
    \/ \E u \in news : UpToDate(u, t)
    \/ PollerOwesUpdate(c, t) \/ JoinOwesUpdate(c, t)
UpdatesOwed == \A c \in subscribers : \A t \in Threads : UpdateDue(c, t)

PollerOwesAuthor(c, a) == ppc = "send" /\ c \in must /\ cur = <<a, 0>>
JoinOwesAuthor(c, a) ==
    \/ cpc[c] = "join"
    \/ cpc[c] = "names" /\ a \in toName[c]
AuthorDue(c, a) ==
    \/ a \in announced[c]
    \/ a \in joined \/ PollerOwesAuthor(c, a) \/ JoinOwesAuthor(c, a)
AuthorsOwed == \A c \in subscribers : \A a \in authors : AuthorDue(c, a)

\* The inductive invariant of the mapping and of what is owed.
IInv ==
    /\ TypeOK /\ LockHeld /\ Membership /\ InHand /\ Bounded
    /\ UpdatesOwed /\ AuthorsOwed
-----------------------------------------------------------------------------
(* The order of the updates that the poller tells.                          *)

\* No thread of the page was overtaken: if the poller took in or is taking in a
\* post as late as that of a thread that is on the page now, then it fetched
\* that thread, too, or did not get its row.
Caught(t) ==
    known[t] = updated[t] \/ <<t, updated[t]>> \in batch \cup skipped
TakenPosts == {known[s] : s \in Threads} \cup {r[2] : r \in batch}
NoneOvertaken ==
    \A t \in Page : \A post \in TakenPosts : updated[t] <= post => Caught(t)

\* What is still to be told is as late as all that was told, or was skipped.
Follows(line, post) == Minute(post) <= Minute(line[2]) \/ line \in skipped
TellsForward ==
    \A c \in Conns :
       /\ latest[c] = 0 \/ \E t \in Threads : latest[c] <= known[t]
       /\ \A r \in batch : Moved(r) => Follows(r, latest[c])
       /\ \A u \in news : Follows(u, latest[c])
       /\ ppc = "send" /\ cur[2] # 0 => Follows(cur, latest[c])
NewsAfterLine == ppc = "send" => \A u \in news : Minute(cur[2]) <= Minute(u[2])

OInv == NoneOvertaken /\ TellsForward /\ NewsAfterLine
=============================================================================
