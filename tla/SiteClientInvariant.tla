------------------------ MODULE SiteClientInvariant ------------------------
(* What the parts of the site client keep from step to step.                *)
EXTENDS UnreadPages, BookmarkPages, LimitedHttp

(* The walk over the unread posts.                                          *)
UnreadTypes ==
    /\ count \in Nat /\ marker \in 0..count /\ start \in Nat
    /\ upc \in {"first", "walk", "sleep"} /\ page \in Nat /\ total \in Int
    /\ batch \in Seq(Nat) /\ taken \in Seq(Nat) /\ astray \in BOOLEAN
    /\ \A p \in Served \cup ToSet(taken) : p \in 1..marker

\* A walk that goes on has had the site serve the pages before, to their ends.
Reached ==
    /\ upc # "walk" => batch = <<>>
    /\ upc = "walk" /\ page <= total =>
          total <= LastPage /\ (page - 1) * PostsPerPage <= marker

\* The batch is in order, and it and the backlog are of earlier pages than those
\* that the walk goes on to.
InTurn ==
    /\ \A i, j \in 1..Len(batch) : i < j => batch[i] < batch[j]
    /\ upc = "walk" /\ page <= total =>
          page # 0 /\ \A p \in Served \cup ToSet(taken) : PageOf(p) < page

EarlierOnPage(p) == {q \in 1..(p - 1) : PageOf(q) = PageOf(p)}

\* A page is served from its first post: nobody has a post without the earlier
\* ones of its page, but for those that could not be read.
PagesWhole ==
    /\ \A p \in ToSet(taken) : EarlierOnPage(p) \subseteq ToSet(taken) \cup unread
    /\ \A p \in Served : EarlierOnPage(p) \subseteq Served \cup ToSet(taken) \cup unread

\* What is new to the backlog is later than all of it, or could not be read.
NewIsLater ==
    \A p \in Served, q \in ToSet(taken) : p \in ToSet(taken) \cup unread \/ q < p

\* The inductive invariant of the walk.
UnreadInv ==
    /\ UnreadTypes /\ Reached /\ NothingSkipped
    /\ ~astray => InTurn /\ PagesWhole /\ NewIsLater
-----------------------------------------------------------------------------
(* The walk over the bookmarks.                                             *)
BookmarkTypes ==
    /\ list \in [1..Cardinality(Bookmarks) -> Bookmarks]
    /\ \A t \in Bookmarks : \E i \in DOMAIN list : list[i] = t
    /\ wpc \in {"walk", "recent"} /\ next \in Nat /\ pages \in Int

\* A walk without an error has found, or has an excuse for, every thread above
\* the next page, and goes on to the last page unless it lacks no thread.
WalkCovers ==
    wpc = "walk" /\ ~failed =>
        /\ \A i \in DOMAIN list : list[i] \in threads \cup excused \/ next <= ListPage(i)
        /\ \/ pages = LastListPage
           \/ next = 1 /\ pages = 1
           \/ Bookmarks \subseteq threads \cup excused

\* The inductive invariant of the walk.
BookmarkInv == BookmarkTypes /\ WalkCovers /\ QuietThreadsFound
-----------------------------------------------------------------------------
(* The limiter.                                                             *)
LimiterTypes ==
    /\ tokens \in Int /\ tokens <= Burst
    /\ waiting \subseteq Callers /\ due \in [Callers -> Int]
    /\ left \in Nat /\ level \in Nat

\* The callers whose timers are due in x periods or later, and in x to y.
AtLeast(x) == {c \in waiting : due[c] >= x}
Between(x, y) == {c \in waiting : x <= due[c] /\ due[c] <= y}

\* Nobody waits past the last reservation, and what is reserved ahead is
\* reserved one by one.
Slots ==
    /\ \A c \in waiting : due[c] >= -Late /\ (due[c] <= 0 \/ due[c] <= -tokens)
    /\ \A c, d \in waiting : due[c] = due[d] /\ c # d => due[c] <= 0

\* As many timers are due between two periods as there are periods and a burst,
\* and fewer by the tokens that are left if it is up to the last.
Spread(X) ==
    /\ \A x \in X : x <= 0 \/ x <= -tokens =>
          Cardinality(AtLeast(x)) <= Burst - tokens - x
    /\ \A x, y \in X : x <= y => Cardinality(Between(x, y)) <= Burst + y - x

\* What was sent and what will be, by any time, keeps to the rate.
Rated(X) ==
    /\ level + Cardinality(waiting) <= Burst - tokens + Late
    /\ \A y \in X : y >= 0 =>
          level + Cardinality(Between(-Late, y)) <= Burst + Late + y

\* Each period that is reserved ahead has a caller that waits for it or gave up.
Reserved == -tokens <= Cardinality(AtLeast(1)) + left

\* The inductive invariant of the limiter, over the periods of X.
LimiterInvOver(X) == LimiterTypes /\ Slots /\ Spread(X) /\ Rated(X) /\ Reserved
LimiterInv == LimiterInvOver(Int)
=============================================================================
