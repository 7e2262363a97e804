---------------------------- MODULE UnreadPages ----------------------------
(***************************************************************************)
(* How the posts of a thread come from the site to its poller:             *)
(* ParseUnreadPosts asks for the page of the first unread post and walks   *)
(* from there to the last page, while the site counts every page it serves *)
(* as read and goes on receiving posts.  Posts are numbered in the order   *)
(* in which they are posted.                                               *)
(***************************************************************************)
EXTENDS Integers, Sequences, SequencesExt

CONSTANTS
    PostsPerPage,   \* posts on a page of the thread
    MaxPosts,       \* bound: the posts of the thread
    MaxUnreadFaults \* bound: the requests that go wrong

ASSUME UnreadAssumption ==
    PostsPerPage \in Nat \ {0} /\ MaxPosts \in Nat /\ MaxUnreadFaults \in Nat

VARIABLES
    \* the site
    count,   \* posts of the thread
    marker,  \* posts it counts as read by the bridge's account
    \* the poller
    upc,     \* where it is
    page,    \* next page of the walk
    total,   \* Posts.TotalPages
    batch,   \* Posts.Posts
    taken,   \* thread.posts, the posts that were taken in
    \* history
    start,   \* the marker when the bridge started
    dropped, \* posts that the walk had in hand when a later request failed
    lost,    \* posts of pages whose response was lost
    unread,  \* posts that a page that was served did not parse to
    astray,  \* a walk went back to the first page of the thread
    faults   \* requests that went wrong

siteVars == <<count, marker>>
walkVars == <<upc, page, total, batch>>
missing  == <<dropped, lost, unread>>
unreadVars == <<siteVars, walkVars, taken, start, missing, astray, faults>>

PageOf(p) == (p - 1) \div PostsPerPage + 1
LastPage == IF count = 0 THEN 1 ELSE PageOf(count)
PostsOn(k) ==
    LET before == (k - 1) * PostsPerPage
    IN [i \in 1..(IF before + PostsPerPage <= count THEN PostsPerPage
                  ELSE count - before) |-> before + i]
Served == ToSet(batch)

\* goto=newpost: the page of the first unread post, or else the last page.
UnreadPage == IF marker < count THEN PageOf(marker + 1) ELSE LastPage

UnreadInit ==
    /\ count \in 0..MaxPosts /\ marker \in 0..count /\ start = marker
    /\ upc = "first" /\ page = 0 /\ total = 0 /\ batch = <<>> /\ taken = <<>>
    /\ dropped = {} /\ lost = {} /\ unread = {} /\ astray = FALSE /\ faults = 0

SomebodyPosts ==
    /\ count < MaxPosts /\ count' = count + 1
    /\ UNCHANGED <<marker, walkVars, taken, start, missing, astray, faults>>
-----------------------------------------------------------------------------
(* One request.  The site moves the marker when it serves a page, whether   *)
(* or not the response arrives.                                             *)
MarkRead(k) ==
    marker' = IF PostsOn(k) = <<>> THEN marker
              ELSE IF Last(PostsOn(k)) > marker THEN Last(PostsOn(k)) ELSE marker
GoesWrong == faults < MaxUnreadFaults /\ faults' = faults + 1
Requests(k) == \* k: the page the request is for; page 0 is the first
    \/ upc = "first" /\ k = UnreadPage
    \/ upc = "walk" /\ page <= total /\ k = IF page = 0 THEN 1 ELSE page

\* A page parses to posts, and the first one to its number and, as all do, to
\* the number of pages, which are -1 unless the breadcrumbs have them.
Parses(posts, current, all) ==
    /\ batch' = batch \o posts
    /\ page' = (IF upc = "first" THEN current ELSE page) + 1
    /\ total' = all /\ upc' = "walk"
    /\ astray' = (astray \/ (page' = 0 /\ all # -1))
    /\ UNCHANGED <<count, taken, start, dropped, lost>>

\* Mutants: the walk leaves a page out; it keeps the first page alone.
PageArrivesSkips(k) ==
    /\ Requests(k) /\ MarkRead(k)
    /\ Parses(PostsOn(k), k + 1, LastPage) /\ UNCHANGED <<unread, faults>>
PageArrivesFirst(k) ==
    /\ Requests(k) /\ MarkRead(k)
    /\ Parses(IF upc = "first" THEN PostsOn(k) ELSE <<>>, k, LastPage)
    /\ UNCHANGED <<unread, faults>>

PageArrives(k) ==
    /\ Requests(k) /\ MarkRead(k)
    /\ Parses(PostsOn(k), k, LastPage) /\ UNCHANGED <<unread, faults>>

\* Posts without an author, a body or an id are left out, and breadcrumbs
\* without a number leave it at -1; neither is an error.
SomeOf(posts) ==
    {some \in UNION {[1..n -> ToSet(posts)] : n \in 0..Len(posts)} :
        \A i, j \in DOMAIN some : i < j => some[i] < some[j]}
DamagedPageArrives(k) ==
    /\ Requests(k) /\ MarkRead(k) /\ GoesWrong
    /\ \E posts \in SomeOf(PostsOn(k)), current \in {k, -1}, all \in {LastPage, -1} :
          /\ Parses(posts, current, all)
          /\ unread' = unread \cup (ToSet(PostsOn(k)) \ ToSet(posts))

\* A page that is no thread page (the status is not looked at) parses to no
\* posts and to page -1 of -1: that ends the walk, and it is no error.
BadPageArrives(k) ==
    /\ Requests(k) /\ GoesWrong
    /\ Parses(<<>>, -1, -1) /\ UNCHANGED <<marker, unread>>

\* An error, before the site was reached or after it answered: the posts of
\* the pages before are returned with it, and the poller drops them.
RequestFails(k) ==
    /\ Requests(k) /\ GoesWrong
    /\ dropped' = dropped \cup Served
    /\ \/ UNCHANGED <<marker, lost>>
       \/ MarkRead(k) /\ lost' = lost \cup ToSet(PostsOn(k))
    /\ upc' = "sleep" /\ batch' = <<>> /\ page' = 0 /\ total' = 0
    /\ UNCHANGED <<count, taken, start, unread, astray>>

\* The walk is over; its posts are looked at one by one.
NextPost ==
    /\ upc = "walk" /\ page > total
    /\ batch # <<>> /\ batch' = Tail(batch)
    /\ UNCHANGED <<siteVars, upc, page, total, start, missing, astray, faults>>

TakePost ==
    /\ NextPost
    /\ taken' = IF Head(batch) \in ToSet(taken) THEN taken
                ELSE Append(taken, Head(batch))

TakenIn ==
    /\ upc = "walk" /\ page > total /\ batch = <<>>
    /\ upc' = "sleep" /\ page' = 0 /\ total' = 0
    /\ UNCHANGED <<siteVars, batch, taken, start, missing, astray, faults>>

PollAgain ==
    /\ upc = "sleep" /\ upc' = "first"
    /\ UNCHANGED <<siteVars, page, total, batch, taken, start, missing, astray, faults>>

UnreadStep ==
    (\E k \in 1..LastPage : PageArrives(k)) \/ TakePost \/ TakenIn \/ PollAgain
UnreadNext ==
    \/ SomebodyPosts \/ UnreadStep
    \/ \E k \in 1..LastPage :
          DamagedPageArrives(k) \/ BadPageArrives(k) \/ RequestFails(k)

UnreadSpec == UnreadInit /\ [][UnreadNext]_unreadVars

(* Fairness: the poller's goroutine runs, and the site answers in the end;  *)
(* how often it does not is bounded by MaxUnreadFaults.                     *)
UnreadFairness == WF_unreadVars(UnreadStep)
-----------------------------------------------------------------------------
\* The backlog has each post once, and the posts in the order in which they were
\* posted, although walks overlap, fail half-way and run while posts arrive; a post
\* may follow later ones if it could not be read when it was first served, and any
\* may once a walk went back to the first page.
TakenInOrder ==
    \A i, j \in 1..Len(taken) :
        i < j => /\ taken[i] # taken[j]
                 /\ taken[i] > taken[j] => taken[j] \in unread \/ astray

\* What the site counts as read since the bridge started has been taken in or is
\* in the hands of the walk, unless the walk was not given it (it could not be read
\* on its page, or the response was lost) or dropped it when a later request
\* failed: the walk itself skips nothing.
OnlyFailuresLose ==
    (start + 1)..marker \subseteq Served \cup ToSet(taken) \cup dropped \cup lost \cup unread

\* The backlog has no gaps that a failed request or a damaged page does not explain.
NothingSkipped == TakenInOrder /\ OnlyFailuresLose

\* A post reaches the backlog unless a request of the walk that was served it
\* failed, it could not be read, or it had been read before the bridge started.
EveryPostTaken ==
    \A p \in 1..MaxPosts :
        p = count /\ p > marker ~> p \in ToSet(taken) \cup dropped \cup lost \cup unread

\* "Connection was interrupted; try again later": what a walk had in hand and
\* dropped when its next request failed is taken in by a later walk.
TriedAgain == \A p \in 1..MaxPosts : p \in dropped ~> p \in ToSet(taken)
=============================================================================
