--------------------------- MODULE BookmarkPages ---------------------------
(***************************************************************************)
(* How the bookmarked threads come from the site to the server:            *)
(* repeatUpdatingThreads has ParseAllBookmarks walk all pages of the list  *)
(* until one walk succeeds, and from then on asks for its first page only. *)
(* The site sorts the list by last post: every post moves its thread to    *)
(* the front, also between two requests of a walk.                         *)
(***************************************************************************)
EXTENDS Integers, Sequences, SequencesExt

CONSTANTS
    Bookmarks,         \* the bookmarked threads
    ThreadsPerPage,    \* rows on a page of the list (40 in the code)
    MaxBumps,          \* bound: the posts in bookmarked threads
    MaxBookmarkFaults  \* bound: the requests that go wrong

ASSUME BookmarkAssumption ==
    IsFiniteSet(Bookmarks) /\ ThreadsPerPage \in Nat \ {0}
    /\ MaxBumps \in Nat /\ MaxBookmarkFaults \in Nat

VARIABLES
    \* the site
    list,     \* the bookmarks, latest post first
    bumps,    \* posts so far
    \* the updater
    wpc,      \* where it is: in the walk or done with it
    next, pages, \* page and totalPages of ParseAllBookmarks
    threads,  \* threads found so far
    failed,   \* errs has an error
    known,    \* threads that have a channel
    \* history
    excused,  \* threads that were bumped during the walk, or are rows of it
              \* that were left out without an error
    misses    \* requests that went wrong

bookmarkVars ==
    <<list, bumps, wpc, next, pages, threads, failed, known, excused, misses>>
updater == <<wpc, next, pages, threads, failed, known>>

ListPage(i) == (i - 1) \div ThreadsPerPage + 1 \* where row i of the list is
LastListPage == ListPage(Len(list))
Rows(k) == {list[i] : i \in {j \in DOMAIN list : ListPage(j) = k}} \* of page k

BookmarkInit ==
    /\ list = SetToSeq(Bookmarks) /\ bumps = 0
    /\ wpc = "walk" /\ next = 1 /\ pages = 1 /\ threads = {} /\ failed = FALSE
    /\ known = {} /\ excused = {} /\ misses = 0

\* Somebody posts in a bookmarked thread.
Bump(t) ==
    /\ bumps < MaxBumps /\ bumps' = bumps + 1
    /\ \E at \in DOMAIN list :
          /\ list[at] = t
          /\ list' = [i \in DOMAIN list |-> IF i = 1 THEN t
                                            ELSE IF i <= at THEN list[i - 1]
                                            ELSE list[i]]
    /\ excused' = IF wpc = "walk" THEN excused \cup {t} ELSE excused
    /\ UNCHANGED <<updater, misses>>
-----------------------------------------------------------------------------
(* ParseAllBookmarks: a request for page "next" of the list.                *)
Walking == wpc = "walk" /\ next <= pages
GoesMissing == misses < MaxBookmarkFaults /\ misses' = misses + 1
Found(rows, total, err) ==
    /\ threads' = threads \cup rows
    /\ pages' = total /\ failed' = (failed \/ err)
    /\ next' = next + 1
    /\ UNCHANGED <<list, bumps, wpc, known, excused>>

\* Mutant: the number of pages stays what it was.
RowsArriveFirstPage ==
    Walking /\ Found(Rows(next), pages, FALSE) /\ UNCHANGED misses

RowsArrive == Walking /\ Found(Rows(next), LastListPage, FALSE) /\ UNCHANGED misses

\* Rows whose numbers do not parse are left out; if the count of pages does not
\* parse, or the status is bad, there is one page, which ends the walk.  All are
\* errors.
RowsUnreadable ==
    /\ Walking /\ GoesMissing
    /\ \/ \E rows \in SUBSET Rows(next) : Found(rows, LastListPage, TRUE)
       \/ Found(Rows(next), 1, TRUE)
       \/ Found({}, 1, TRUE)

\* Rows that lack a part, or whose time does not parse, are left out silently.
RowsIncomplete ==
    /\ Walking /\ GoesMissing
    /\ \E rows \in SUBSET Rows(next) :
          /\ threads' = threads \cup rows
          /\ excused' = excused \cup (Rows(next) \ rows)
    /\ pages' = LastListPage /\ next' = next + 1
    /\ UNCHANGED <<list, bumps, wpc, failed, known>>

\* A page that is not the list, but has status 200, is a list without rows that
\* has one page: that ends the walk, and it is no error.
OtherPageArrives ==
    /\ Walking /\ GoesMissing
    /\ pages' = 1 /\ next' = next + 1
    /\ excused' = excused \cup (Bookmarks \ threads)
    /\ UNCHANGED <<list, bumps, wpc, threads, failed, known>>

\* A request that fails ends the walk with what was found.
RequestForRowsFails ==
    /\ Walking /\ GoesMissing
    /\ next' = pages + 1 /\ failed' = TRUE
    /\ UNCHANGED <<list, bumps, wpc, pages, threads, known, excused>>

\* updateThreads takes in what was found; a walk with an error is made again.
WalkEnds ==
    /\ wpc = "walk" /\ next > pages
    /\ known' = known \cup threads
    /\ wpc' = IF failed THEN "walk" ELSE "recent"
    /\ excused' = IF failed THEN {} ELSE excused
    /\ next' = 1 /\ pages' = 1 /\ threads' = {} /\ failed' = FALSE
    /\ UNCHANGED <<list, bumps, misses>>

\* Mutant: the last page instead of the first.
RecentIsLast ==
    /\ wpc = "recent" /\ known' = known \cup Rows(LastListPage)
    /\ UNCHANGED <<list, bumps, wpc, next, pages, threads, failed, excused, misses>>

\* ParseRecentBookmarks: the first page, and whatever of it can be had.
RecentArrives ==
    /\ wpc = "recent" /\ known' = known \cup Rows(1)
    /\ UNCHANGED <<list, bumps, wpc, next, pages, threads, failed, excused, misses>>
RecentFails ==
    /\ wpc = "recent" /\ GoesMissing
    /\ \E rows \in SUBSET Rows(1) : known' = known \cup rows
    /\ UNCHANGED <<list, bumps, wpc, next, pages, threads, failed, excused>>

UpdaterStep == RowsArrive \/ WalkEnds \/ RecentArrives
BookmarkNext ==
    \/ \E t \in Bookmarks : Bump(t)
    \/ UpdaterStep
    \/ RowsUnreadable \/ RowsIncomplete \/ OtherPageArrives
    \/ RequestForRowsFails \/ RecentFails

BookmarkSpec == BookmarkInit /\ [][BookmarkNext]_bookmarkVars

(* Fairness: the updater's goroutine runs, and the site answers in the end; *)
(* how often it does not is bounded by MaxBookmarkFaults.                   *)
BookmarkFairness == WF_bookmarkVars(UpdaterStep)
-----------------------------------------------------------------------------
\* "ParseAllBookmarks iterates all bookmarked threads and returns them": once
\* a walk has succeeded every thread in which nobody posted during it is known.
\* Posts in others only move it to a page that is still to be read.
QuietThreadsFound == wpc = "recent" => Bookmarks \ excused \subseteq known

\* "Refresh the bookmarks to make sure all channels can be joined": a thread gets
\* its channel in the end, unless it was excused in the walk and as many others
\* have had posts after it as a page has room for.
PushedOut(t) == wpc = "recent" /\ t \in excused /\ t \notin Rows(1)
EveryBookmarkTracked == \A t \in Bookmarks : <>(t \in known \/ PushedOut(t))
=============================================================================
