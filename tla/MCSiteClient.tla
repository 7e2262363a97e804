---------------------------- MODULE MCSiteClient ----------------------------
(* Instances of the parts of the site client for TLC.  They share nothing,  *)
(* so that a behaviour follows one of them while the others rest.           *)
EXTENDS UnreadPages, BookmarkPages, LimitedHttp

CONSTANT Parts  \* of "posts", "bookmarks", "limiter": those to be checked
VARIABLE part   \* the one that this behaviour follows

vars == <<part, unreadVars, bookmarkVars, limiterVars>>

Follow(p, A, rest) == part = p /\ A /\ UNCHANGED <<part, rest>>
PostWalk(A) == Follow("posts", A, <<bookmarkVars, limiterVars>>)
ListWalk(A) == Follow("bookmarks", A, <<unreadVars, limiterVars>>)
Limiter(A) == Follow("limiter", A, <<unreadVars, bookmarkVars>>)

Init ==
    /\ part \in Parts /\ UnreadInit /\ BookmarkInit /\ LimiterInit
    /\ part # "posts" => count = 0
Next == PostWalk(UnreadNext) \/ ListWalk(BookmarkNext) \/ Limiter(LimiterNext)

\* The fairness of each module.
Spec ==
    /\ Init /\ [][Next]_vars
    /\ WF_vars(PostWalk(UnreadStep)) /\ WF_vars(ListWalk(UpdaterStep))
    /\ WF_vars(Limiter(PeriodPasses))
    /\ \A c \in Callers : WF_vars(Limiter(Send(c)))

\* EveryPostTaken, EveryBookmarkTracked and EveryRequestSent, where each applies.
PostsTaken == part = "posts" => EveryPostTaken
BookmarksTracked == part = "bookmarks" => EveryBookmarkTracked
RequestsSent == part = "limiter" => EveryRequestSent
\* TriedAgain, in the same way.
DroppedTriedAgain == part = "posts" => TriedAgain
=============================================================================
