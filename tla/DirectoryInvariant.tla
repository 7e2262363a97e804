------------------------- MODULE DirectoryInvariant -------------------------
(* The inductive invariant behind the safety properties of Directory.      *)
EXTENDS Directory

\* The updater holds server.lock exactly while it updates the bookmarks forum,
\* and has the row of a known thread in hand while it broadcasts.
UpdaterPlace ==
    /\ slock <=> upc = "forum"
    /\ upc = "broadcast" => rows # <<>> /\ Head(rows).id \in DOMAIN threads

\* Each thread.lock is held by the updater, which broadcasts the title of its
\* row, or by a JOIN of the thread that has not unlocked it, or by nobody.
LocksHeld ==
    \A t \in Threads :
        /\ tlock[t] = "updater" <=> upc = "broadcast" /\ Head(rows).id = t
        /\ \A c \in Conns :
              tlock[t] = c <=> cpc[c] \in {"topic", "joined"} /\ target[c] = t

\* A connection's map enters the threads it is subscribed to, and the one that
\* its JOIN is about to subscribe to, under the names the server has for them.
Joining(c) == IF cpc[c] = "subscribe" THEN {target[c]} ELSE {}
Entries ==
    \A c \in Conns :
       /\ \A n \in DOMAIN mine[c] :
             n \in DOMAIN shortNames /\ shortNames[n] = mine[c][n]
       /\ cpc[c] # "idle" => target[c] \in Range(mine[c])
       /\ \A t \in Threads :
             c \in subscribers[t] <=> t \in Range(mine[c]) \ Joining(c)

\* A current title that a subscriber was not shown, the holder of the thread's lock owes it.
OwesTitle(c, t) ==
    \/ tlock[t] = "updater" /\ c \in left
    \/ tlock[t] = c /\ cpc[c] = "topic"
TitleDue(c, t) == told[c][t] \in Shows(title[t]) \/ OwesTitle(c, t)
TitlesOwed ==
    /\ upc = "broadcast" => title[Head(rows).id] = Head(rows).title
    /\ \A t \in Threads : \A c \in subscribers[t] : TitleDue(c, t)

\* The inductive invariant.
IInv ==
    /\ TypeOK /\ UpdaterPlace /\ TablesAgree /\ LocksHeld /\ Entries /\ TitlesOwed
-----------------------------------------------------------------------------
(* The names that are reserved.                                             *)
Hint(k) == SubSeq(Significant(WellKnown[k].words), 1, 1)

\* The hints tell the well-known threads apart, from each other and from the
\* leper's colony.
HintsDistinct ==
    \A j, k \in DOMAIN WellKnown :
        /\ Significant(WellKnown[k].words) # <<>> /\ Hint(k) # LCName
        /\ Hint(j) = Hint(k) => WellKnown[j].id = WellKnown[k].id
        /\ WellKnown[j].id = WellKnown[k].id => Hint(j) = Hint(k)

Named(k) == WellKnown[k].id \in DOMAIN threads /\ threads[WellKnown[k].id] = Hint(k)

\* The first k rows of the list are named, and the colony, and nothing else is.
Reserved(k) ==
    /\ LCName \in DOMAIN shortNames /\ shortNames[LCName] = LC
    /\ \A j \in 1..k : Named(j)
    /\ \A n \in DOMAIN shortNames : n = LCName \/ \E j \in 1..k : n = Hint(j)

\* The updater has not begun, or is on its way through the list, or is past it.
Reserving ==
    \/ upc = "idle" /\ threads = <<>> /\ Reserved(0)
    \/ /\ upc # "idle"
       /\ \E k \in 0..Len(WellKnown) :
             Reserved(k) /\ rows = SubSeq(WellKnown, k + 1, Len(WellKnown))
    \/ \A k \in DOMAIN WellKnown : Named(k)
=============================================================================
