---------------------------- MODULE ForumChannel ----------------------------
(***************************************************************************)
(* One forum channel "##name": the poller of startForumListener, or of the *)
(* bookmarks, that announces the threads whose update time has changed,    *)
(* and JOIN and PART of the channel.  The poller touches the forum's maps  *)
(* without forum.lock; that of the bookmarks holds server.lock instead.    *)
(*                                                                         *)
(* An update of a thread is the post behind it.  The site orders threads   *)
(* by the posts' exact times, but prints them to the minute, which is all  *)
(* that the bridge compares and sorts by.  The site's clock goes forward.  *)
(*                                                                         *)
(* A Go range over a map visits what is in it throughout, nothing that was *)
(* deleted first, and may or may not visit what is added meanwhile: each   *)
(* loop is the set it has still to visit.  A race that the runtime detects *)
(* ends the process, a behaviour that stops.  Lines arrive when enqueued.  *)
(***************************************************************************)
EXTENDS Naturals, FiniteSets, FiniteSetsExt

CONSTANTS
    Conns,          \* client connections
    Threads,        \* threads of the forum
    MaxPosts,       \* bound: the posts that are made on the site, in order
    MinuteOf,       \* the minute that the site prints for each of them
    Authors, AuthorOf, \* who wrote each of them (ThreadMetadata.KilledBy)
    PageSize,       \* threads on the page of the forum, latest first
    MaxJoins,       \* bound: the JOINs that clients send
    None            \* nobody, nothing

Posts == 1..MaxPosts

ASSUME ConstAssumption ==
    /\ MaxPosts \in Nat /\ PageSize \in Nat \ {0} /\ MaxJoins \in Nat
    /\ IsFiniteSet(Threads) /\ AuthorOf \in [Posts -> Authors]
    /\ MinuteOf \in [Posts -> Nat \ {0}]
    /\ \A p, q \in Posts : p <= q => MinuteOf[p] <= MinuteOf[q]
    /\ None \notin Conns

\* ThreadMetadata.Updated, for the post that it is taken from; 0 for no post.
Minute(post) == IF post = 0 THEN 0 ELSE MinuteOf[post]

VARIABLES
    bookmarks,    \* TRUE for ##bookmarks, FALSE for the other forums: constant
    now, updated, \* the site: last post, and last post in each thread
    flock,        \* holder of forum.lock
    slock,        \* the poller of the bookmarks holds server.lock
    listening, known, authors, subscribers, \* the forum; known: threads' posts
    ppc, batch,   \* the poller, and the rows it has still to take in
    joined, news, \* authors to announce, and updates
    cur, must,    \* the line it is sending, and to whom it still must
    cpc, mine,    \* each connection: where it is, and s.forums has the forum
    joins,        \* JOINs that all of them have sent
    toName, toShow, \* authors its NAMES, and threads its replay still must list
    held,         \* thread and post that the replay has in hand
    skipped,      \* history: the rows that a page had and a poll did not get
    best, latest, \* history, since its own JOIN line: the latest post it was
                  \* told of in each thread, and the last that the poller told
    announced     \* history: the authors it was told of

site      == <<bookmarks, now, updated>>
forum     == <<known, authors>>
pollVars  == <<ppc, batch, joined, news, cur, skipped>>
loopVars  == <<toName, toShow>>
connVars  == <<cpc, mine, joins, held>>
viewVars  == <<best, latest, announced>>
vars == <<site, flock, slock, listening, forum, subscribers, pollVars, must,
          connVars, loopVars, viewVars>>

Nothing == [t \in Threads |-> 0]

Init ==
    /\ bookmarks \in BOOLEAN /\ now = 0 /\ updated = Nothing
    /\ flock = None /\ slock = FALSE
    /\ listening = bookmarks
    /\ known = Nothing /\ authors = {} /\ subscribers = {}
    /\ ppc = "fetch" /\ batch = {} /\ joined = {} /\ news = {}
    /\ cur = None /\ must = {} /\ skipped = {}
    /\ cpc = [c \in Conns |-> "idle"] /\ mine = [c \in Conns |-> FALSE]
    /\ joins = 0 /\ held = [c \in Conns |-> None]
    /\ toName = [c \in Conns |-> {}] /\ toShow = [c \in Conns |-> {}]
    /\ best = [c \in Conns |-> Nothing] /\ latest = [c \in Conns |-> 0]
    /\ announced = [c \in Conns |-> {}]

Posted(t) ==
    /\ now < MaxPosts /\ now' = now + 1
    /\ updated' = [updated EXCEPT ![t] = now + 1]
    /\ UNCHANGED <<bookmarks, flock, slock, listening, forum, subscribers, pollVars,
                   must, connVars, loopVars, viewVars>>
-----------------------------------------------------------------------------
(* The poller and updateForumFromThreads                                    *)
Page == {t \in Threads : /\ updated[t] > 0
                         /\ Cardinality({s \in Threads : updated[s] > updated[t]})
                               < PageSize}

Poll(from, to) ==
    /\ listening /\ ppc = from /\ ppc' = to
    /\ UNCHANGED <<site, flock, listening, subscribers, connVars>>

\* The parser leaves out the rows it cannot read, all of them on a page without
\* a list of threads; the bookmarks are taken in even if a request failed.
Fetch ==
    /\ Poll("fetch", "absorb")
    /\ ~slock /\ slock' = bookmarks
    /\ \E seen \in SUBSET Page :
          /\ batch' = {<<t, updated[t]>> : t \in seen}
          /\ skipped' = skipped \cup {<<t, updated[t]>> : t \in Page \ seen}
    /\ UNCHANGED <<forum, joined, news, cur, must, loopVars, viewVars>>
FetchFails ==
    /\ Poll("fetch", "sleep")
    /\ UNCHANGED <<slock, forum, batch, joined, news, cur, skipped, must, loopVars,
                   viewVars>>
Wake ==
    /\ Poll("sleep", "fetch")
    /\ UNCHANGED <<slock, forum, batch, joined, news, cur, skipped, must, loopVars,
                   viewVars>>

\* A loop under way may visit the key that is added.
Extended(loop, at, key) ==
    {[c \in Conns |-> IF c \in S THEN loop[c] \cup {key} ELSE loop[c]] :
        S \in SUBSET {c \in Conns : cpc[c] = at}}

Taken(r, news2) ==
    LET t == r[1]  a == AuthorOf[r[2]]
    IN /\ Poll("absorb", "absorb")
       /\ r \in batch /\ batch' = batch \ {r}
       /\ joined' = IF a \in authors THEN joined ELSE joined \cup {a}
       /\ authors' = authors \cup {a}
       /\ news' = news2
       /\ known' = [known EXCEPT ![t] = r[2]]
       /\ toName' \in IF a \in authors THEN {toName}
                      ELSE Extended(toName, "names", a)
       /\ toShow' \in IF known[t] # 0 THEN {toShow}
                      ELSE Extended(toShow, "show", t)
       /\ UNCHANGED <<slock, cur, skipped, must, viewVars>>

\* The thread is new or its update time has changed.
Moved(r) == Minute(known[r[1]]) # Minute(r[2])

\* Mutants: only threads that are new are announced; new authors are not.
AbsorbNew(r) == Taken(r, IF known[r[1]] = 0 THEN news \cup {r} ELSE news)
AbsorbSilently(r) ==
    /\ Poll("absorb", "absorb")
    /\ r \in batch /\ batch' = batch \ {r}
    /\ authors' = authors \cup {AuthorOf[r[2]]}
    /\ news' = IF Moved(r) THEN news \cup {r} ELSE news
    /\ known' = [known EXCEPT ![r[1]] = r[2]]
    /\ UNCHANGED <<slock, joined, cur, skipped, must, loopVars, viewVars>>

Absorb(r) == Taken(r, IF Moved(r) THEN news \cup {r} ELSE news)

\* Authors first, in the order of a map, then the updates, in that of time;
\* SortFunc leaves those of one minute in any order.  A line is <<author, 0>>
\* or <<thread, post>>.
StartLine(line) ==
    /\ \E from \in {"absorb", "send"} : Poll(from, "send")
    /\ batch = {} /\ must = {} /\ must' = subscribers /\ cur' = line
    /\ UNCHANGED <<slock, forum, batch, skipped, loopVars, viewVars>>
NextAuthor(a) ==
    /\ a \in joined /\ joined' = joined \ {a}
    /\ StartLine(<<a, 0>>) /\ UNCHANGED news

\* Mutant: the updates are sent in any order.
NextUnsorted(u) ==
    /\ joined = {}
    /\ u \in news /\ news' = news \ {u}
    /\ StartLine(u) /\ UNCHANGED joined

NextUpdate(u) ==
    /\ joined = {}
    /\ u \in news /\ news' = news \ {u}
    /\ \A v \in news : Minute(u[2]) <= Minute(v[2])
    /\ StartLine(u) /\ UNCHANGED joined

Shown(c, t, post) ==
    best' = [best EXCEPT ![c][t] = IF @ < post THEN post ELSE @]

Tell(c) ==
    /\ Poll("send", "send")
    /\ c \in must /\ must' = must \ {c}
    /\ IF cur[2] = 0
       THEN /\ announced' = [announced EXCEPT ![c] = @ \cup {cur[1]}]
            /\ UNCHANGED <<best, latest>>
       ELSE /\ Shown(c, cur[1], cur[2]) /\ latest' = [latest EXCEPT ![c] = cur[2]]
            /\ UNCHANGED announced
    /\ UNCHANGED <<slock, forum, batch, joined, news, cur, skipped, loopVars>>

\* Mutant: server.lock is kept.
PollDoneLocked ==
    /\ \E from \in {"absorb", "send"} : Poll(from, "sleep")
    /\ batch = {} /\ joined = {} /\ news = {} /\ must = {}
    /\ UNCHANGED <<slock, forum, batch, joined, news, cur, skipped, must, loopVars,
                   viewVars>>

PollDone ==
    /\ \E from \in {"absorb", "send"} : Poll(from, "sleep")
    /\ batch = {} /\ joined = {} /\ news = {} /\ must = {}
    /\ slock' = FALSE /\ cur' = None
    /\ UNCHANGED <<forum, batch, joined, news, skipped, must, loopVars, viewVars>>
-----------------------------------------------------------------------------
(* JOIN and PART, on the connection's receive loop.                         *)
Conn(c, from, to) ==
    /\ cpc[c] = from /\ cpc' = [cpc EXCEPT ![c] = to]
    /\ UNCHANGED <<site, slock, forum, pollVars, joins>>

Join(c) ==
    /\ cpc[c] = "idle" /\ cpc' = [cpc EXCEPT ![c] = "listen"]
    /\ ~mine[c] /\ ~slock
    /\ joins < MaxJoins /\ joins' = joins + 1
    /\ UNCHANGED <<site, flock, slock, listening, forum, subscribers, pollVars,
                   must, mine, held, loopVars, viewVars>>

\* Mutant: the subscribers are made anew although there is a listener.
StartListenerAgain(c) ==
    /\ Conn(c, "listen", "subscribe")
    /\ flock = None
    /\ mine' = [mine EXCEPT ![c] = TRUE]
    /\ listening' = TRUE /\ subscribers' = {}
    /\ UNCHANGED <<flock, must, held, loopVars, viewVars>>

\* startForumListener, under forum.lock, and the entry in s.forums.  The maps
\* that it makes are empty before the first listener: nothing fills them.
StartListener(c) ==
    /\ Conn(c, "listen", "subscribe")
    /\ flock = None
    /\ mine' = [mine EXCEPT ![c] = TRUE]
    /\ listening' = TRUE
    /\ subscribers' = IF listening THEN subscribers ELSE {}
    /\ UNCHANGED <<flock, must, held, loopVars, viewVars>>

Subscribe(c) ==
    /\ Conn(c, "subscribe", "join")
    /\ flock = None /\ flock' = c
    /\ subscribers' = subscribers \cup {c}
    /\ must' \in IF ppc = "send" THEN {must, must \cup {c}} ELSE {must}
    /\ UNCHANGED <<listening, mine, held, loopVars, viewVars>>

\* The JOIN line, after which the client starts from nothing, the topic, and
\* the start of the range over the authors.
SendJoin(c) ==
    /\ Conn(c, "join", "names")
    /\ best' = [best EXCEPT ![c] = Nothing] /\ latest' = [latest EXCEPT ![c] = 0]
    /\ announced' = [announced EXCEPT ![c] = {}]
    /\ toName' = [toName EXCEPT ![c] = authors]
    /\ UNCHANGED <<flock, listening, subscribers, must, mine, held, toShow>>

SendName(c) ==
    /\ Conn(c, "names", "names")
    /\ \E a \in toName[c] :
          /\ toName' = [toName EXCEPT ![c] = @ \ {a}]
          /\ announced' = [announced EXCEPT ![c] = @ \cup {a}]
    /\ UNCHANGED <<flock, listening, subscribers, must, mine, held, toShow, best, latest>>

NamesDone(c) ==
    /\ Conn(c, "names", "show")
    /\ toName[c] = {} /\ toShow' = [toShow EXCEPT ![c] = {t \in Threads : known[t] # 0}]
    /\ UNCHANGED <<flock, listening, subscribers, must, mine, held, toName, viewVars>>

\* The range takes a thread's metadata in hand, waits for server.lock to look the
\* channel name up, and sends the line.
Hold(c) ==
    /\ Conn(c, "show", "name")
    /\ \E t \in toShow[c] : /\ toShow' = [toShow EXCEPT ![c] = @ \ {t}]
                            /\ held' = [held EXCEPT ![c] = <<t, known[t]>>]
    /\ UNCHANGED <<flock, listening, subscribers, must, mine, toName, viewVars>>
LookUp(c) ==
    /\ Conn(c, "name", "shown")
    /\ ~slock
    /\ UNCHANGED <<flock, listening, subscribers, must, mine, held, loopVars, viewVars>>
Show(c) ==
    /\ Conn(c, "shown", "show")
    /\ Shown(c, held[c][1], held[c][2]) /\ held' = [held EXCEPT ![c] = None]
    /\ UNCHANGED <<flock, listening, subscribers, must, mine, loopVars, latest, announced>>

ShowDone(c) ==
    /\ Conn(c, "show", "idle")
    /\ toShow[c] = {} /\ flock' = None
    /\ UNCHANGED <<listening, subscribers, must, mine, held, loopVars, viewVars>>

Part(c) ==
    /\ Conn(c, "idle", "idle")
    /\ mine[c] /\ mine' = [mine EXCEPT ![c] = FALSE]
    /\ flock = None
    /\ subscribers' = subscribers \ {c} /\ must' = must \ {c}
    /\ UNCHANGED <<flock, listening, held, loopVars, viewVars>>
-----------------------------------------------------------------------------
PollerWork ==
    \/ (\E r \in batch : Absorb(r)) \/ (\E a \in joined : NextAuthor(a))
    \/ (\E u \in news : NextUpdate(u)) \/ (\E c \in Conns : Tell(c)) \/ PollDone
PollerStep == Fetch \/ FetchFails \/ Wake \/ PollerWork
JoinStep(c) ==
    \/ StartListener(c) \/ Subscribe(c) \/ SendJoin(c) \/ SendName(c)
    \/ NamesDone(c) \/ Hold(c) \/ LookUp(c) \/ Show(c) \/ ShowDone(c)

Next ==
    \/ (\E t \in Threads : Posted(t)) \/ PollerStep
    \/ \E c \in Conns : Join(c) \/ JoinStep(c) \/ Part(c)

Spec == Init /\ [][Next]_vars

(* Goroutines that can step do, and a mutex serves the longest waiter.      *)
FairSpec == Spec /\ WF_vars(PollerWork) /\ \A c \in Conns : SF_vars(JoinStep(c))
-----------------------------------------------------------------------------
\* Every variable keeps its type.
SiteTypes ==
    /\ bookmarks \in BOOLEAN /\ now \in 0..MaxPosts
    /\ updated \in [Threads -> 0..MaxPosts]
ForumTypes ==
    /\ flock \in Conns \cup {None} /\ slock \in BOOLEAN /\ listening \in BOOLEAN
    /\ known \in [Threads -> 0..MaxPosts]
    /\ authors \subseteq Authors /\ subscribers \subseteq Conns
PollerTypes ==
    /\ ppc \in {"fetch", "absorb", "send", "sleep"}
    /\ batch \subseteq Threads \X Posts /\ joined \subseteq Authors
    /\ news \subseteq Threads \X Posts /\ must \subseteq Conns
    /\ cur \in {None} \cup ((Authors \cup Threads) \X (0..MaxPosts))
    /\ skipped \subseteq Threads \X Posts
ConnTypes ==
    /\ cpc \in [Conns -> {"idle", "listen", "subscribe", "join", "names", "show",
                          "name", "shown"}]
    /\ mine \in [Conns -> BOOLEAN] /\ joins \in 0..MaxJoins
    /\ held \in [Conns -> {None} \cup Threads \X Posts]
    /\ toName \in [Conns -> SUBSET Authors] /\ toShow \in [Conns -> SUBSET Threads]
ViewTypes ==
    /\ best \in [Conns -> [Threads -> 0..MaxPosts]]
    /\ latest \in [Conns -> 0..MaxPosts] /\ announced \in [Conns -> SUBSET Authors]
TypeOK == SiteTypes /\ ForumTypes /\ PollerTypes /\ ConnTypes /\ ViewTypes

Settled(c) == c \in subscribers /\ cpc[c] = "idle"

\* Between polls a settled client was told of every thread as late as the forum
\* knows it, to the minute, and of every author, whether by its JOIN or by the
\* poller.  (A second post within a minute is taken in but not announced.)
NoUpdateLost ==
    ppc \in {"fetch", "sleep"} =>
        \A c \in Conns : Settled(c) =>
            \A t \in Threads : Minute(best[c][t]) = Minute(known[t])
NoAuthorMissing ==
    ppc \in {"fetch", "sleep"} =>
        \A c \in Conns : Settled(c) => authors \subseteq announced[c]

\* The poller tells no client of an update after a later one, unless the row of
\* the older one was on a page that a poll did not get it from.
PollerInOrder ==
    [][\A c \in Conns : latest'[c] \notin {latest[c], 0} =>
          Minute(latest[c]) <= Minute(latest'[c]) \/ cur \in skipped]_vars

\* Every variable keeps its type, and between commands the connection's and the
\* forum's side of the mapping agree.
MappingAgrees ==
    /\ TypeOK
    /\ \A c \in Conns : cpc[c] = "idle" => (mine[c] <=> c \in subscribers)

\* A JOIN ends, although its replay waits for server.lock, which the poller of
\* the bookmarks takes again and again, while it holds forum.lock.
JoinEnds == \A c \in Conns : cpc[c] # "idle" ~> cpc[c] = "idle"
=============================================================================
