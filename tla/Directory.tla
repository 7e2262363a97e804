----------------------------- MODULE Directory -----------------------------
(***************************************************************************)
(* The channel directory: repeatUpdatingThreads, which gives each thread   *)
(* of the bookmarks a channel name once and for all and broadcasts changed *)
(* titles, and JOIN and PART, which look the names up.                     *)
(*                                                                         *)
(* A channel name is the sequence of the words that a hyphen joins.        *)
(* Cleaning a title is given by the words it leaves, Words[title]: never   *)
(* none, since splitting the empty string leaves one empty word.  Lines    *)
(* arrive when they are enqueued; the queue is the subject of other        *)
(* modules.  Both tables are entered in one step: that the updater writes  *)
(* them without server.lock, and what the runtime makes of a JOIN that     *)
(* reads them meanwhile, is not modelled.                                  *)
(***************************************************************************)
EXTENDS Naturals, Sequences, FiniteSets, FiniteSetsExt

CONSTANTS
    Conns,         \* client connections
    Ids, LC,       \* thread IDs on the site, and the leper's colony
    Titles, Words, \* titles and the words cleaning leaves of each
    Digit,         \* Digit[d] is the word that prints the number d
    LCTitle,       \* title of the leper's colony
    WellKnown,     \* rows of WellKnownThreads
    Lists,         \* lists of rows a bookmark request may return
    None           \* no connection, no thread, no title

Threads == Ids \cup {LC}

\* What a client is sent about a title: the 332 line of JOIN, which sets the
\* topic of the channel, or the three lines of a broadcast.  enqueueLines takes
\* lines, not a format and its arguments, so that these are the format, the name
\* and the title, each on a line of its own: they name no command of IRC, and the
\* client's topic stays as it is.
TopicLine(t) == [form |-> "topic", title |-> t]
BareLines(t) == [form |-> "bare", title |-> t]
Notices == [form : {"topic", "bare"}, title : Titles]

Row(i, t) == [id |-> i, title |-> t, words |-> Words[t]]
Rows == {Row(i, t) : i \in Ids, t \in Titles}

ASSUME ConstAssumption ==
    /\ Words \in [Titles -> Seq(STRING) \ {<<>>}] /\ LCTitle \in Titles
    /\ LC \notin Ids /\ None \notin Threads /\ None \notin Titles
    /\ None \notin Conns /\ "updater" \notin Conns \cup {None}
    /\ IsFiniteSet(Threads) /\ Digit \in [0..Cardinality(Threads) -> STRING]
    /\ \A d, e \in DOMAIN Digit : Digit[d] = Digit[e] => d = e
    /\ \A l \in Lists : l \in Seq(Rows)
    /\ WellKnown \in Seq([id : Ids, title : Titles, words : Seq(STRING) \ {<<>>}])

\* True of any literals; the provers do not know it.
ASSUME LiteralAssumption == {"lc", "empty"} \subseteq STRING

VARIABLES
    slock,       \* the updater holds server.lock
    threads,     \* s.threads: the channel name of each known thread
    shortNames,  \* s.shortNames: the thread of each channel name
    title,       \* meta.Title of each known thread
    tlock,       \* holder of each thread.lock
    subscribers, \* subscribers of each thread
    upc, rows,   \* the updater: where it is, and the rows left of its list
    left,        \* subscribers its title broadcast must still serve
    cpc, target, \* each connection: where its JOIN is, and of which thread
    mine,        \* its s.threads: the thread of each joined channel
    told         \* history: the lines it was last sent about each title

tables   == <<threads, shortNames, title>>
updVars  == <<upc, rows, left>>
connVars == <<cpc, target, mine>>
vars == <<slock, tables, tlock, subscribers, updVars, connVars, told>>
-----------------------------------------------------------------------------
(* lockedMakeShortName                                                      *)
Articles == {"a", "an", "the"}
Significant(words) ==
    LET I == {i \in 1..Len(words) : words[i] \notin Articles}
    IN IF I = {} THEN <<>> ELSE SubSeq(words, Min(I), Len(words))

\* Every prefix of the title, then its first word with a number; more than
\* Cardinality(used) numbers are never tried.
Candidates(words, used) ==
    LET w == Significant(words)
        Variants(v) == [n \in 1..Cardinality(used) + 1 |-> <<v, Digit[n - 1]>>]
    IN IF w = <<>> THEN Variants("empty")
       ELSE [i \in 1..Len(w) |-> SubSeq(w, 1, i)] \o Variants(w[1])

\* Mutant: the first word, taken or not.
FirstCandidate(words, used) == Candidates(words, used)[1]

lockedMakeShortName(words, used) ==
    LET c == Candidates(words, used)
    IN c[CHOOSE i \in 1..Len(c) :
            c[i] \notin used /\ \A j \in 1..i - 1 : c[j] \in used]

LCName == <<"lc">>

\* A table after an assignment to a key, which it may have or not.
Entered(table, key, value) ==
    [k \in DOMAIN table \cup {key} |-> IF k = key THEN value ELSE table[k]]
-----------------------------------------------------------------------------
Init ==
    /\ slock = FALSE
    /\ threads = <<>>
    /\ shortNames = [n \in {LCName} |-> LC] /\ title = [t \in {LC} |-> LCTitle]
    /\ tlock = [t \in Threads |-> None] /\ subscribers = [t \in Threads |-> {}]
    /\ upc = "idle" /\ rows = <<>> /\ left = {}
    /\ cpc = [c \in Conns |-> "idle"] /\ target = [c \in Conns |-> None]
    /\ mine = [c \in Conns |-> <<>>]
    /\ told = [c \in Conns |-> [t \in Threads |-> None]]
-----------------------------------------------------------------------------
(* updateThreads: first the bookmarks forum, under server.lock (its lines   *)
(* are the subject of ForumChannel), then row by row, without it.           *)
Upd(from, to) ==
    /\ upc = from /\ upc' = to
    /\ UNCHANGED connVars

UpdateThreads ==
    /\ Upd("idle", "forum")
    /\ ~slock /\ slock' = TRUE
    /\ IF threads = <<>> THEN rows' = WellKnown ELSE rows' \in Lists
    /\ UNCHANGED <<tables, tlock, subscribers, left, told>>

ForumUpdated ==
    /\ Upd("forum", "row")
    /\ slock' = FALSE
    /\ UNCHANGED <<tables, tlock, subscribers, rows, left, told>>

Add(words) ==
    LET r == Head(rows)
        name == lockedMakeShortName(words, DOMAIN shortNames)
    IN /\ Upd("row", "row")
       /\ rows # <<>> /\ r.id \notin DOMAIN threads /\ rows' = Tail(rows)
       /\ threads' = Entered(threads, r.id, name)
       /\ shortNames' = Entered(shortNames, name, r.id)
       /\ title' = Entered(title, r.id, r.title)
       /\ UNCHANGED <<slock, tlock, subscribers, left, told>>

AddThread == rows # <<>> /\ Add(Head(rows).words)

\* Mutants: a new title renames the channel; it is stored before it is compared.
Rename ==
    LET r == Head(rows)
        name == lockedMakeShortName(r.words, DOMAIN shortNames)
    IN /\ Upd("row", "row")
       /\ rows # <<>> /\ r.id \in DOMAIN threads /\ rows' = Tail(rows)
       /\ tlock[r.id] = None /\ title[r.id] # r.title
       /\ title' = [title EXCEPT ![r.id] = r.title]
       /\ threads' = [threads EXCEPT ![r.id] = name]
       /\ shortNames' = Entered(
              [n \in DOMAIN shortNames \ {threads[r.id]} |-> shortNames[n]], name, r.id)
       /\ UNCHANGED <<slock, tlock, subscribers, left, told>>

TakeTitleFirst ==
    LET r == Head(rows)
    IN /\ Upd("row", "broadcast")
       /\ rows # <<>> /\ r.id \in DOMAIN threads
       /\ tlock[r.id] = None /\ tlock' = [tlock EXCEPT ![r.id] = "updater"]
       /\ title' = [title EXCEPT ![r.id] = r.title]
       /\ left' = IF title'[r.id] # r.title THEN subscribers[r.id] ELSE {}
       /\ UNCHANGED <<slock, threads, shortNames, subscribers, rows, told>>

TakeTitle ==
    LET r == Head(rows)
    IN /\ Upd("row", "broadcast")
       /\ rows # <<>> /\ r.id \in DOMAIN threads
       /\ tlock[r.id] = None /\ tlock' = [tlock EXCEPT ![r.id] = "updater"]
       /\ title' = [title EXCEPT ![r.id] = r.title]
       /\ left' = IF title[r.id] # r.title THEN subscribers[r.id] ELSE {}
       /\ UNCHANGED <<slock, threads, shortNames, subscribers, rows, told>>

Broadcast(c) ==
    /\ Upd("broadcast", "broadcast")
    /\ c \in left /\ left' = left \ {c}
    /\ told' = [told EXCEPT ![c][Head(rows).id] = BareLines(Head(rows).title)]
    /\ UNCHANGED <<slock, tables, tlock, subscribers, rows>>

BroadcastDone ==
    /\ Upd("broadcast", "row")
    /\ left = {} /\ rows' = Tail(rows)
    /\ tlock' = [tlock EXCEPT ![Head(rows).id] = None]
    /\ UNCHANGED <<slock, tables, subscribers, left, told>>

RowsDone ==
    /\ Upd("row", "idle")
    /\ rows = <<>>
    /\ UNCHANGED <<slock, tables, tlock, subscribers, rows, left, told>>
-----------------------------------------------------------------------------
(* JOIN and PART                                                            *)
Conn(c, from, to) ==
    /\ cpc[c] = from /\ cpc' = [cpc EXCEPT ![c] = to]
    /\ UNCHANGED <<slock, tables, updVars>>

\* The name is looked up under server.lock, entered in the connection's map,
\* and the thread locked to subscribe.  A name that is unknown, joined, or
\* the empty word (the channel is then "#") leaves everything as it is.
Join(c, n) ==
    /\ Conn(c, "idle", "subscribe")
    /\ n # <<"">> /\ n \notin DOMAIN mine[c]
    /\ ~slock /\ n \in DOMAIN shortNames
    /\ target' = [target EXCEPT ![c] = shortNames[n]]
    /\ mine' = [mine EXCEPT ![c] = Entered(@, n, shortNames[n])]
    /\ UNCHANGED <<tlock, subscribers, told>>

Subscribe(c) ==
    /\ Conn(c, "subscribe", "topic")
    /\ tlock[target[c]] = None /\ tlock' = [tlock EXCEPT ![target[c]] = c]
    /\ subscribers' = [subscribers EXCEPT ![target[c]] = @ \cup {c}]
    /\ UNCHANGED <<target, mine, told>>

SendTopic(c) ==
    /\ Conn(c, "topic", "joined")
    /\ told' = [told EXCEPT ![c][target[c]] = TopicLine(title[target[c]])]
    /\ UNCHANGED <<target, mine, tlock, subscribers>>

Joined(c) ==
    /\ Conn(c, "joined", "idle")
    /\ tlock' = [tlock EXCEPT ![target[c]] = None]
    /\ target' = [target EXCEPT ![c] = None]
    /\ UNCHANGED <<mine, subscribers, told>>

\* The thread is looked up again, by its name, without server.lock.
Part(c, n) ==
    LET t == shortNames[n]
    IN /\ Conn(c, "idle", "idle")
       /\ n \in DOMAIN mine[c] /\ tlock[t] = None
       /\ subscribers' = [subscribers EXCEPT ![t] = @ \ {c}]
       /\ mine' = [mine EXCEPT ![c] = [m \in DOMAIN @ \ {n} |-> @[m]]]
       /\ told' = [told EXCEPT ![c][t] = None]
       /\ UNCHANGED <<target, tlock>>
-----------------------------------------------------------------------------
Updater ==
    \/ UpdateThreads \/ ForumUpdated \/ AddThread \/ TakeTitle
    \/ (\E c \in Conns : Broadcast(c)) \/ BroadcastDone \/ RowsDone

Next ==
    \/ Updater
    \/ \E c \in Conns :
          \/ \E n \in DOMAIN shortNames : Join(c, n) \/ Part(c, n)
          \/ Subscribe(c) \/ SendTopic(c) \/ Joined(c)

Spec == Init /\ [][Next]_vars
-----------------------------------------------------------------------------
Names == Seq(STRING)

\* Every variable keeps its type.
TypeOK ==
    /\ slock \in BOOLEAN
    /\ DOMAIN threads \subseteq Ids /\ \A i \in DOMAIN threads : threads[i] \in Names
    /\ \A n \in DOMAIN shortNames : n \in Names /\ shortNames[n] \in Threads
    /\ title \in [DOMAIN threads \cup {LC} -> Titles]
    /\ tlock \in [Threads -> Conns \cup {"updater", None}]
    /\ subscribers \in [Threads -> SUBSET Conns]
    /\ upc \in {"idle", "forum", "row", "broadcast"}
    /\ rows \in Seq(Rows \cup Range(WellKnown))
    /\ left \subseteq Conns
    /\ cpc \in [Conns -> {"idle", "subscribe", "topic", "joined"}]
    /\ target \in [Conns -> Threads \cup {None}]
    /\ DOMAIN mine = Conns
    /\ \A c \in Conns : \A n \in DOMAIN mine[c] : mine[c][n] \in Threads
    /\ told \in [Conns -> [Threads -> Notices \cup {None}]]

\* "Threads are persistent for each server invocation by thread ID": a channel
\* name never passes to another thread, nor a thread to another name.
NamesPermanent ==
    [][/\ \A n \in DOMAIN shortNames :
             n \in DOMAIN shortNames' /\ shortNames'[n] = shortNames[n]
       /\ \A i \in DOMAIN threads :
             i \in DOMAIN threads' /\ threads'[i] = threads[i]]_vars

\* The two tables agree: each name is the name of the thread it leads to.
TablesAgree ==
    /\ \A i \in DOMAIN threads :
          threads[i] \in DOMAIN shortNames /\ shortNames[threads[i]] = i
    /\ \A n \in DOMAIN shortNames :
          \/ n = LCName /\ shortNames[n] = LC
          \/ shortNames[n] \in DOMAIN threads /\ threads[shortNames[n]] = n

\* PART finds the thread that JOIN entered, and both sides of the mapping
\* agree between commands, although PART looks the name up again.
MappingAgrees ==
    \A c \in Conns :
        /\ \A n \in DOMAIN mine[c] :
              n \in DOMAIN shortNames /\ shortNames[n] = mine[c][n]
        /\ cpc[c] = "idle" =>
              {t \in Threads : c \in subscribers[t]} = Range(mine[c])

\* "canonical names that will be reserved before additional bookmarks are
\* processed": a well-known thread is named by its hint alone.
WellKnownReserved ==
    upc = "idle" /\ threads # <<>> =>
        \A k \in DOMAIN WellKnown :
            threads[WellKnown[k].id] = SubSeq(Significant(WellKnown[k].words), 1, 1)

\* The tables are those of the threads, and the reserved names are kept.
TablesHold == TypeOK /\ TablesAgree /\ WellKnownReserved

\* Between two locks of a thread, what each of its subscribers was last sent about
\* its title shows the current one: the title of a JOIN is not overtaken by a
\* change, nor a change missed by a client that subscribes meanwhile.  After
\* a change it is shown in the bare lines of a broadcast: the comment at
\* server.go:374 calls them a topic update, but the topic stays that of the JOIN.
Shows(t) == {TopicLine(t), BareLines(t)}
TitleShown ==
    \A t \in Threads : \A c \in subscribers[t] :
        tlock[t] = None => told[c][t] \in Shows(title[t])
=============================================================================
