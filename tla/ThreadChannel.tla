--------------------------- MODULE ThreadChannel ---------------------------
(***************************************************************************)
(* One thread channel "#name" of the bridge: the polling goroutine that    *)
(* startThreadListenerWithPostGetter spawns, and the receive loops of the  *)
(* connections that JOIN, PART and WHO the channel.  The poller reads and  *)
(* writes the threadRepresentation without its lock; JOIN, PART and WHO    *)
(* take the lock but share the maps and the slice with the poller all the  *)
(* same, so every step of theirs that the other can observe is an action.  *)
(*                                                                         *)
(* A line is one enqueueLines call.  Of a connection's queue only the      *)
(* depth is kept; of the lines put in it, what the client learns since its *)
(* own last JOIN line: which posts, how often, and which authors.  An      *)
(* author is the IRC form of the name.                                     *)
(***************************************************************************)
EXTENDS ClientQueue, Sequences

CONSTANTS
    Posts,     \* post identifiers (Post.ID)
    Authors,   \* author names
    AuthorOf,  \* the author of each post
    Pages,     \* the lists of posts one call of the post getter may return
    MaxCmds,   \* bound: the JOIN, PART and WHO commands a client sends
    None       \* no connection, no author

ASSUME ConstAssumption ==
    /\ AuthorOf \in [Posts -> Authors]
    /\ Pages \subseteq Seq(Posts)
    /\ MaxCmds \in Nat
    /\ None \notin Conns \cup Authors

VARIABLES
    \* the threadRepresentation
    lock,         \* holder of thread.lock
    listening,    \* a poller was started
    seen,         \* post IDs already taken in
    authors,      \* authors known to the channel
    posts,        \* the backlog that JOIN replays
    subscribers,  \* connections new lines go to
    \* the poller's locals
    ppc,          \* where the poller is
    batch,        \* posts of this poll not yet taken in
    joined,       \* authors new in this poll, not yet announced
    at,           \* index in posts of the next post to mirror
    cur,          \* author whose JOIN is being broadcast
    left,         \* subscribers the running range loop must still visit
    fresh,        \* subscribers added during the loop: it may visit them
    target,       \* subscriber the poller is enqueueing to
    \* each connection
    cpc,          \* where the receive loop is
    mine,         \* s.threads has the channel
    cmds,         \* commands received so far
    must,         \* authors the NAMES or WHO loop has to list
    named,        \* authors it has listed
    rnext, rlim,  \* next index to replay, and the slice length replayed
    \* what the client has been told since its own JOIN line
    copies,       \* how many times each post
    announced,    \* which authors
    alive         \* the bridge process has not died of a data race

feed       == <<seen, authors, posts>>
threadVars == <<lock, listening, feed, subscribers>>
taking     == <<batch, joined, at>>
loop       == <<cur, left, fresh, target>>
pollVars   == <<ppc, taking, loop>>
listing    == <<must, named>>
replaying  == <<rnext, rlim>>
recvVars   == <<cpc, mine, cmds, listing, replaying>>
view       == <<copies, announced>>
sent       == <<queueVars, view>>
vars       == <<threadVars, pollVars, recvVars, sent, alive>>

\* Program points of a receive loop that holds thread.lock: in JOIN, in WHO.
InJoin == {"self", "topic", "names", "endnames", "replay"}
InWho == {"who", "endwho"}
ConnPoints == InJoin \cup InWho \cup
    {"idle", "listen", "lock", "part", "parted", "noton", "wholock"}
Looping == {"joinIter", "mirrorIter"}
PollPoints == Looping \cup
    {"off", "fetch", "backoff", "ingest", "append", "joins", "mirror", "sleep"}

Init ==
    /\ lock = None /\ listening = FALSE /\ alive = TRUE
    /\ seen = {} /\ authors = {} /\ posts = <<>> /\ subscribers = {}
    /\ ppc = "off" /\ batch = <<>> /\ joined = {} /\ at = 1
    /\ cur = None /\ left = {} /\ fresh = {} /\ target = None
    /\ cpc = [c \in Conns |-> "idle"] /\ mine = [c \in Conns |-> FALSE]
    /\ cmds = [c \in Conns |-> 0]
    /\ must = [c \in Conns |-> {}] /\ named = [c \in Conns |-> {}]
    /\ rnext = [c \in Conns |-> 1] /\ rlim = [c \in Conns |-> 0]
    /\ QueueInit
    /\ copies = [c \in Conns |-> [p \in Posts |-> 0]]
    /\ announced = [c \in Conns |-> {}]
-----------------------------------------------------------------------------
(* What a line tells the client of connection c.  Its own JOIN line opens   *)
(* an empty channel window.                                                 *)
OwnJoin(c) == /\ copies' = [copies EXCEPT ![c] = [p \in Posts |-> 0]]
              /\ announced' = [announced EXCEPT ![c] = {}]
Author(c, a) == /\ announced' = [announced EXCEPT ![c] = @ \cup {a}]
                /\ UNCHANGED copies
Post(c, p) == /\ copies' = [copies EXCEPT ![c][p] = @ + 1]
              /\ UNCHANGED announced
Other == UNCHANGED view

Say(c, Line) == Enqueue(c, Line, UNCHANGED view)
-----------------------------------------------------------------------------
(* The poller: for { pg(); take in; announce; mirror; sleep }.  No step of  *)
(* it takes thread.lock.                                                    *)
Poll(from, to) ==
    /\ ppc = from /\ ppc' = to
    /\ UNCHANGED <<lock, listening, subscribers, recvVars>>
Goto(from, to) == Poll(from, to) /\ UNCHANGED <<feed, taking, loop, sent>>

\* Mutants: mirroring starts one post late, and at the start of the backlog.
FetchSkipsOne ==
    /\ Poll("fetch", "ingest")
    /\ batch' \in Pages /\ joined' = {} /\ at' = Len(posts) + 2
    /\ UNCHANGED <<feed, loop, sent>>
FetchMirrorsAll ==
    /\ Poll("fetch", "ingest")
    /\ batch' \in Pages /\ joined' = {} /\ at' = 1
    /\ UNCHANGED <<feed, loop, sent>>

Fetch ==
    /\ Poll("fetch", "ingest")
    /\ batch' \in Pages /\ joined' = {} /\ at' = Len(posts) + 1
    /\ UNCHANGED <<feed, loop, sent>>
FetchFails == Goto("fetch", "backoff")
Wake == Goto("backoff", "fetch") \/ Goto("sleep", "fetch")

SkipSeen ==
    /\ Poll("ingest", "ingest")
    /\ batch # <<>> /\ Head(batch) \in seen
    /\ batch' = Tail(batch)
    /\ UNCHANGED <<feed, joined, at, loop, sent>>

\* Mutant: a new author of a page is not put in the joined set.
TakeAuthorSilently ==
    /\ Poll("ingest", "append")
    /\ batch # <<>> /\ Head(batch) \notin seen
    /\ seen' = seen \cup {Head(batch)}
    /\ authors' = authors \cup {AuthorOf[Head(batch)]}
    /\ UNCHANGED <<joined, posts, batch, at, loop, sent>>

TakeAuthor ==
    /\ Poll("ingest", "append")
    /\ batch # <<>> /\ Head(batch) \notin seen
    /\ seen' = seen \cup {Head(batch)}
    /\ joined' = joined \cup ({AuthorOf[Head(batch)]} \ authors)
    /\ authors' = authors \cup {AuthorOf[Head(batch)]}
    /\ UNCHANGED <<posts, batch, at, loop, sent>>

AppendPost ==
    /\ Poll("append", "ingest")
    /\ posts' = Append(posts, Head(batch)) /\ batch' = Tail(batch)
    /\ UNCHANGED <<seen, authors, joined, at, loop, sent>>

TakenIn == batch = <<>> /\ Goto("ingest", "joins")

(* for sub := range thread.subscribers.  A Go range over a map visits every *)
(* entry that stays in it once, never one that was deleted before being     *)
(* reached, and is free to visit or skip one that is inserted meanwhile.    *)
StartRange == left' = subscribers /\ fresh' = {} /\ UNCHANGED target

AnnounceNext ==
    /\ Poll("joins", "joinIter") /\ StartRange
    /\ \E a \in joined : cur' = a /\ joined' = joined \ {a}
    /\ UNCHANGED <<feed, batch, at, sent>>
AnnouncedAll == joined = {} /\ Goto("joins", "mirror")

MirrorNext ==
    /\ at <= Len(posts)
    /\ Poll("mirror", "mirrorIter") /\ StartRange
    /\ UNCHANGED <<feed, taking, cur, sent>>
MirroredAll == at > Len(posts) /\ Goto("mirror", "sleep")

Visit(c) ==
    /\ ppc \in Looping /\ target = None /\ c \in left \cup fresh
    /\ target' = c /\ left' = left \ {c} /\ fresh' = fresh \ {c}
    /\ Poll(ppc, ppc)
    /\ UNCHANGED <<feed, taking, cur, sent>>

SendToTarget(c) ==
    /\ target = c /\ target' = None
    /\ \/ ppc = "joinIter" /\ Say(c, Author(c, cur))
       \/ ppc = "mirrorIter" /\ Say(c, Post(c, posts[at]))
    /\ Poll(ppc, ppc)
    /\ UNCHANGED <<feed, taking, cur, left, fresh>>

RangeDone ==
    /\ target = None /\ left = {} /\ fresh' = {}
    /\ \/ Poll("joinIter", "joins") /\ cur' = None /\ UNCHANGED at
       \/ Poll("mirrorIter", "mirror") /\ at' = at + 1 /\ UNCHANGED cur
    /\ UNCHANGED <<feed, batch, joined, left, target, sent>>
-----------------------------------------------------------------------------
(* The receive loop of connection c.  It never looks at the context.        *)
Recv(c, from, to) ==
    /\ cpc[c] = from /\ cpc' = [cpc EXCEPT ![c] = to]
    /\ UNCHANGED <<posts, taking, cur, target>>
Quiet == UNCHANGED <<cmds, sent>>
Own(c, from, to) == Recv(c, from, to) /\ UNCHANGED <<threadVars, pollVars, mine>>
Send(c, from, to, Line) == Own(c, from, to) /\ Say(c, Line) /\ UNCHANGED cmds
Acquire(c) == lock = None /\ lock' = c

Command(c, to) ==
    /\ cmds[c] < MaxCmds /\ cmds' = [cmds EXCEPT ![c] = @ + 1]
    /\ Own(c, "idle", to)
    /\ UNCHANGED <<listing, replaying, sent>>
\* JOIN of a channel the connection has already joined is skipped.
JoinCommand(c) == ~mine[c] /\ Command(c, "listen")
PartCommand(c) == Command(c, IF mine[c] THEN "part" ELSE "noton")
WhoCommand(c) == Command(c, "wholock")

\* Mutant: the listener is set up again by every JOIN.
StartListenerAgain(c) ==
    /\ Recv(c, "listen", "lock") /\ Quiet
    /\ lock = None
    /\ mine' = [mine EXCEPT ![c] = TRUE]
    /\ listening' = TRUE /\ seen' = {} /\ authors' = {}
    /\ ppc' = IF listening THEN ppc ELSE "fetch"
    /\ UNCHANGED <<lock, subscribers, left, fresh, listing, replaying>>

\* startThreadListener: under thread.lock, at most one poller is started.
StartListener(c) ==
    /\ Recv(c, "listen", "lock") /\ Quiet
    /\ lock = None
    /\ mine' = [mine EXCEPT ![c] = TRUE]
    /\ IF listening THEN UNCHANGED <<listening, seen, authors, ppc>>
       ELSE listening' = TRUE /\ seen' = {} /\ authors' = {} /\ ppc' = "fetch"
    /\ UNCHANGED <<lock, subscribers, left, fresh, listing, replaying>>

Subscribe(c) ==
    /\ Recv(c, "lock", "self") /\ Quiet
    /\ Acquire(c)
    /\ subscribers' = subscribers \cup {c}
    /\ fresh' = fresh \cup (IF ppc \in Looping THEN {c} \ subscribers ELSE {})
    /\ UNCHANGED <<listening, feed, ppc, left, mine, listing, replaying>>

SendSelf(c) ==
    Send(c, "self", "topic", OwnJoin(c)) /\ UNCHANGED <<listing, replaying>>

\* range thread.authors has to list what is in the map when it starts, and
\* may list what the poller adds meanwhile.
StartListing(c) == /\ must' = [must EXCEPT ![c] = authors]
                   /\ named' = [named EXCEPT ![c] = {}]

SendTopic(c) ==
    Send(c, "topic", "names", Other) /\ StartListing(c) /\ UNCHANGED replaying

\* One line per author: 353 with the nick in it in JOIN, 352 in WHO.
SendName(c) ==
    /\ \E a \in authors \ named[c] :
          /\ \/ Send(c, "names", "names", Author(c, a))
             \/ Send(c, "who", "who", Other)
          /\ named' = [named EXCEPT ![c] = @ \cup {a}]
    /\ UNCHANGED <<must, replaying>>

NamesDone(c) ==
    /\ must[c] \subseteq named[c]
    /\ Own(c, "names", "endnames") \/ Own(c, "who", "endwho")
    /\ must' = [must EXCEPT ![c] = {}] /\ named' = [named EXCEPT ![c] = {}]
    /\ UNCHANGED replaying /\ Quiet

\* Mutant: the replay stops one post early.
SendEndOfNamesShort(c) ==
    /\ Send(c, "endnames", "replay", Other)
    /\ rnext' = [rnext EXCEPT ![c] = 1]
    /\ rlim' = [rlim EXCEPT ![c] = IF posts = <<>> THEN 0 ELSE Len(posts) - 1]
    /\ UNCHANGED listing

\* The End of /NAMES line, then range evaluates thread.posts once.
SendEndOfNames(c) ==
    /\ Send(c, "endnames", "replay", Other)
    /\ rnext' = [rnext EXCEPT ![c] = 1]
    /\ rlim' = [rlim EXCEPT ![c] = Len(posts)]
    /\ UNCHANGED listing

ReplayPost(c) ==
    /\ rnext[c] <= rlim[c]
    /\ Send(c, "replay", "replay", Post(c, posts[rnext[c]]))
    /\ rnext' = [rnext EXCEPT ![c] = @ + 1]
    /\ UNCHANGED <<rlim, listing>>

ReplayDone(c) ==
    /\ rnext[c] > rlim[c]
    /\ Recv(c, "replay", "idle") /\ Quiet
    /\ lock' = None
    /\ rnext' = [rnext EXCEPT ![c] = 1] /\ rlim' = [rlim EXCEPT ![c] = 0]
    /\ UNCHANGED <<listening, feed, subscribers, pollVars, mine, listing>>

\* Mutant: PART forgets the channel's side of the mapping.
UnsubscribeOneSide(c) ==
    /\ Recv(c, "part", "parted") /\ Quiet
    /\ lock = None
    /\ mine' = [mine EXCEPT ![c] = FALSE]
    /\ UNCHANGED <<lock, listening, subscribers, left, fresh, feed, ppc, listing,
                   replaying>>

\* Lock, delete from subscribers, unlock, delete from s.threads.
Unsubscribe(c) ==
    /\ Recv(c, "part", "parted") /\ Quiet
    /\ lock = None
    /\ subscribers' = subscribers \ {c}
    /\ left' = left \ {c} /\ fresh' = fresh \ {c}
    /\ mine' = [mine EXCEPT ![c] = FALSE]
    /\ UNCHANGED <<lock, listening, feed, ppc, listing, replaying>>

\* The PART line, or 442 "You're not on that channel".
SendPart(c) ==
    /\ Send(c, "parted", "idle", Other) \/ Send(c, "noton", "idle", Other)
    /\ UNCHANGED <<listing, replaying>>

WhoLock(c) ==
    /\ Recv(c, "wholock", "who") /\ Quiet
    /\ Acquire(c) /\ StartListing(c)
    /\ UNCHANGED <<listening, feed, subscribers, pollVars, mine, replaying>>

SendEndOfWho(c) ==
    /\ Recv(c, "endwho", "idle") /\ Say(c, Other)
    /\ lock' = None
    /\ UNCHANGED <<listening, feed, subscribers, pollVars, mine, cmds, listing,
                   replaying>>
-----------------------------------------------------------------------------
(* Two goroutines at conflicting accesses of the same unguarded map or      *)
(* slice.  The Go runtime throws when it notices a concurrent map access,   *)
(* and a torn slice header points outside its array: the process may die.   *)
(* It may as well get away with either order, which the other actions do.   *)
RaceOnSubscribers(c) ==
    /\ ppc \in Looping /\ target = None
    /\ cpc[c] \in {"lock", "part"} /\ lock = None
RaceOnAuthors(c) ==
    /\ ppc = "ingest" /\ batch # <<>> /\ Head(batch) \notin seen
    /\ cpc[c] \in {"names", "who"}
RaceOnPosts(c) == ppc = "append" /\ cpc[c] = "endnames"

Dies(c) ==
    /\ alive /\ alive' = FALSE
    /\ RaceOnSubscribers(c) \/ RaceOnAuthors(c) \/ RaceOnPosts(c)
    /\ UNCHANGED <<threadVars, pollVars, recvVars, sent>>
-----------------------------------------------------------------------------
\* The poller once a poll has returned: nothing here waits for the site.
PollerWork ==
    \/ SkipSeen \/ TakeAuthor \/ AppendPost \/ TakenIn
    \/ AnnounceNext \/ AnnouncedAll \/ MirrorNext \/ MirroredAll
    \/ \E c \in Conns : Visit(c) \/ SendToTarget(c)
    \/ RangeDone
PollerStep == Fetch \/ FetchFails \/ Wake \/ PollerWork

CommandStep(c) == JoinCommand(c) \/ PartCommand(c) \/ WhoCommand(c)
JoinStep(c) ==
    \/ StartListener(c) \/ Subscribe(c) \/ SendSelf(c) \/ SendTopic(c)
    \/ SendName(c) \/ NamesDone(c) \/ SendEndOfNames(c)
    \/ ReplayPost(c) \/ ReplayDone(c)
ReceiveStep(c) ==
    \/ JoinStep(c) \/ Unsubscribe(c) \/ SendPart(c)
    \/ WhoLock(c) \/ SendEndOfWho(c)
Net(A) == A /\ UNCHANGED <<threadVars, pollVars, recvVars, view>>
SendStep(c) == Net(SendLoop(c))

Running(A) == alive /\ A /\ UNCHANGED alive

Next ==
    \/ Running(PollerStep)
    \/ \E c \in Conns :
          \/ Running(CommandStep(c)) \/ Running(ReceiveStep(c))
          \/ Running(SendStep(c))
          \/ Running(Net(OtherTraffic(c))) \/ Running(Net(ClientLeaves(c)))
          \/ Dies(c)

Spec == Init /\ [][Next]_vars

(* Fairness.  A goroutine that can step does; sync.Mutex and a channel      *)
(* serve the waiter that has waited longest, hence SF for the loops that    *)
(* lock and enqueue.  Nothing is assumed of the site (an HTTP request has   *)
(* no timeout) nor of what a client sends.  A client outside Stalled reads  *)
(* its socket, or writes to it eventually fail.                             *)
Fairness ==
    /\ SF_vars(Running(PollerWork))
    /\ \A c \in Conns : SF_vars(Running(ReceiveStep(c)))
    /\ \A c \in Conns \ Stalled : WF_vars(Running(SendStep(c)))
FairSpec == Spec /\ Fairness
-----------------------------------------------------------------------------
ThreadTypes ==
    /\ lock \in Conns \cup {None} /\ listening \in BOOLEAN /\ alive \in BOOLEAN
    /\ seen \subseteq Posts /\ authors \subseteq Authors
    /\ posts \in Seq(Posts) /\ subscribers \subseteq Conns
PollerTypes ==
    /\ ppc \in PollPoints /\ batch \in Seq(Posts) /\ joined \subseteq Authors
    /\ at \in Nat \ {0} /\ cur \in Authors \cup {None}
    /\ left \subseteq Conns /\ fresh \subseteq Conns
    /\ target \in Conns \cup {None}
ConnTypes ==
    /\ cpc \in [Conns -> ConnPoints] /\ mine \in [Conns -> BOOLEAN]
    /\ cmds \in [Conns -> 0..MaxCmds]
    /\ must \in [Conns -> SUBSET Authors] /\ named \in [Conns -> SUBSET Authors]
    /\ rnext \in [Conns -> Nat \ {0}] /\ rlim \in [Conns -> Nat]
SentTypes ==
    /\ QueueTypes
    /\ copies \in [Conns -> [Posts -> Nat]]
    /\ announced \in [Conns -> SUBSET Authors]

\* Every variable keeps its type, and no queue holds more than its capacity.
TypeOK == ThreadTypes /\ PollerTypes /\ ConnTypes /\ SentTypes

PollerAtRest == ppc \in {"fetch", "backoff", "sleep"}
Settled(c) == mine[c] /\ cpc[c] = "idle" /\ ~cancelled[c]
PostSet == {posts[i] : i \in 1..Len(posts)}

\* Replay and mirroring leave no gap between them: whenever the poller is
\* between polls and a joined connection is done with its JOIN, the client has
\* been sent every post of the backlog, whatever the interleaving of the JOIN
\* with the unlocked poller was.
NoPostLost ==
    PollerAtRest =>
        \A c \in Conns : Settled(c) => \A p \in PostSet : copies[c][p] > 0

\* NAMES and the broadcast of new authors leave no gap between them either:
\* the client knows the author of every post of the backlog.
NoAuthorMissing ==
    PollerAtRest =>
        \A c \in Conns : Settled(c) => \A p \in PostSet : AuthorOf[p] \in announced[c]

\* The backlog never holds a post twice, although polls return overlapping
\* pages and every JOIN calls startThreadListener again.
TakenInOnce ==
    \A i, j \in 1..Len(posts) : posts[i] = posts[j] => i = j

\* Racing the poller, a JOIN may replay a post that is mirrored too, and the
\* poller may still have the connection in hand from before its PART.  Three
\* copies of a post per JOIN is the most that can come of it.  (The lines that
\* overtake the JOIN line of the next JOIN belong to neither.)
AtMostThrice ==
    \A c \in Conns : ~cancelled[c] /\ cpc[c] # "self" =>
        \A p \in Posts : copies[c][p] <= 3

\* A post that was taken in reaches connection c if it is subscribed, unless
\* it fails or leaves the channel.
EveryPostArrivesAt(c) ==
    \A p \in Posts :
        p \in PostSet /\ c \in subscribers
            ~> (copies[c][p] > 0 \/ cancelled[c] \/ c \notin subscribers \/ ~alive)

\* "Mirror all posts now that no authors are missing": a client is sent a post
\* only when it has been told of its author.
AuthorBeforePost ==
    [][\A c \in Conns, p \in Posts :
         copies'[c][p] > copies[c][p] => AuthorOf[p] \in announced[c]]_vars

\* Between commands, the two sides of the mapping that JOIN calls bidirectional
\* agree: the connection has the channel iff the channel has the connection.
SubscribedWhereJoined ==
    \A c \in Conns : cpc[c] = "idle" => (mine[c] <=> c \in subscribers)
=============================================================================
