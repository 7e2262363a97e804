# Verification of awfulirc

awfulirc is a bridge between a web forum and IRC clients. It polls the forum
over HTTP and serves what it finds as IRC channels: one `#name` for each
bookmarked thread, one `##name` for each forum and one for the bookmarks, and
private messages from and to forum users. This directory holds TLA+ models of
the bridge, the TLC configurations that check them on small instances, and
proofs about them that TLAPS checks for every instance.

Paths are relative to the repository; line numbers are those of the files as
they are in it.

## 1. Inventory

### Components

| component | code | state it keeps | operations |
|---|---|---|---|
| Client connection | `connection.go:20-134`, `server.go:896-924` | `queue` (64 slots), context, socket | `enqueue`, `sendToClientLoop`, `sendPingLoop` |
| IRC stream and parser | `irc.go` | the scanner's 512-byte buffer | `NewClientMessageIterator`, `splitCRLF`, `ParseSingleClientMessage` |
| Registration | `connection.go:29-37, 144-210` | `nick`, `user`, `registered` | `onNick`, `onUser`, `onCap`, `maybeRegister` |
| Thread channel | `server.go:210-289`, `connection.go:221-264, 441-514`, `thread_representation.go` | `listening`, `seen`, `authors`, `posts`, `subscribers` of each thread; `s.threads` of each connection | the poller of one thread; JOIN, PART, WHO |
| Forum channels, bookmarks | `server.go:108-201`, `connection.go:265-306, 515-528` | `threads`, `authors`, `subscribers` of each forum; `s.forums` | the poller of a forum, `updateForumFromThreads`; JOIN, PART |
| Channel directory | `server.go:291-403, 836-883`, `well_known_threads.go` | `s.threads`, `s.shortNames`, each thread's title | `updateThreads`, `lockedMakeShortName`; look-ups by JOIN, PART, WHO, PRIVMSG |
| Private messages | `server.go:405-452`, `connection.go:43-70` | `seenPrivateMessages`, `privateMessages`, `connections` | the poller with its fan-out; `accept`; the dump that a connection starts with |
| Text conversion | `awful.go:150-178, 333-384` | none | `MessageToIRC`, `AuthorToIRC`, `IRCToAuthor` |
| Replies | `connection.go:375-435`, `awful.go:697-884` | none of its own | PRIVMSG: quote look-up, form, post |
| Page walks | `awful.go:886-960, 1141-1200` | the site's read marker, the list of the bookmarks | `ParseUnreadPosts`, `ParseAllBookmarks`, `ParseRecentBookmarks` |
| Rate limiter | `http.go:18-51` | reserved slots | `LimitedHTTPClient.Do` |
| HTML parsing | rest of `awful.go`, `dom.go` | none | `parsePosts`, `parseThreadsFromResponse`, `ParseLepersColony`, `parsePrivateMessageFolder`, `parsePrivateMessageID`, `NormalizePost` |
| Login, cookies | `awful.go:46-85`, `http.go:53-103` | the cookie jar | once, before the server listens |
| Table of forums | `server.go:454-832` | `forums`, `forumNames` | a literal, entered once |

### How they interact

Everything meets in three kinds of locks and one kind of channel.

* `server.lock` guards the tables, the private messages and `connections`.
  The poller of private messages and the dump hold it **while they enqueue**;
  so does the bookmarks' poller, during the broadcast of `##bookmarks`. LIST
  enqueues to its own client with the lock held for reading.
* `thread.lock` and `forum.lock` guard a channel. JOIN and WHO hold them while
  they enqueue. The pollers of threads and forums **do not take them at all**
  and share the maps and slices with JOIN, PART and WHO all the same.
* Each connection's `queue` is a bounded channel. Whoever enqueues waits until
  there is room or the connection's context is cancelled. The only thing that
  cancels the context is a write to the socket that fails.

The pollers are one goroutine per joined thread and per joined forum, one for
the bookmarks, one for private messages. Each connection has four goroutines:
`run`, which dumps the private messages and then waits, the receive loop, the
send loop and the PING loop. All that ask the site for something (the pollers,
and the receive loops on behalf of PRIVMSG) share one rate limiter, and the
site itself changes meanwhile: it gets posts, moves its read marker with every
page that it serves and sorts the bookmarks anew with every post.

### What is hard

* *Unlocked pollers.* A JOIN replays the backlog under a lock that the poller
  does not take. Whether a post can fall between the replay and the mirror,
  be sent twice, or be sent before its author was announced, depends on every
  step of both.
* *Go maps.* A `range` over a map that another goroutine changes may or may
  not visit what is added meanwhile, in any order.
* *Waiting with a lock in hand.* A full queue stops whoever holds the lock and
  everybody behind it. Progress rests on clients that read or fail.
* *Two paths to one promise.* Private messages reach a client by the dump and
  by the fan-out, authors by NAMES and by a JOIN line, posts by the replay and
  by the mirror, titles by JOIN and by a broadcast. Each pair can overlap or
  leave a gap.
* *Requests that fail half-way.* A walk over several pages fails after the
  first, a reply is taken and its response is lost: what was had so far must be
  kept or asked for again.
* *Pages that are read in part.* Each parser leaves out what it cannot read and
  goes on without an error, so that the caller takes a part for the whole. Status
  200 is all that is asked of an answer.
* *Names for ever.* Channel names are made from titles that change and clash,
  and clients hold on to them.
* *Streams.* The network cuts the client's bytes anywhere, and the buffer is as
  long as the longest message.

The full list, each hazard at its line with the properties that cover it, is
`hazards` in `PROJECT.json`.

### What makes each component correct

* *Thread channel*: no post and no author is missed by a client that has
  joined; a post is taken in once; it is sent a bounded number of times; both
  sides of the mapping between connections and channels agree; a post that
  is taken in arrives in the end.
* *Forum channel*: after every poll each member was told of the latest update
  of each thread, to the minute that the site prints; updates come in the order of
  time, unless a row was left out; a JOIN ends.
* *Private messages*: stored once and, unless one could not be read at first, in
  order; every client gets every message, none three times; a client that was
  accepted is added.
* *Directory*: a name leads to one thread for ever; members are shown the current
  title; reserved names are reserved; every thread can be joined.
* *Registration*: one welcome; client and server agree on the nick.
* *Stream*: the lines do not depend on how the network cuts them; parsing
  follows the grammar of messages.
* *Text*: if a message has room for text, lines fit it and no word is lost; names
  can be inverted.
* *Replies*: each message reaches the site at most once, in order; it quotes the
  latest post of the author it addresses; the client knows what failed.
* *Page walks*: no post and no thread is skipped that a failure, a damaged page or
  a post made during the walk does not explain; what can be had is had in the end.
* *Rate limiter*: the site is not sent more than the rate; nobody waits for ever.
* *Parsing*: a damaged row takes no other with it, and both views of a list of
  threads give the same threads; a post keeps its lines and words.

## 2. Modules

| modules | built on | checked by | proofs |
|---|---|---|---|
| `ClientQueue` | | the modules built on it | `ClientQueueProofs` |
| `ThreadChannel`, `ThreadChannelInvariant` | `ClientQueue` | `MCThreadChannel` | `ThreadChannelProofs` |
| `PrivateMessages`, `PrivateMessagesInvariant` | `ClientQueue`, and `PmDelivery` by INSTANCE | `MCPrivateMessages` | `PrivateMessagesProofs` |
| `PmDelivery` (abstract) | | as the property `Delivered` | `PrivateMessagesProofs` |
| `Directory`, `DirectoryInvariant` | | `MCDirectory` | `DirectoryProofs` |
| `ForumChannel`, `ForumChannelInvariant` | | `MCForumChannel` | `ForumChannelProofs` |
| `Reply` | `ClientQueue` | `MCClientSide` | `ClientSideProofs` |
| `Registration` | | `MCClientSide` | `ClientSideProofs` |
| `ClientStream` | `TextBytes` | `MCClientSide` | `TextProofs` |
| `IrcText`, `SitePages` | `TextBytes`, `IrcText` | `MCClientSide` | `TextProofs` |
| `UnreadPages`, `BookmarkPages`, `LimitedHttp`, `SiteClientInvariant` | | `MCSiteClient` | `SiteClientProofs` |

`ThreadChannel`, `PrivateMessages` and `Reply` compose a component with the
queues, sockets and contexts of the connections (`ClientQueue`). `Directory`,
`ForumChannel` and `Registration` leave backpressure out or, in the last case,
keep the one queue they are about. `MCClientSide` and `MCSiteClient` put modules
that share no state side by side: a variable `part` says which of them a
behaviour follows, and a property of one of them holds trivially while another
is followed.

### ClientQueue (`connection.go:81-134`)

Operators for one connection's queue: `Enqueue(c, Line, NoLine)` is `enqueue`,
a `select` between the channel and the context; when both are ready either may
be taken, as in Go. `Copied` and `CopyFails` are the send loop; `CopyFails`
ends it and cancels the context, and nobody empties the queue afterwards. The
queue is its depth: what a line says is an argument, an action on the history
variables of the module that sends it.

### ThreadChannel (`server.go:210-289`, `connection.go:221-264, 441-514`)

The poller (`Fetch`, `FetchFails`, `Wake`, `SkipSeen`, `TakeAuthor`,
`AppendPost`, `AnnounceNext`, `MirrorNext`, `Visit`, `SendToTarget`, ...) and
the receive loop of each connection (`StartListener`, `Subscribe`, `SendSelf`,
`SendTopic`, `SendName`, `SendEndOfNames`, `ReplayPost`, `Unsubscribe`,
`WhoLock`, ...). There is one action for each access to shared memory that the
other side can observe. A loop `for sub := range thread.subscribers` is two
sets: `left`, which the loop must still visit unless they unsubscribe, and
`fresh`, inserted during the loop, which it may visit. NAMES is the same with
`must`. `for _, post := range thread.posts` reads the slice header once, so
JOIN keeps the length it saw (`rlim`).

*Data races.* The accesses that race are named (`RaceOnSubscribers`,
`RaceOnAuthors`, `RaceOnPosts`). At each of them the model makes a choice: the
accesses happen in one order or the other, or the process dies (`Dies`), which
is what the Go runtime does when it detects a concurrent map access, or what a
torn slice header leads to. Every invariant holds in all of these cases. What
is *not* covered is a race that neither dies nor takes effect in some order.

*History.* `copies` and `announced` are what a client was sent since its own
JOIN line.

`ThreadChannelInvariant` holds the inductive invariant, `ThreadChannelProofs`
the proofs.

### ForumChannel (`server.go:108-201`, `connection.go:265-306, 515-528`)

One module for both pollers: with `bookmarks` FALSE it is the poller of
`startForumListener`, with TRUE that of `##bookmarks`, which holds
`server.lock` and takes in what it was given also when a request failed.
`bookmarks` is chosen by `Init` and never changes. `Posted` is the site: a post
makes its thread the first of the page. What the site prints of a post's time is
its minute (`Minute`, `awful.go:1582`), and this is what the poller compares
(`Moved`) and sorts by: a second post in the same minute replaces the metadata and
is not announced, and updates of one minute are told in any order. `Fetch` gets any
part of the page, since a row with a missing part is left out without an error
(`awful.go:1642`) and a page without a list is an empty one; `skipped` is the
history of the rows that were left out. `Hold`, `LookUp` and `Show` are the three
moments of JOIN's replay: the map iteration has a thread and its post in hand,
waits for `server.lock`, then enqueues. Lines are sent the moment they are
enqueued. The site's clock is assumed never to go back.

### PrivateMessages (`server.go:405-452, 896-924`, `connection.go:43-70, 320-373`)

The poller (`ListPms`, which gets any part of the inbox in chronological order,
since a row that cannot be read is left out, `awful.go:1391`; `Body` or `BodyFails`, `Store`
under `server.lock`, `FanOut` to each connection, `FannedOut`), the accept loop
(`Accept` starts the connection's goroutines, `Register` adds it to
`connections` under the lock) and the dump (`StartDump`, `SendDump`,
`DumpDone`, under the lock). LIST is `StartList`, `ListLine` and `ListLast`: a
reader of the same lock that enqueues while it has it. `missed`, the messages whose
row was once left out or whose body was refused, and `early` are history.

`PmDelivery` is what all this promises, without locks, queues and polls: a
message becomes known and is owed to all members; a connection begins and is
owed what is known; all that is owed is paid, or forgiven to a client that is
gone, before anything else is delivered. `PrivateMessagesInvariant` maps the
one to the other (`Delivery`): what is owed is `left` of the fan-out and
`pending` of the dumps. It also holds the inductive invariant.

### Directory (`server.go:291-403, 836-883`)

A channel name is a sequence of words. `Words[title]` is what cleaning leaves
of a title; the character classes are abstracted, and that splitting the empty
string gives one empty word is kept, since it matters. `lockedMakeShortName`
is the first candidate that is free: every prefix of the significant words,
then the first word with a number. `UpdateThreads` ... `RowsDone` walk the rows
of a bookmark list, with one step per row (`AddThread`) or per subscriber
(`Broadcast`). JOIN holds `thread.lock` from `Subscribe` to `Joined`. `Entered` is
what a write to a map leaves. What a client was last sent about a title (`told`) is
the topic line of its JOIN or the three bare lines that `Broadcast` enqueues, which
are no TOPIC (`TopicLine`, `BareLines`).

### Registration (`connection.go:144-210`)

Commands in the order the client sends them, the queue as a sequence of lines,
private messages from the dump and the fan-out, and a client that follows
`001` and `NICK` lines. `OnNick` enqueues the NICK line and `SetNick` sets the
nick: two other goroutines can read it in between. They do so in one step and
enqueue in another: `Dump` and `FanOut` format the message with the nick
(`connection.go:66`, `server.go:439`) and have it in `hand` until `PutMessage`,
while NICK and USER may put lines of their own. `names` is the history of the nicks
that the client was told, `namings` counts the lines that tell it. A nick that was not given is the empty
string, as in the code (`NoName`).

### ClientStream, IrcText, TextBytes (`irc.go`, `awful.go:150-178, 333-384`)

Pure code over classes of bytes. `ClientStream` is the scanner: the network
delivers any number of bytes that fit the buffer, the client closes, lines are
split off and parsed. The references are independent of the code: the whole
stream cut at once (`Served`), and a grammar of messages (`Grammar`) that looks
for the spaces and colons around the parts of a line, where the code goes through
its bytes with a state in hand. `IrcText` enumerates every body and name up to a
bound, with any room for text in a message (`messageLen`): it is 512 less a prefix
with a nick of the client's choice, so that it may be 0, when the loop that cuts words
does not end, or less, when the slice panics. `Returns` says for which bodies the
conversion comes to an end. A name may have a comma, which is not escaped and at
which `Recipients`, the targets of a PRIVMSG, are split. Loops over bytes and words are folds (`Run`), without RECURSIVE operators.

### Reply (`connection.go:375-435`, `awful.go:697-884`)

The receive loop with a PRIVMSG in hand: `FindThread`, `LookUpAuthor` and
`FindPost` for a channel, then the two requests of `ReplyToThread` (`FormArrives`
or `FormFails`; `PostAccepted`, `PostIgnored`, `PostFails` or `PostResponseLost`), `SendPm` for
a nick, `NoSuchTarget` for neither, and so on with the next target. The poller
enters an author and then his post (`EnterAuthor`, `AppendPost`) between any two
of these. `site` is what the site has accepted, `told` what the client was sent a
401 or 404 for, `lost` the replies that were accepted without a response, and
`ignored` those that the site did not take although it answered with status 200,
which is all the code asks for (`awful.go:879`). A message is whom it addresses.

### UnreadPages, BookmarkPages (`awful.go:886-958, 1136-1193`, `server.go:238-288, 836-883`)

The two walks over pages, each with the site it walks over. In `UnreadPages` the
site has posts and a read marker, which moves when a page is served, also when
the response is lost. The thread has any number of posts to begin with. `TakePost`
is one round of the loop that takes the posts in hand into the backlog. What a page
parses to is `Parses`: all of it (`PageArrives`), or, from a damaged page
(`DamagedPageArrives`), any part of the posts and the page numbers or -1, without an
error (`awful.go:1020, 1038, 1133`). `BadPageArrives` is a page without a thread, which
ends the walk without an error either. `RequestFails` drops the posts in hand as the
poller does, and the site may have served the page all the same. What is missing has a
history for each reason: `unread` (a page that was served did not parse to it),
`lost` (the response did not come), `dropped` (the walk had it in hand when a later
request failed); `astray` says that a walk whose first page had no page numbers
went on to page 1 of the thread.

In `BookmarkPages` the site has a list that `Bump` sorts anew; a page may be
unreadable with an error, incomplete without one, another page altogether, or not come
at all. `excused` is the history of the threads that a walk need not have found: those
that were bumped during it, and what was left out without an error.

### LimitedHttp (`http.go:18-51`)

`Ask` reserves, `Send` is the timer, `GiveUp` the context, `PeriodPasses` the
clock together with the refill of the bucket. `level` measures from outside how
close together the requests were sent.

### SitePages (`awful.go:183-329, 420-693, 960-1328, 1330-1774`, `dom.go`)

The parsers, as walks over trees of nodes. A node carries the tag or attribute
that the code asks for, the field that is read from it (a number, `Missing` or
`Bad`) and children. The second half of the module renders the rows of a page
the way the site does in each view that the code names in its comments
(external), and the properties say that parsing what was rendered gives the
rows that were whole. `NormalizePost` is a fold over the nodes of a post and the
loop that removes blank lines, at most once for each byte. `DeepText` follows first
children for at most `MaxDepth` levels, in place of a loop that may not end.

## 3. Runs

| run | question | bounds | distinct states |
|---|---|---|---|
| `Directory` | JOIN and PART interleaved with an updater that adds and renames three threads, whose titles clash with each other, with a number suffix, with a hint and with lc: each name belongs to one thread for ever, both sides of the mapping agree and every subscriber has been shown the current title. (`TablesHold`, `MappingAgrees`, `TitleShown`, `NamesPermanent`) | 1 connection, 3 threads and `#lc`, 4 titles, one hint | 1,874,851 |
| `ForumChannel` | Two JOINs, by one connection or by two, of a forum or of the bookmarks, in every interleaving with the poller, which may not get any row of a page, and posts of which two may have one minute: no update or author is missed, updates come in the order of time but for rows that were left out, one listener is started, and the JOIN ends although it needs server.lock under forum.lock. (`NoUpdateLost`, `NoAuthorMissing`, `MappingAgrees`, `PollerInOrder`, `JoinEnds`) | 2 connections, 2 threads; 2 posts in different minutes and 2 JOINs, or a third post in the minute of the second and 1 JOIN | 1,006,170 |
| `ClientSide` | What lies between one client and the site: every stream of commands and every way to cut it, NICK, USER and CAP against private messages, replies whose requests fail at any point, every page of up to two rows with any of their fields damaged, every post of four nodes, every body and every name up to the bounds. (`CutsDoNotMatter`, `ParsesByGrammar`, `BodyConverted`, `AuthorsInvert`, `PagesParsed`, `PostNormalized`, `NickAgrees`, `PmAddressed`, `QuotesLatest`, `AcceptedInOrder`, `ClientKnows`) | stream: buffer of 7, streams of up to 8 bytes; text: bodies of 8 bytes, room for 3, 0 and -1, names of 4; pages: 2 rows, 4 nodes with 2 levels below; nick: 4 commands, 2 private messages, 2 nicks and the empty one, queue of 3; reply: PRIVMSGs of 2 targets and of 1, 3 posts, queue of 1 | 1,811,944 |
| `PrivateMessages` | Two connections are accepted in every interleaving with the poller, whose list and bodies may fail, and whose list may leave out rows, at any time: the inductive invariant of the proofs holds, messages are stored once and in order unless one was missed when it was listed first, who is in server.connections before its dump begins gets all of them, and every step is one of the abstract deliveries or none. (`IInv`, `EarlyGetsAll`, `ChronologicalUnlessMissed`, `Delivered`) | 2 connections, 2 messages, no LIST, queue of 1 | 894,586 |
| `PrivateMessages_live` | A connection that sends a LIST at any time, next to the poller and the accept loop: with clients that read or fail, an accepted client is added and a message in the inbox reaches it, if its row and its body can be read in the end. (`AcceptedIsAdded`, `EveryPmArrives`) | 1 connection that may LIST, 2 messages, queue of 1 | 41,095 |
| `PrivateMessages_lost` | A message stored between the dump of a connection and its registration reaches it neither way. (`NoPmLost`) | 1 connection, 2 messages, queue of 2 | violation |
| `PrivateMessages_stalled` | A client that keeps its socket open and unread holds server.lock through whoever enqueues to it, and the accept loop waits for ever. (`AcceptedIsAdded`) | 2 connections, one stalled, 1 message, queue of 1 | violation |
| `ThreadChannel_rejoin` | One connection that JOINs, PARTs, WHOs and JOINs again in every interleaving with the poller: the inductive invariant of the proofs holds, no post and no author is missed, one poller takes each post in once, both sides of the mapping agree, and how many copies a race can produce. (`IInv`, `NoPostLost`, `NoAuthorMissing`, `AtMostThrice`, `TakenInOnce`, `SubscribedWhereJoined`) | 1 connection, 2 posts of 2 authors, 5 commands, queue of 2 | 1,419,893 |
| `ThreadChannel_two` | Two connections contend for the lock, the listener and the poller: two JOINs start one poller, which takes each post in once, and, when every client reads its socket or fails, a post taken in reaches each of them although one goroutine serves them all through bounded queues. (`TakenInOnce`, `EveryPostArrives`) | 2 connections, 1 post, 1 command each, queue of 1 | 386,763 |
| `ThreadChannel_order` | A JOIN that subscribes while the poller is past its author broadcast gets posts before NAMES has told it of their authors. (`AuthorBeforePost`) | as `ThreadChannel_rejoin`, 3 commands | violation |
| `SiteClient` | The poller walks the unread pages of a thread, the updater the pages of the bookmarks, and three goroutines share the rate limiter, while the site receives posts, requests fail and damaged pages leave out posts, rows and page numbers: nothing is skipped that a failure or a damaged page does not explain, and everything else is had in the end. (`NothingSkipped`, `QuietThreadsFound`, `RateKept`, `PostsTaken`, `BookmarksTracked`, `RequestsSent`) | posts: 6, on pages of 2, 2 requests that go wrong; bookmarks: 5, on pages of 2, 3 posts in them, 1 request that goes wrong; limiter: 3 callers, 1 of them on a context, burst of 2 | 467,466 |
| `SiteClient_dropped` | A walk over two pages whose first page arrives and whose second request fails: the poller drops the posts of the first, which the site counts as read, and no later walk asks for them. (`DroppedTriedAgain`) | 3 posts, on pages of 2, 1 request that goes wrong | violation |

All *pass* runs explore the whole state space of their instance, that of
`ForumChannel` under the constraint `FewJoins` on what the site and the clients do,
whose steps have no fairness.

### Bounds, and why they are enough

* *Connections*: two wherever connections contend (for a lock, a listener, the
  poller's attention); one where the question is the race of one connection
  with a poller, so that the rest can be larger. Symmetry is declared for the
  safety run of `PrivateMessages` only. In `ThreadChannel_two` the two
  connections are alike, so that `EveryPostArrives` of one says it of both.
* *Posts, messages, threads, updates*: two of each give an old and a new one in
  one poll or in two, of one author or two. In `ForumChannel` a page may lack
  any of its rows; the third post shares its minute with the second, in one thread
  or in two, and is made while at most one JOIN has been sent (`FewJoins`), since all
  three posts and both JOINs together are six times as many states. One author is
  enough for NAMES and the broadcast to divide. Two messages of one author are
  enough for one that was missed at first to be overtaken.
* *Threads and titles of `Directory`*: the hint `foo`, two titles that begin with
  it, the number suffix `foo-0` as words of a title, an article in front, the
  reserved `lc`, and a title of symbols; three threads to claim them.
* *Queue capacity*: 1 to 3 instead of 64. A smaller queue blocks more often and
  in more places, and no step depends on the number otherwise. The proofs are
  for every capacity.
* *Commands*: JOIN, PART, JOIN, PART, JOIN, or fewer of them with WHO in any
  place, in `ThreadChannel_rejoin` (two JOINs are not enough for the lines that
  overtake the next JOIN line to add up); two JOINs, of one connection or of two, in
  `ForumChannel`; NICK, USER, CAP and another in every order in `Registration`;
  a PRIVMSG with two targets of every kind and one with a single target in
  `Reply`. LIST is left out of `PrivateMessages`, where it multiplies the states
  by five and changes nothing that the invariants speak of; `PrivateMessages_live`
  has it, and the proofs are for any number of LISTs.
* *Buffer of the scanner*: 7 bytes instead of 512, and streams of 8 that
  overflow it. *Room for text in a message* (`Rooms`): 3, so that bodies of 8 bytes
  give a word that fills more than two lines, 0 and -1.
* *Pages*: two or three posts on the page boundary, six posts on three pages, so
  that a walk has a first page, one in the middle and a last one; five bookmarks
  on three pages. *Requests that go wrong*, damaged pages among them: up to two in a
  row or apart, at any request. That the number is bounded is the only fairness assumed of the site.
* *Rows*: two, with every combination of damaged fields in each; one row decides
  alone, and two show that it takes no other with it. *Nodes of a post*: four, of
  every kind. *Levels below a node* (`MaxDepth`): 2, the depth of the text of a
  quote; a node that would need more is one that the loop does not leave, and has
  no state here.
* *Limiter*: a bucket of 2 tokens for 3 goroutines, so that one of them always
  has to wait; a timer may be a period late.
* *Deadlock* is checked in `Directory`, `ForumChannel`, `PrivateMessages` and
  `SiteClient`, whose pollers never stop. It is not in `ClientSide` (the stream
  ends, the client has sent all its commands, the texts and pages are
  enumerated), nor in `ThreadChannel`, where a data race may end the process.

### Fairness

`FairSpec`, used by the runs of liveness properties, and `Spec` of
`MCSiteClient` have fairness, the others none.

* A goroutine that can step does (the Go scheduler is preemptive). A mutex and
  a channel serve the goroutine that has waited longest (`sync.Mutex` has a
  starvation mode, the wait queues of channels are FIFO), hence strong fairness
  for the loops that lock or enqueue.
* A client outside `Stalled` reads its socket, or writing to it fails in the
  end: weak fairness of the send loop. Nothing is assumed of clients in
  `Stalled`; the runs that use them show what one such client does.
* Nothing is assumed of what clients send, nor, in `ThreadChannel` and
  `ForumChannel`, of the site: an HTTP request has no timeout. `EveryPmArrives` needs
  a site that gives each message again and again, its row in the list and its body,
  which `SiteAnswers` states separately: a row that never parses is none of its
  messages. A LIST has finitely many lines (strong fairness of `ListLast`).
* The walks of `UnreadPages` and `BookmarkPages` are weakly fair in what succeeds;
  failures need no fairness and are bounded in number.
* Time passes and a timer that is due fires (`LimiterFairness`).

## 4. Where code and comments differ

Four runs expect a violation: the code does not do what its own comment says.
`findings` in `PROJECT.json` quotes the comments.

* `ThreadChannel_order`: a JOIN during a poll can be sent a post before it is
  told of its author.
* `PrivateMessages_lost`: `accept` starts the dump before it adds the
  connection; a message stored between the two is never sent to it.
* `PrivateMessages_stalled`: a client that neither reads nor closes its socket
  stops the fan-out with `server.lock` held, and with it `accept` and nearly
  every command. (A client like that stops the poller of each thread it has
  joined as well.)
* `SiteClient_dropped`: the first page of a walk arrives, the request for the second
  fails, and the posts of the first are dropped with it (`awful.go:910`,
  `server.go:240-247`); "try again later" asks for what is unread, and the site counts
  them as read.

Others were met while modelling. The models do what the code does; these need
no run to be seen.

* `server.go:382` passes a format and its arguments to `enqueueLines`, which
  takes lines: a changed title is sent as three lines, none of them a TOPIC
  message, although line 374 speaks of a channel topic update (`BareLines` in
  `Directory`). The client is shown the new title, and its topic stays the old one.
* `awful.go:334`: the room for text in a message is 512 less a prefix, which for a
  private message has the nick that the client chose (`connection.go:66`). With no room
  left, line 359 cuts a word by 0 bytes for ever, with `server.lock` held by the dump
  or the fan-out; with less, line 360 panics (`Returns` in `IrcText`).
* `server.go:121`: times are known to the minute (`awful.go:1582`), so that a second
  post in the same minute is never announced in a forum (`Moved` in `ForumChannel`).
* `awful.go:879`: any answer with status 200 is a reply that was posted, although the
  comment at line 78 says that the site always answers so (`PostIgnored` in `Reply`).
* `awful.go:1020, 1038`: posts that cannot be read are left out, and nothing returns
  that there were some; the site counts them as read (`DamagedPageArrives` in
  `UnreadPages`). The same goes for rows of a forum (`awful.go:1642`) and of the
  private messages (`awful.go:1391`), which a later poll gets if they can be read then.
* `awful.go:536`: the id of an entry of the leper's colony "should be unique enough": it
  is its minute and four digits of a post id, 0 without a post, so that two entries
  without one in a minute are one to the poller (`LeperId` in `SitePages`).
* `awful.go:151`: a comma in an author's name is not escaped, and `connection.go:386`
  splits the targets of a PRIVMSG at it: a reply to such an author goes to the parts
  of the name (`AuthorsInvert` in `IrcText` says so).
* `server.go:318`: splitting the empty string gives one empty word, so a title
  without letters or digits is named `""`, which JOIN refuses, and the
  placeholder `empty-0` is only given to titles of articles alone.
* `server.go:389`: `lockedMakeShortName` "assumes already locked", but
  `server.lock` was released at line 369.
* `irc.go:269`: a CR that ends nothing hides every CR LF behind it.
* `irc.go:80`: a line of 512 bytes without its end makes the scanner fail, so
  the branch for `ErrMessageTooLong` cannot be taken and the iterator ends
  (`Served` in `ClientStream` says what is served then).
* `connection.go:152`: `NICK :` gives a registered connection the nick `""`;
  `emptied` in `Registration` marks that it happened, and its properties about the
  nick speak of the connections where it did not.
* `server.go:439`: the fan-out uses `nick` and not `nickArgument`, so a private
  message before NICK has an empty target (`FanOut` in `Registration`).
* `dom.go:20`: `extractTextFromDeepChild` does not return from a node without
  children that is no text (`DeepText` in `SitePages`).
* `connection.go:427`: a private message that could not be sent is logged, and the
  client is told nothing (`SendPm` in `Reply`).
* `awful.go:1488`: a page that is not the list of bookmarks, with status 200, parses
  as an empty list of one page without an error, which ends "until the initial
  parse succeeds" (`server.go:839`) with the threads so far (`OtherPageArrives`).
* `awful.go:1152`: `errors.Join(err)` drops the errors of the pages before; that
  there was one is all that its caller looks at (`failed` in `BookmarkPages`).

## 5. Proofs

The theorems hold for every value of the constants that their modules allow:
any number of connections, messages, posts, pages, failures and commands, any
queue capacity, any page size and rate, streams, lines, bodies, names and pages of
rows of any length, any size of the scanner's buffer, and any room in a message, none
included. The
assumptions are those the modules name and TLC evaluates with every run
(`QueueAssumption`, `ConstAssumption`, `ReplyAssumption`,
`RegistrationAssumption`, `UnreadAssumption`, `BookmarkAssumption`,
`LimiterAssumption`, `LiteralAssumption`, `BytesAssumption`, `TextAssumption`,
`StreamAssumption`, `PagesAssumption`): the constants are of their types, a
role is no connection, what is not there is not a value, the five classes of
bytes differ, the scanner's buffer has a positive size, the minutes of posts do not
decrease, and a text may be two levels down.
Four of them ask for finite sets, since something is counted: the threads of
`Directory` (the numbers that names end in), the bookmarks (the pages of their
list), the callers of the limiter (how many requests wait), and the threads of
`ForumChannel` (how many are before one on a page). One theorem has a hypothesis
about the code's data, `HintsDistinct`, see *Directory*.

| module | theorem | property |
|---|---|---|
| `ThreadChannelProofs` | `TypeCorrect` | `TypeOK`: types, and no queue over its capacity |
| | `Inductive` | `IInv` is an invariant |
| | `NoPostIsLost` | `NoPostLost` |
| | `NoAuthorIsMissing` | `NoAuthorMissing` |
| | `EachPostTakenInOnce` | `TakenInOnce` |
| | `MappingAgrees` | `SubscribedWhereJoined` |
| | `NoMoreThanThree` | `AtMostThrice` |
| `PrivateMessagesProofs` | `Inductive` | `IInv` is an invariant |
| | `EarlyConnectionsGetAll` | `EarlyGetsAll` |
| | `EachPmStoredOnce` | `StoredOnce` |
| | `MessagesChronological` | `ChronologicalUnlessMissed` |
| | `ServerDelivers` | `Delivered`: the refinement of `PmDelivery` |
| | `DeliveriesCounted` | `AtMostTwice` of `PmDelivery`, for the abstract deliveries |
| | `NobodyGetsThree` | `AtMostTwice` of `PmDelivery`, for the server |
| `ForumChannelProofs` | `Inductive` | `IInv` is an invariant |
| | `NoUpdateIsLost` | `NoUpdateLost` |
| | `NoAuthorIsMissing` | `NoAuthorMissing` |
| | `MappingsAgree` | `MappingAgrees` |
| | `OrderInductive` | `OInv` is an invariant |
| | `PollerTellsInOrder` | `PollerInOrder`, an action property |
| `DirectoryProofs` | `NameFree` | `lockedMakeShortName` makes a name that nobody has |
| | `Inductive` | `IInv` is an invariant |
| | `NamesArePermanent` | `NamesPermanent`, an action property |
| | `MappingsAgree` | `MappingAgrees` |
| | `TitlesShown` | `TitleShown` |
| | `TablesAlwaysHold` | `TablesHold` |
| `SiteClientProofs` | `BacklogComplete` | `NothingSkipped` |
| | `BookmarksFound` | `QuietThreadsFound` |
| | `LimiterInductive` | `LimiterInv` is an invariant |
| | `RateIsKept` | `RateKept` |
| `ClientSideProofs` | `RepliesInOrder` | `AcceptedInOrder` |
| | `RepliesQuoteLatest` | `QuotesLatest` |
| | `ClientIsTold` | `ClientKnows` |
| | `NickIsKnown` | `NickAgrees` |
| | `MessagesAddressed` | `PmAddressed` |
| `TextProofs` | `CutsServeTheBytes` | `CutsDoNotMatter` |
| | `LinesParse` | `ParsesByGrammar` |
| | `BodiesConvert` | `BodyConverted` |
| | `NamesComeBack` | `AuthorsInvert` |
| | `PagesAreParsed` | `PagesParsed` |
| | `PostsNormalize` | `PostNormalized` |

Each proof has one step per action and below it one per conjunct that the action
can disturb; lemmas for `Enqueue`, `SendLoop` and `ClientLeaves` are in
`ClientQueueProofs`. TLC checked each inductive invariant before it was proved, on
the instances of the runs and on these:

| invariant | instance | distinct states |
|---|---|---|
| `IInv`, `OInv` of `ForumChannel` | 1 connection, 3 threads on pages of 1, 4 posts of which two share a minute, 1 JOIN | 7,788,434 |
| `IInv`, `Reserving` of `Directory` | 2 connections, 2 threads, 2 well-known rows | 2,347,487 |
| `IInv`, `OInv` of `PrivateMessages` | 1 connection, 4 messages | 2,902,237 |
| `UnreadInv` | pages of 3, 6 posts, 2 requests that go wrong | 756,932 |
| `BookmarkInv` | 4 bookmarks on pages of 1, 2 requests that go wrong | 161,522 |
| `LimiterInv` | burst of 3, timers up to 2 periods late | 22,928 |
| `LimiterInv` | 5 callers; burst, lateness and givers-up (2,1,3), (1,0,2), (3,2,2), (1,2,3) | up to 1,716,621 |
| `NickInv`, with the views computed | 4 commands, 2 private messages, nicks `ann`, `*`, `none` and the empty one | 1,223,485 |
| `StreamInv` | `ClientStream` alone, with the streams of `ClientSide` | 120,850 |

### Thread channels

None of the properties is inductive, since they only speak of moments when the
poller and a connection are at rest. `IInv` says for every moment who still
owes what to whom:

* `LockHeld`: a connection is inside JOIN or WHO exactly when it holds
  `thread.lock`, so that two replays never overlap;
* `Membership`: how `s.threads` and `subscribers` differ at each program point;
* `Indices`: where the indices of the poller and of each replay are in the
  backlog; between polls the poller has mirrored all of it;
* `TakenIn1`: what is in the backlog has been seen, so that `SkipSeen` keeps it
  from being taken in twice;
* `PostsOwed`: every post of the backlog was sent to each subscriber, or is
  ahead of the index at which its JOIN replays, or at or ahead of the index at
  which the poller mirrors with the subscriber still to visit;
* `AuthorsOwed`: every author is known to each subscriber, or is still to be
  listed by its NAMES, or still to be broadcast by the poller;
* `AuthorsKnown`: the authors of the backlog are in the map.

`CopiesBounded` is the invariant behind `AtMostThrice`. Three debts can be open
for a post and a connection, each for one copy: the replay of the JOIN, the
poller that has the connection in hand from before a PART, and the visit of this
range loop or a later one. What was sent and what is to come is at most three.
The bound counts from the JOIN line on. Between the `Subscribe` of a JOIN and its
line the poller may send copies that no longer fall under the previous JOIN;
counted from there, a client that parts and joins again can see a fourth
within five commands, which is why `ThreadChannel_rejoin` has as many.

### Forum channels

`IInv` of `ForumChannelInvariant` is again a matter of debts. `UpdatesOwed`:
if a subscriber was not told of a thread as late as the forum knows it, to the
minute, then `news` has an update of that minute, or it is the line that the
poller has in hand with the subscriber still to visit, or its JOIN has yet to
show it; `AuthorsOwed` says it of authors. The debt is one of minutes: a second post in
a minute changes what the forum knows and owes nobody anything. `InHand` and
`Bounded` tie what the poller and the replays have in hand to what the forum knows,
`LockHeld` and `Membership` are as for threads. A JOIN that looked up a thread shows
the post it had in hand, which may be older than what is known by now: the newer one
is in `news` then, since the poller took it in after the JOIN had subscribed.

`OInv` is about the order. A poll takes in the rows of the page that are new to
it, sorted, so it suffices that whatever is still to be told is as late as all
that was told, or is a row that was left out before (`TellsForward`). What makes this
inductive is `NoneOvertaken`: when a thread of the page now has a post no later than
one the poller took in, the poller has taken in that one, too, or a poll did not get
its row (`Caught`). It holds since a page is the latest threads. The property is one
of the bookmarks as well as of the forums: what a failed request did not bring is a row
that was left out.

### Private messages

`IInv` of `PrivateMessagesInvariant` is about `server.lock`:

* `LockHeld`: the fan-out and the dumps hold it, one at a time, and while they do
  no LIST reads;
* `SeenThenStored`: the message in hand is marked as seen and not stored before
  `Store`, and stored during the fan-out, so that it is stored once;
* `DumpOwes`: only a dump in progress has anything pending, and all of it is
  stored;
* `Owed`: a connection that was added before its dump began lacks no stored
  message that its dump, or the fan-out in progress, does not still owe it.

With it each step is one of `PmDelivery` or none: `Store` is `Learn`, `Register`
is `Join`, `StartDump` is `Dump`, a line that is enqueued is `Pay`, one that is
dropped with the context is `Forgive`, a context that is cancelled is `Leave`, and
every other step changes nothing that is mapped. That a delivery starts only when
nothing is owed is what the lock is for. `NobodyGetsThree` is proved about the
abstract specification, where a message is owed to a connection once for being
new and once for the dump (`DeliveriesCounted`), and carried over by the
refinement.

The order of the stored messages needs `OInv`: the list in hand is in the order of the
inbox, everything before what is left of it was seen or missed (`Walked`), and whatever
is older than a stored message is stored or was missed (`Settled`).

### Directory

`IInv` of `DirectoryInvariant`: who holds which lock at which program point
(`UpdaterPlace`, `LocksHeld`), that the two tables are inverse to each other
(`TablesAgree`), that what a connection has joined is entered under the server's
names (`Entries`), and that the holder of a thread's lock owes the title to
those who were not shown it (`TitlesOwed`).

`NameFree` is what a comment of `lockedMakeShortName` claims, "guaranteed to
eventually work": among the candidates that end in a number there is one more
than there are names, and the numbers differ, so one of them is free
(by counting). `TablesAgree` and `NamesArePermanent` follow: a name is only entered
when it is free.

`TablesHold` also says that the well-known threads have their hints as names, and
`#lc` its own. This needs the hints in `well_known_threads.go` to differ from each
other and from `lc` once they are cleaned, as `awfulirc`, `legends` and `sad` do; a
comment there allows hints that are not unique. `HintsDistinct` is a hypothesis of
`TablesAlwaysHold` about a literal in the code, which `MCDirectory` assumes of its
instance, so that TLC evaluates it. `Reserved` is the state after so many rows
of the list; `Reserving` says that the updater is on its way through it or done,
and that nothing but what it entered is in the tables before that.

### Page walks

*Unread posts.* `NothingSkipped` says that the backlog is in order, each post once,
and that a post the site counts as read since the start is in the backlog or in the
hands of the walk, or there is a reason that it is not: it could not be read on its page
(`unread`), the response did not come (`lost`), or a later request failed (`dropped`). A
post that could not be read at first may follow later ones, since the last page is
served again. `UnreadInv` adds what the walk has in hand: `Reached`, the
site has served the pages before the one that the walk goes on to; `InTurn`, the batch is
in order and of earlier pages than that one; `PagesWhole`, whoever has a post has the
posts before it on its page, but for those that could not be read; `NewIsLater`,
what is new to the backlog is later than all of it, with the same exception. The loop
looks at one post at a time and never sorts: the order of the backlog rests on the last
three, also when a walk is served posts that it has. They hold until a walk goes
`astray`: then the backlog still has each post once and no post is skipped, in whatever
order.

*Bookmarks.* The walk goes from the first page to the last while posts move threads
to the front. `WalkCovers`: a walk without an error has found every thread that is
before the next page now, apart from those with an excuse. A thread that is not
bumped only moves back in the list, towards the pages that are still to be read, so
that none slips past the walk; and no walk ends before the last page without an
error, unless it lacks no thread.

### Rate limiter

`RateKept` says that the requests sent keep to the rate, give or take a burst and
the lateness of timers, and that nobody waits for more than those who wait as
well and the reservations that were given up. `LimiterInv` turns it into
counting: the reservations ahead are held by callers that wait or gave up
(`Reserved`), no two of them are for the same period (`Slots`), between any two
periods there are at most as many timers due as periods and a burst (`Spread`),
and what was sent with what is due by any time keeps to the rate (`Rated`). The
proof counts sets of callers with `FiniteSetTheorems`. TLC checks it over a bounded
range of periods, which is what `LimiterInvOver` is for.

### Replies

`AcceptedInOrder` needs that what was accepted was the turn of an earlier target
than the one the loop is at (`EarlierTurns`), or of this one while the loss of its
response is still to be told. `QuotesLatest` needs that the backlog at the time of
the command is part of the backlog that is searched, which only grows, and that
the greatest index of a finite set exists (`Largest`, by well-founded induction).
`ClientKnows` adds that the client is told only of targets whose turn is over
(`ToldPassed`), and of one that was accepted only after its response was lost
(`TellsOfLost`). It excuses the replies that the site answered and did not take
(`ignored`): of those the client is told nothing.

### Nicks

The server and the client agree about the nick only when the queue is empty, so
the invariant (`NickInv`) speaks of the client's view after each line of the
queue: `v[i]` is what the client will know when it has read `i` lines
(`Foresees`). The last view is what the server knows, or has the nick that the
server is about to set (`UpToDate`). A private message, in the queue or still in the
hand of the dump or the fan-out, is addressed to the last nick that the client was told
by the lines that had been put when the message was formatted (`namings`), or to the
one before that; the client may have been told of others since. Of a message that was
formatted before the welcome was put nothing is said. To put a line is to add a view
(`OneLine`), to read one is to drop the first. The views
are a function that is said to exist, not one that is computed, since they follow
the queue by recursion.

### Streams and texts

What pure code computes is a matter of induction over its input, and the theorems
of the library that do that take an operator, which the provers cannot instantiate.
`TextProofs` has them with data in place of operators: a property is a set
(`NatAll`, `SeqAll`: a set that has the empty sequence, and with a sequence each
that is one longer, has all), the step of a fold is a function (`Fold`, with
`FoldNone`, `FoldOne`, `FoldTyped`). For each fold of the models one lemma,
`...Grows`, says that it is such a fold: what it gives for the empty sequence and
what one more element adds. The lemmas about a fold are inductions on that.

*Streams.* `StreamInv`: the lines yielded so far are the pieces of the first `start`
bytes of the stream, none of which the scanner is stuck at. A line that is found is the
next piece (`NextPiece`), and where the scanner ends without one, because its
buffer is full or the stream is over, cutting the stream finds none either
(`NoMore`). How the bytes arrived is not in the invariant.

*Parsing.* The invariant of the loop over the bytes of a line is `Inside`: which part
the parser is in, where that part began, and that it has no space. The
arguments of the grammar are found from a space to the next, by well-founded
recursion on where they begin; the parser's list with the rest of the grammar's is
the same after each byte.

*Bodies.* `BodyConverted` is about every room for text: the conversion returns for every
body if there is some, for the bodies without a word if there is none, and for no body
if there is less. Where there is some, `AddWordKeeps`: the lines, with the one that is
being filled, have the bytes of the words so far, and each fits; a word that does not fit
is cut into whole messages and a remainder (`WordCut`). *Names.* `IRCToAuthor` takes back what
`AuthorToIRC` makes of each byte (`EscapeInverts`), and so of the name. The escaped name
has none of the bytes that end a prefix or a parameter, but it has the commas of the
name: a PRIVMSG to it goes to the parts of the name between them.

### Pages

*Walks.* Each page is followed down the way the parser goes: `BelowIn` for a node in a
node, `KidsOfTwo` and `KidsOfThree` where there are siblings, `RowsFound` for the
rows. What is left is that what a parser asks of a row is that the row is whole
(`WholeRows`), one case per view.

*Posts.* A text has the lines of its part before a newline and those of the part after
it (`TextLinesCut`). From this follow that `TrimSpace` keeps the lines (`TrimKeeps`),
and that replacing two newlines by one does (`HalvingSame`, for texts that have the
same lines whatever is added to both). A round that finds a blank line takes at least
one byte off (`HalvingShort`), so that after as many rounds as there are bytes none
is left (`UnblankIs`): the loop in the code ends.

### Only model-checked

Liveness (`EveryPostArrives`, `EveryPmArrives`, `AcceptedIsAdded`, `JoinEnds`,
`PostsTaken`, `BookmarksTracked`, `RequestsSent`): fairness and `ENABLED` are out of
the prover's reach. Every invariant and every action property of the passing runs
is a theorem, and so is the refinement.

## 6. What is not modelled

* *Login and cookies, the table of forums, the entry point*: run once before
  anything else, and hold nothing that changes.
* *ISON, WHOIS, PING, MOTD*: reply with what they were asked. Their lines are the
  `OtherTraffic` of `ClientQueue`.
* *The leper's colony* (`#lc`) is a thread channel with another source of posts,
  whose pages and ids are in `SitePages`. That its listener is started by a
  goroutine of its own, which a JOIN can overtake, is a listed hazard without a
  property: which poller a thread has is not part of a module.
* *The site beyond what the code asks it for*: posts that are deleted, bookmarks
  that are added or removed, an account that reads threads elsewhere as well, a clock
  that goes back (the hour in autumn that the site prints twice).
* `ParseLastThreadPosts`, which nothing calls.
* `html.Parse` and the conversion of a page to UTF-8; the time formats; the fields
  of the forms that are posted.
* The table that maps command names to `Command` values; the wording of lines.
* One composition: `thread.lock` and `server.lock` are each in the modules of what
  they guard. No module holds all three kinds of locks and all queues at once, so
  that a wait that leads from one component through another is followed only where
  both are in one module (the bookmarks' poller and JOIN in `ForumChannel`, LIST,
  the dumps, the fan-out and `accept` in `PrivateMessages`).

## 7. Order of work

`ClientQueue` and `ThreadChannel` with its proofs came first, as the core of the
bridge; then `PrivateMessages`, `Directory`, `ForumChannel`, the pure code, and
`Registration`; then the site's side (`UnreadPages`, `BookmarkPages`,
`LimitedHttp`, `SitePages`), `Reply`, LIST, and the abstract `PmDelivery` with the
refinement and its proofs; then the proofs about forum channels, the directory, the
site client, replies and nicks, and at last those about streams, texts and pages.
What would be worth adding:

1. an abstract `ChannelFeed`, in which a member is shown each post of a growing
   backlog, implemented by `ThreadChannel`;
2. `LockOrder`: the locks of all components with the queues, for a cycle among
   clients that all read;
3. the two feeds of `#lc`: the race between its own listener and a JOIN.

## 8. Running

```
tlc -workers 2 -config ThreadChannel_two.cfg MCThreadChannel
tlapm PrivateMessagesProofs.tla
```
