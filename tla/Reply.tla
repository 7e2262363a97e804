------------------------------- MODULE Reply -------------------------------
(***************************************************************************)
(* PRIVMSG: the receive loop of one connection posts to threads and sends  *)
(* private messages on the site.  A text "author: body" to a channel       *)
(* quotes the author's latest post, which is looked up in the backlog that *)
(* the poller of the thread extends meanwhile (thread.lock, which the      *)
(* lookup holds, does not keep it out).  A reply takes two requests, one   *)
(* for the form and one that posts; each may fail before the site is       *)
(* reached, and after.                                                     *)
(***************************************************************************)
EXTENDS ClientQueue, Sequences, SequencesExt

CONSTANTS
    client,      \* the connection
    ThreadPosts, \* bound: the posts of the thread
    PostAuthor,  \* who wrote each of them
    Addressees,  \* whom a PRIVMSG may address: nicks, or None for nobody
    MaxTargets,  \* bound: the targets of the first PRIVMSG; each further one
                 \* has one target less, until it has none
    None         \* nobody, no post

PostIds == 1..ThreadPosts

ASSUME ReplyAssumption ==
    /\ Conns = {client} /\ ThreadPosts \in Nat /\ DOMAIN PostAuthor = PostIds
    /\ MaxTargets \in Nat \ {0}
    /\ None \notin PostIds /\ \A p \in PostIds : PostAuthor[p] # None

\* A thread, a nick, and what is neither: a # name nobody has, "#" or nothing.
TargetKinds == {"channel", "nick", "unknown"}
\* Whom the text addresses matters to channels only.
Privmsgs ==
    {m \in [targets : UNION {[1..n -> TargetKinds] : n \in 1..MaxTargets},
            address : Addressees] :
        m.address = None \/ "channel" \in ToSet(m.targets)}

VARIABLES
    authors, posts, \* of the thread: IRC names, and the backlog
    incoming,  \* the poller has the author of the next post entered
    rpc,       \* where the receive loop is
    given,     \* the PRIVMSGs received, and the length of the backlog then
    nth,       \* the target the loop is at
    quote,     \* post that the message quotes; None: it is the text as given
    site,      \* what the site has accepted, in its order
    told,      \* history: targets whose failure the client was told of
    lost,      \* history: targets accepted, but the response was an error
    ignored    \* history: targets not accepted, but the response was a 200

threadVars == <<authors, posts, incoming>>
loopVars   == <<rpc, given, nth, quote>>
fate       == <<site, told, lost, ignored>>
replyVars  == <<threadVars, loopVars, fate, queueVars>>

ReplyInit ==
    /\ authors = {} /\ posts = <<>> /\ incoming = FALSE
    /\ rpc = "idle" /\ given = <<>> /\ nth = 1 /\ quote = None
    /\ site = <<>> /\ told = {} /\ lost = {} /\ ignored = {}
    /\ QueueInit

Privmsg == given[Len(given)]
Here == <<Len(given), nth>>
-----------------------------------------------------------------------------
(* The poller: the author first, then the post.                             *)
EnterAuthor ==
    /\ ~incoming /\ Len(posts) < ThreadPosts /\ incoming' = TRUE
    /\ authors' = authors \cup {PostAuthor[Len(posts) + 1]}
    /\ UNCHANGED <<posts, loopVars, fate, queueVars>>
AppendPost ==
    /\ incoming /\ incoming' = FALSE
    /\ posts' = Append(posts, Len(posts) + 1)
    /\ UNCHANGED <<authors, loopVars, fate, queueVars>>
-----------------------------------------------------------------------------
(* The receive loop.                                                        *)
Loop(from, to) ==
    /\ rpc = from /\ rpc' = to
    /\ UNCHANGED threadVars
Step(from, to) ==
    Loop(from, to) /\ UNCHANGED <<given, nth, fate, queueVars>>
\* The next target of strings.SplitSeq, or the next command.
NextTarget ==
    /\ IF nth < Len(Privmsg.targets) THEN nth' = nth + 1 /\ rpc' = "target"
       ELSE nth' = 1 /\ rpc' = "idle"
    /\ quote' = None
    /\ UNCHANGED <<threadVars, given>>

Receive(msg) ==
    /\ Loop("idle", "target")
    /\ Len(msg.targets) + Len(given) <= MaxTargets
    /\ given' = Append(given, [targets |-> msg.targets, address |-> msg.address,
                               backlog |-> Len(posts)])
    /\ UNCHANGED <<nth, quote, fate, queueVars>>

\* Too few parameters: 411, 412.
Incomplete ==
    /\ rpc = "idle" /\ Enqueue(client, TRUE, TRUE)
    /\ UNCHANGED <<threadVars, loopVars, fate>>

\* 401: the name is looked up in shortNames under server.lock.
NoSuchTarget ==
    /\ rpc = "target" /\ Privmsg.targets[nth] = "unknown"
    /\ Enqueue(client, told' = told \cup {Here}, UNCHANGED told)
    /\ NextTarget /\ UNCHANGED <<site, lost, ignored>>

FindThread ==
    /\ rpc = "target" /\ Privmsg.targets[nth] = "channel"
    /\ Step("target", IF Privmsg.address = None THEN "form" ELSE "address")
    /\ UNCHANGED quote

\* Is the word before the colon an author of the channel?
LookUpAuthor ==
    /\ Step("address", IF Privmsg.address \in authors THEN "quote" ELSE "form")
    /\ UNCHANGED quote

ByAuthor == {i \in DOMAIN posts : PostAuthor[posts[i]] = Privmsg.address}

\* Mutant: the backlog is searched from its beginning.
FindFirst ==
    /\ Step("quote", "form")
    /\ quote' = IF ByAuthor = {} THEN None
                ELSE posts[CHOOSE i \in ByAuthor : \A j \in ByAuthor : i <= j]

\* The latest post by that author; the author may be entered, the post not yet.
FindPost ==
    /\ Step("quote", "form")
    /\ quote' = IF ByAuthor = {} THEN None
                ELSE posts[CHOOSE i \in ByAuthor : \A j \in ByAuthor : j <= i]

Accept == site' = Append(site, [target |-> Here, quote |-> quote])
Tell == Enqueue(client, told' = told \cup {Here}, UNCHANGED told)

\* ReplyToThread: the form.
FormArrives == ~cancelled[client] /\ Step("form", "post") /\ UNCHANGED quote

\* Mutant: the next target's turn without a word.
FormFailsSilently ==
    rpc = "form" /\ NextTarget /\ UNCHANGED <<fate, queueVars>>

\* The request fails, or the page is not a form: 404.
FormFails == rpc = "form" /\ Tell /\ NextTarget /\ UNCHANGED <<site, lost, ignored>>

\* ReplyToThread: the post.  Nothing is sent once the context is cancelled.
PostAccepted ==
    /\ rpc = "post" /\ ~cancelled[client] /\ Accept
    /\ NextTarget /\ UNCHANGED <<told, lost, ignored, queueVars>>
\* A page with status 200 says nothing else: it is taken for success.
PostIgnored ==
    /\ rpc = "post" /\ ~cancelled[client] /\ ignored' = ignored \cup {Here}
    /\ NextTarget /\ UNCHANGED <<site, told, lost, queueVars>>
PostFails == rpc = "post" /\ Tell /\ NextTarget /\ UNCHANGED <<site, lost, ignored>>

\* Mutant: an error makes the loop post again.
PostResponseRetried ==
    /\ rpc = "post" /\ ~cancelled[client] /\ Accept
    /\ UNCHANGED <<threadVars, loopVars, told, lost, ignored, queueVars>>

\* The site takes the reply, and the response is lost or no 200.
PostResponseLost ==
    /\ Loop("post", "tell") /\ ~cancelled[client] /\ Accept
    /\ lost' = lost \cup {Here}
    /\ UNCHANGED <<given, nth, quote, told, ignored, queueVars>>
TellOfLost == rpc = "tell" /\ Tell /\ NextTarget /\ UNCHANGED <<site, lost, ignored>>

\* SendPrivateMessage: one request; a failure is logged and nobody is told.
SendPm ==
    /\ rpc = "target" /\ Privmsg.targets[nth] = "nick"
    /\ \/ ~cancelled[client] /\ Accept
       \/ UNCHANGED site
    /\ NextTarget /\ UNCHANGED <<told, lost, ignored, queueVars>>
-----------------------------------------------------------------------------
Net(A) == A /\ UNCHANGED <<threadVars, loopVars, fate>>

ReplyNext ==
    \/ EnterAuthor \/ AppendPost
    \/ (\E msg \in Privmsgs : Receive(msg)) \/ Incomplete
    \/ NoSuchTarget \/ FindThread \/ LookUpAuthor \/ FindPost
    \/ FormArrives \/ FormFails
    \/ PostAccepted \/ PostIgnored \/ PostFails \/ PostResponseLost \/ TellOfLost \/ SendPm
    \/ Net(SendLoop(client)) \/ Net(ClientLeaves(client))

ReplySpec == ReplyInit /\ [][ReplyNext]_replyVars
-----------------------------------------------------------------------------
Given(r) == given[r.target[1]]
LatestBefore(r, p) == \* p is by the addressed author and was in the backlog
    p <= Given(r).backlog /\ PostAuthor[p] = Given(r).address

\* "Foo: whatever will quote the previous post by Foo": a reply quotes a post by
\* the author it addresses, and none older than his latest at the time the
\* PRIVMSG was received; without one it is posted as the client wrote it.
QuotesLatest ==
    \A r \in ToSet(site) :
        /\ r.quote # None =>
              /\ PostAuthor[r.quote] = Given(r).address
              /\ Given(r).targets[r.target[2]] = "channel"
        /\ Given(r).targets[r.target[2]] = "channel" =>
              \A p \in PostIds : LatestBefore(r, p) => r.quote # None /\ p <= r.quote

\* What the site has accepted it has accepted once, and in the order of the
\* commands and of the targets in each.
AcceptedInOrder ==
    \A i, j \in DOMAIN site :
        LET a == site[i].target b == site[j].target
        IN i < j => a[1] < b[1] \/ (a[1] = b[1] /\ a[2] < b[2])

Posted == {r.target : r \in ToSet(site)}
Done == {t \in (1..Len(given)) \X (1..MaxTargets) :
            /\ t[2] \in DOMAIN given[t[1]].targets
            /\ rpc = "idle" \/ t[1] < Len(given) \/ t[2] < nth}

\* A client whose connection works knows what became of its messages to
\* channels: what is done was posted or it was told that it failed, and it was
\* told so of a reply that was posted only if the response was lost.  Of a reply
\* that the site answered with a 200 and did not take nobody hears.
ClientKnows ==
    ~cancelled[client] =>
        /\ \A t \in Done :
              given[t[1]].targets[t[2]] # "nick" => t \in Posted \cup told \cup ignored
        /\ told \cap Posted \subseteq lost
=============================================================================
