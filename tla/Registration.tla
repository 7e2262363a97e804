---------------------------- MODULE Registration ----------------------------
(***************************************************************************)
(* Who a connection is: NICK, USER and CAP on its receive loop, the nick   *)
(* that private messages are addressed to, which two other goroutines read *)
(* while NICK changes it, and the nick that the client makes of the lines. *)
(***************************************************************************)
EXTENDS Naturals, Sequences

CONSTANTS
    Nicks, Users, \* first parameters of NICK and USER; "" is an empty one
    MaxNickCmds,      \* bound: the commands the client sends
    MaxFanOuts,       \* bound: the private messages that arrive
    LineCap      \* capacity of serverConnection.queue (64 in the code)

ASSUME RegistrationAssumption ==
    Nicks \subseteq STRING /\ Users \subseteq STRING /\ LineCap \in Nat \ {0}
    /\ MaxNickCmds \in Nat /\ MaxFanOuts \in Nat

VARIABLES
    nick, user, registered, \* the serverConnection
    npc, arg,  \* where the receive loop is, and the nick it is about to set
    commands,     \* commands that the client sent and the loop has not read
    queue,     \* lines on their way to the client
    cmds, pms, \* commands sent and private messages so far
    dump,      \* of the known private messages: "before", "during" or "after"
    hand,      \* a private message addressed to the nick and not yet put, or <<>>
    emptied,   \* history: a registered connection was given the nick ""
    namings,   \* history: lines put that tell the client its nick
    clientNick, names, \* the client's nick by the lines it read, "" until the
                       \* welcome, and the nicks they told it, in order
    welcomes,  \* 001 lines it read
    pmTarget, pmSince  \* target of the private message it just read, or "none",
                       \* and how often it had been told when it was addressed

nickVars   == <<nick, user, registered, npc, arg>>
viewVars   == <<clientNick, names, welcomes, pmTarget, pmSince>>
pmVars     == <<pms, dump, hand>>
registrationVars == <<nickVars, commands, queue, cmds, pmVars, emptied, namings, viewVars>>

NoName == ""

Commands == ({"NICK"} \X Nicks) \cup ({"USER"} \X Users)
            \cup {<<"CAP", "END">>, <<"other", NoName>>}

RegistrationInit ==
    /\ nick = NoName /\ user = NoName /\ registered = FALSE /\ npc = "ready" /\ arg = NoName
    /\ commands = <<>> /\ queue = <<>> /\ cmds = 0 /\ pms = 0
    /\ dump = "before" /\ hand = <<>> /\ emptied = FALSE /\ namings = 0
    /\ clientNick = NoName /\ names = <<>> /\ welcomes = 0
    /\ pmTarget = "none" /\ pmSince = 0

nickArgument == IF nick = NoName THEN "*" ELSE nick

PutLine(line) == Len(queue) < LineCap /\ queue' = Append(queue, line)
-----------------------------------------------------------------------------
ClientSends(cmd) ==
    /\ cmds < MaxNickCmds /\ cmds' = cmds + 1
    /\ commands' = Append(commands, cmd)
    /\ UNCHANGED <<nickVars, queue, pmVars, emptied, namings, viewVars>>

TakeCommand(kind) ==
    /\ npc = "ready" /\ commands # <<>> /\ Head(commands)[1] = kind
    /\ commands' = Tail(commands)
    /\ UNCHANGED <<cmds, pmVars, emptied, viewVars>>

\* Mutant: a registered client is not told.
OnNickUntold ==
    /\ TakeCommand("NICK")
    /\ arg' = Head(commands)[2] /\ npc' = "nick"
    /\ UNCHANGED <<nick, user, registered, queue, namings>>

\* A registered client is told of its new nick before it is set.
OnNick ==
    /\ TakeCommand("NICK")
    /\ arg' = Head(commands)[2] /\ npc' = "nick"
    /\ IF registered THEN PutLine(<<"NICK", nick, arg'>>) /\ namings' = namings + 1
       ELSE UNCHANGED <<queue, namings>>
    /\ UNCHANGED <<nick, user, registered>>

\* maybeRegister: the welcome is due once nick and user are known.
maybeRegister(n, u) ==
    IF ~registered /\ n # NoName /\ u # NoName THEN "welcome" ELSE "ready"

\* Mutant: the first nick stays.
SetNickOnce ==
    /\ npc = "nick" /\ npc' = maybeRegister(arg, user)
    /\ nick' = IF registered THEN nick ELSE arg
    /\ emptied' = (emptied \/ (registered /\ arg = NoName)) /\ arg' = NoName
    /\ UNCHANGED <<user, registered, commands, queue, cmds, pmVars, namings, viewVars>>

SetNick ==
    /\ npc = "nick" /\ npc' = maybeRegister(arg, user)
    /\ nick' = arg /\ arg' = NoName
    /\ emptied' = (emptied \/ (registered /\ arg = NoName))
    /\ UNCHANGED <<user, registered, commands, queue, cmds, pmVars, namings, viewVars>>

Welcome ==
    /\ npc = "welcome" /\ npc' = "ready"
    /\ registered' = TRUE /\ PutLine(<<"001", nickArgument>>) /\ namings' = namings + 1
    /\ UNCHANGED <<nick, user, arg, commands, cmds, pmVars, emptied, viewVars>>

\* A second USER is refused.
OnUser ==
    /\ TakeCommand("USER")
    /\ IF user # NoName THEN PutLine(<<"other">>) /\ UNCHANGED <<user, npc>>
       ELSE /\ user' = Head(commands)[2] /\ npc' = maybeRegister(nick, user')
            /\ UNCHANGED queue
    /\ UNCHANGED <<nick, registered, arg, namings>>

OnCapEnd ==
    /\ TakeCommand("CAP")
    /\ npc' = maybeRegister(nick, user)
    /\ UNCHANGED <<nick, user, registered, arg, queue, namings>>

\* NICK and USER without enough parameters, CAP LS, PING and the like: a reply
\* and nothing else.
OnOther ==
    TakeCommand("other") /\ PutLine(<<"other">>) /\ UNCHANGED <<nickVars, namings>>

\* Private messages: the dump of run, and the fan-out of the poller, which takes
\* the nick as it is.  Both hold the lock of the server, the dump for all its
\* messages, and neither keeps the nick from changing between the statement that
\* addresses a message and the one that puts it.
Address(to) ==
    /\ hand = <<>> /\ pms < MaxFanOuts /\ pms' = pms + 1
    /\ hand' = <<"PM", to, namings>>
    /\ UNCHANGED <<nickVars, commands, queue, cmds, emptied, namings, viewVars>>
Dump ==
    /\ dump # "after"
    /\ \/ Address(nickArgument) /\ dump' = "during"
       \/ /\ hand = <<>> /\ dump' = "after"
          /\ UNCHANGED <<nickVars, commands, queue, cmds, pms, hand, emptied, namings, viewVars>>
FanOut == dump # "during" /\ Address(nick) /\ UNCHANGED dump
PutMessage ==
    /\ hand # <<>> /\ PutLine(hand) /\ hand' = <<>>
    /\ UNCHANGED <<nickVars, commands, cmds, pms, dump, emptied, namings, viewVars>>

\* What a client makes of a line: it follows the changes of the nick it has,
\* and cannot tell a NICK without a nick.
ClientReads ==
    /\ queue # <<>> /\ queue' = Tail(queue)
    /\ LET line == Head(queue)
           changed == line[1] = "NICK" /\ line[2] = clientNick /\ line[3] # NoName
       IN /\ welcomes' = IF line[1] = "001" THEN welcomes + 1 ELSE welcomes
          /\ clientNick' = IF line[1] = "001" THEN line[2]
                           ELSE IF changed THEN line[3] ELSE clientNick
          /\ names' = CASE line[1] = "001"  -> Append(names, line[2])
                        [] line[1] = "NICK" -> Append(names, line[3])
                        [] OTHER -> names
          /\ pmTarget' = IF line[1] = "PM" THEN line[2] ELSE "none"
          /\ pmSince' = IF line[1] = "PM" THEN line[3] ELSE 0
    /\ UNCHANGED <<nickVars, commands, cmds, pmVars, emptied, namings>>

RegistrationNext ==
    \/ \E cmd \in Commands : ClientSends(cmd)
    \/ OnNick \/ SetNick \/ Welcome \/ OnUser \/ OnCapEnd \/ OnOther
    \/ Dump \/ FanOut \/ PutMessage \/ ClientReads

RegistrationSpec == RegistrationInit /\ [][RegistrationNext]_registrationVars
-----------------------------------------------------------------------------
\* Every variable keeps its type.
RegistrationTypeOK ==
    /\ nick \in Nicks \cup {NoName} /\ user \in Users \cup {NoName} /\ registered \in BOOLEAN
    /\ npc \in {"ready", "nick", "welcome"} /\ arg \in Nicks \cup {NoName}
    /\ commands \in Seq(Commands) /\ Len(queue) <= LineCap
    /\ cmds \in 0..MaxNickCmds /\ pms \in 0..MaxFanOuts
    /\ dump \in {"before", "during", "after"} /\ emptied \in BOOLEAN /\ namings \in Nat
    /\ hand \in {<<>>} \cup ({"PM"} \X (Nicks \cup {NoName, "*"}) \X Nat)
    /\ clientNick \in Nicks \cup {NoName} /\ names \in Seq(Nicks \cup {NoName})
    /\ welcomes \in 0..1 /\ pmTarget \in Nicks \cup {NoName, "*", "none"} /\ pmSince \in Nat

\* There is one welcome.  When all lines are read and no command is in progress,
\* client and server agree on whether the client is registered and, as long as
\* it never took the empty nick for one, on the nick.  "It is * before
\* connecting and the nick after connecting."
NickAgrees ==
    /\ RegistrationTypeOK
    /\ queue = <<>> /\ npc = "ready" =>
          /\ registered <=> welcomes = 1
          /\ registered /\ ~emptied => clientNick = nick
    /\ registered /\ ~emptied => nickArgument = nick

\* When a private message is addressed, the nick is the last that the client was
\* told by then or, since NICK puts its line before it sets the nick, the one told
\* before that; the client has read as much when it reads the message.  It may have
\* been told of other nicks since, and of a message addressed before the welcome was
\* put nothing is said.  An empty nick is written as itself or as "*".
Shown(n) == IF n = NoName THEN {NoName, "*"} ELSE {n}
AddressedBy(ns, to, since) ==
    since > 0 => /\ since <= Len(ns)
                 /\ \E k \in {since - 1, since} \ {0} : to \in Shown(ns[k])
PmAddressed == pmTarget # "none" => AddressedBy(names, pmTarget, pmSince)
=============================================================================
