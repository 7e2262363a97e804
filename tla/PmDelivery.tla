----------------------------- MODULE PmDelivery -----------------------------
(***************************************************************************)
(* What the server promises about private messages, without locks, queues  *)
(* and polls: deliveries are made one after the other.  A new message is   *)
(* owed to all members, and what is known is owed to a connection once,    *)
(* when it begins; each delivery pays all that it owes before another one  *)
(* starts, except to clients that are gone.                                *)
(***************************************************************************)
EXTENDS Naturals

CONSTANTS Conns, Pms

VARIABLES
    known,   \* messages the server has
    members, \* connections that new messages are for
    dumped,  \* connections that the known messages were, or are, owed to
    debts,   \* <<connection, message>>: what the delivery in progress owes
    got,     \* copies that each connection was sent of each message
    gone     \* connections whose context is cancelled

vars == <<known, members, dumped, debts, got, gone>>

Init ==
    /\ known = {} /\ members = {} /\ dumped = {} /\ debts = {} /\ gone = {}
    /\ got = [c \in Conns |-> [p \in Pms |-> 0]]

Learn(p) ==
    /\ debts = {} /\ p \notin known
    /\ known' = known \cup {p} /\ debts' = members \X {p}
    /\ UNCHANGED <<members, dumped, got, gone>>

Join(c) ==
    /\ debts = {} /\ members' = members \cup {c}
    /\ UNCHANGED <<known, dumped, debts, got, gone>>

Dump(c) ==
    /\ debts = {} /\ c \notin dumped
    /\ dumped' = dumped \cup {c} /\ debts' = {c} \X known
    /\ UNCHANGED <<known, members, got, gone>>

Pay(c, p) ==
    /\ <<c, p>> \in debts /\ debts' = debts \ {<<c, p>>}
    /\ got' = [got EXCEPT ![c][p] = @ + 1]
    /\ UNCHANGED <<known, members, dumped, gone>>

Forgive(c, p) ==
    /\ c \in gone /\ <<c, p>> \in debts /\ debts' = debts \ {<<c, p>>}
    /\ UNCHANGED <<known, members, dumped, got, gone>>

Leave(c) ==
    /\ gone' = gone \cup {c}
    /\ UNCHANGED <<known, members, dumped, debts, got>>

Next ==
    \/ \E p \in Pms : Learn(p)
    \/ \E c \in Conns :
          Join(c) \/ Dump(c) \/ Leave(c) \/ \E p \in Pms : Pay(c, p) \/ Forgive(c, p)

Spec == Init /\ [][Next]_vars
-----------------------------------------------------------------------------
Types ==
    /\ known \subseteq Pms /\ members \subseteq Conns /\ debts \subseteq Conns \X Pms
    /\ got \in [Conns -> [Pms -> Nat]]

\* Nobody gets a message three times.
AtMostTwice == \A c \in Conns, p \in Pms : got[c][p] <= 2

\* One copy is for the message being new, and one is for the dump.
Accounted ==
    \A c \in Conns, p \in Pms :
        LET owed == <<c, p>> \in debts IN
        /\ p \notin known => got[c][p] = 0 /\ ~owed
        /\ c \notin dumped => got[c][p] <= 1 /\ (owed => got[c][p] = 0)
        /\ owed => got[c][p] <= 1
        /\ got[c][p] <= 2
=============================================================================
