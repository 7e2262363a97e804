---------------------- MODULE PrivateMessagesInvariant ----------------------
(* What PrivateMessages keeps under server.lock, and the deliveries that it *)
(* implements.  A stored message that a connection has not been sent is     *)
(* owed by whoever holds the lock.                                          *)
EXTENDS PrivateMessages

\* server.lock is held for writing by the fan-out or by one dump, and by
\* neither while a LIST reads.
LockHeld ==
    /\ ppc = "fan" <=> slock = Poller
    /\ \A c \in Conns : cpc[c] = "dump" <=> slock = c
    /\ slock # None => \A c \in Conns : lpc[c] # "listing"

\* A message is marked as seen before it is stored, and stored before it is
\* sent.
SeenThenStored ==
    /\ StoredSet \subseteq seenPms
    /\ ppc \in {"store", "fan"} => todo # <<>>
    /\ ppc = "store" => Head(todo) \in seenPms \ StoredSet
    /\ ppc = "fan" => Head(todo) \in StoredSet

\* Only a dump owes anything to its own connection, and only what is stored.
DumpOwes ==
    \A c \in Conns : /\ cpc[c] # "dump" => pending[c] = {}
                     /\ pending[c] \subseteq StoredSet

InFanOut(c, p) == ppc = "fan" /\ c \in left /\ p = Head(todo)
Due(c, p) == copies[c][p] > 0 \/ p \in pending[c] \/ InFanOut(c, p)

\* A connection that was added before its dump lacks no stored message that
\* is not owed to it.
Owed ==
    \A c \in Conns :
        early[c] /\ ~cancelled[c] =>
            /\ c \in connections /\ cpc[c] \in {"dump", "running"}
            /\ \A p \in StoredSet : Due(c, p)

\* The inductive invariant.
IInv ==
    /\ TypeOK /\ LockHeld /\ SeenThenStored /\ DumpOwes /\ StoredOnce /\ Owed

\* A poll walks its list in order, and what comes before an entry is listed
\* before it, seen or was missed.
Walked ==
    /\ \A i, j \in 1..Len(todo) : i < j => todo[i] < todo[j]
    /\ \A i \in 1..Len(todo) : \A p \in 1..todo[i] :
          p \in seenPms \cup missed \/ \E j \in 1..i : p = todo[j]

\* What is seen is stored, but for the message in hand, and what is older than
\* a stored message is stored or was missed.
Settled ==
    /\ \A p \in seenPms \ StoredSet : ppc = "store" /\ p = Head(todo)
    /\ \A p \in StoredSet : \A q \in 1..(p - 1) : q \in StoredSet \cup missed

\* The inductive invariant of the order, next to the one above.
OInv == Walked /\ Settled /\ ChronologicalUnlessMissed
-----------------------------------------------------------------------------
\* The fan-out owes the message to left, and each dump owes what is pending.
Owing ==
    {d \in Conns \X Pms : InFanOut(d[1], d[2]) \/ d[2] \in pending[d[1]]}

Delivery == INSTANCE PmDelivery WITH
    known   <- StoredSet,
    members <- connections,
    dumped  <- {c \in Conns : cpc[c] \in {"dump", "running"}},
    debts   <- Owing,
    got     <- copies,
    gone    <- {c \in Conns : cancelled[c]}

\* Under all its locks and queues the server makes deliveries one after the
\* other: a message is stored once, whoever is in server.connections then is
\* sent it, or is gone, before anything else is delivered, and a dump is what
\* was stored when it began.
Delivered == Delivery!Spec
=============================================================================
