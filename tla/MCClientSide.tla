---------------------------- MODULE MCClientSide ----------------------------
(* Instances of what lies between one client and the site, for TLC: the     *)
(* stream of its commands, its registration, its replies, the pages of the  *)
(* site and the text made of them.  The parts share no state but the queue  *)
(* to the client, so that a behaviour follows one of them.                  *)
EXTENDS ClientStream, SitePages, Registration, Reply

CONSTANT Parts  \* of "stream", "text", "pages", "nick", "reply"
VARIABLE part   \* the one that this behaviour follows

vars == <<part, streamVars, textVars, pageVars, registrationVars, replyVars>>

Init ==
    /\ part \in Parts
    /\ StreamInit /\ (part # "stream" => stream = <<>>)
    /\ PagesInit /\ (part # "pages" => kind = "post")
    /\ TextInit /\ (part # "text" => messageLen = CHOOSE m \in Rooms : TRUE)
    /\ RegistrationInit /\ ReplyInit

Next ==
    /\ UNCHANGED part
    /\ \/ /\ part = "stream" /\ StreamNext
          /\ UNCHANGED <<textVars, pageVars, registrationVars, replyVars>>
       \/ /\ part = "text" /\ TextNext
          /\ UNCHANGED <<streamVars, pageVars, registrationVars, replyVars>>
       \/ /\ part = "pages" /\ PagesNext
          /\ UNCHANGED <<streamVars, textVars, registrationVars, replyVars>>
       \/ /\ part = "nick" /\ RegistrationNext
          /\ UNCHANGED <<streamVars, textVars, pageVars, replyVars>>
       \/ /\ part = "reply" /\ ReplyNext
          /\ UNCHANGED <<streamVars, textVars, pageVars, registrationVars>>

Spec == Init /\ [][Next]_vars
-----------------------------------------------------------------------------
(* The streams of ClientStream.                                             *)
Strings(S, n) == UNION {[1..k -> S] : k \in 0..n}

\* One line of words and colons, with its delimiter or without it.
Words(n) == Strings({Space, Colon, Other}, n)
OneLine == Words(6) \cup {s \o <<CR, LF>> : s \in Words(5)}

\* Any bytes that matter to the scanner, one more than its buffer takes.
Delimiters == Strings({CR, LF, Other}, BufCap + 1)
Both == OneLine \cup Delimiters

(* A message has room for three bytes of text, for none, or for less.       *)
AnyRoom == {3, 0, -1}

(* The thread of Reply: posts 1 and 3 are by ann, post 2 by bob.  Before her *)
(* first post ann is an addressee whom the thread does not know.            *)
TwoAuthors == [p \in PostIds |-> IF p = 2 THEN "bob" ELSE "ann"]
AnnOrNobody == {"ann", None}
=============================================================================
