------------------------------ MODULE IrcText ------------------------------
(***************************************************************************)
(* Text on its way to IRC and back: MessageToIRC, which cuts the body of a *)
(* post into lines that fit a message, and AuthorToIRC and IRCToAuthor.    *)
(* A name is a sequence of the bytes that the replacers tell apart.        *)
(***************************************************************************)
EXTENDS TextBytes, Integers, Sequences, SequencesExt

CONSTANTS
    MaxBody,    \* bound: the length of a body
    Rooms,      \* what an author and a channel or nick leave of 512 bytes: a
                \* client may choose a nick that leaves nothing, or less
    MaxName     \* bound: the length of a name

ASSUME TextAssumption ==
    MaxBody \in Nat /\ MaxName \in Nat /\ Rooms \subseteq Int

VARIABLES
    messageLen, \* the room in a message for text: constant
    body,       \* the body of a post
    name        \* the name of an author, or what a client typed as one

textVars == <<messageLen, body, name>>

SplitAt(s, sep) ==
    Run(LAMBDA out, b : IF b = sep THEN Append(out, <<>>)
                             ELSE [out EXCEPT ![Len(out)] = Append(@, b)],
             << <<>> >>, s)
-----------------------------------------------------------------------------
(* MessageToIRC                                                             *)
Newlines(s) == \* CR LF, then CR, become LF
    Run(LAMBDA out, i :
                 IF s[i] # CR THEN Append(out, s[i])
                 ELSE IF i < Len(s) /\ s[i + 1] = LF THEN out ELSE Append(out, LF),
             <<>>, Positions(Len(s)))

Flush(st) == [lines |-> Append(st.lines, st.b), b |-> <<>>]
Tight(st, word) == st.b # <<>> /\ Len(st.b) + 1 + Len(word) > messageLen

\* A word by itself too long gives full lines and leaves its remainder.
FullLines(word) ==
    [k \in 1..(IF word = <<>> THEN 0 ELSE (Len(word) - 1) \div messageLen) |->
        SubSeq(word, (k - 1) * messageLen + 1, k * messageLen)]
Remainder(word) ==
    SubSeq(word, Len(FullLines(word)) * messageLen + 1, Len(word))

\* After the flush a second one is never due: a word that is cut starts from
\* the empty line, as the comment in the code says.
AddWord(st, word) ==
    LET flushed == IF Tight(st, word) THEN Flush(st) ELSE st
        lines == flushed.lines \o FullLines(word)
        last == Remainder(word)
    IN [lines |-> lines,
        b |-> IF flushed.b = <<>> THEN last ELSE flushed.b \o <<Space>> \o last]

\* Mutant: the last words of a long line are not flushed.
CutLineUnflushed(line) ==
    IF Len(line) <= messageLen THEN <<line>>
    ELSE Run(AddWord, [lines |-> <<>>, b |-> <<>>], SplitAt(line, Space)).lines

CutLine(line) ==
    IF Len(line) <= messageLen THEN <<line>>
    ELSE LET st == Run(AddWord, [lines |-> <<>>, b |-> <<>>], SplitAt(line, Space))
         IN IF st.b = <<>> THEN st.lines ELSE Flush(st).lines

\* A word that is too long is cut by the length of a message until it is not: if
\* that is 0 the loop goes on for ever, and a negative one is no index of a word,
\* so that the slice panics.
Uncuttable(word) == Len(word) > messageLen /\ messageLen <= 0
Returns(text) ==
    \A line \in Range(SplitAt(Newlines(text), LF)) :
        Len(line) > messageLen =>
            \A word \in Range(SplitAt(line, Space)) : ~Uncuttable(word)

\* What it returns, if it does.
MessageToIRC(text) ==
    Run(LAMBDA out, line : out \o CutLine(line), <<>>, SplitAt(Newlines(text), LF))
-----------------------------------------------------------------------------
(* AuthorToIRC and IRCToAuthor                                              *)
Escaped == [b \in {"_", " ", ":", "#", "!", "@"} |->
    CASE b = "_" -> "-" [] b = " " -> "_" [] b = ":" -> "."
      [] b = "#" -> "^" [] b = "!" -> "|" [] b = "@" -> "]"]
NameBytes == DOMAIN Escaped \cup Range(Escaped) \cup {",", "x"}

\* Mutant: the escape byte itself is left alone.
AuthorPlain(author) ==
    Run(LAMBDA out, b : out \o IF b \in DOMAIN Escaped \ {"_"}
                                THEN <<"_", Escaped[b]>> ELSE <<b>>, <<>>, author)

AuthorToIRC(author) ==
    Run(LAMBDA out, b : out \o IF b \in DOMAIN Escaped
                                THEN <<"_", Escaped[b]>> ELSE <<b>>, <<>>, author)

\* Left to right; a match takes two bytes.  "esc" is an underscore whose next
\* byte is not known yet.
Decode(st, b) ==
    IF st.esc /\ b \in Range(Escaped)
    THEN [out |-> Append(st.out, CHOOSE a \in DOMAIN Escaped : Escaped[a] = b),
          esc |-> FALSE]
    ELSE LET out == IF st.esc THEN Append(st.out, "_") ELSE st.out
         IN IF b = "_" THEN [out |-> out, esc |-> TRUE]
            ELSE [out |-> Append(out, b), esc |-> FALSE]
IRCToAuthor(irc) ==
    LET st == Run(Decode, [out |-> <<>>, esc |-> FALSE], irc)
    IN IF st.esc THEN Append(st.out, "_") ELSE st.out

\* Whom onPrivmsg takes a target that is no channel to name: it is split at
\* commas, and an empty part is refused.
Recipients(target) ==
    LET nicks == SplitAt(target, ",") IN [i \in DOMAIN nicks |-> IRCToAuthor(nicks[i])]
-----------------------------------------------------------------------------
(* Every body and every name up to the bounds, one after the other.         *)
TextInit == messageLen \in Rooms /\ body = <<>> /\ name = <<>>
LongerBody ==
    /\ name = <<>> /\ Len(body) < MaxBody
    /\ \E b \in {CR, LF, Space, Other} : body' = Append(body, b)
    /\ UNCHANGED <<messageLen, name>>
LongerName ==
    /\ body = <<>> /\ Len(name) < MaxName
    /\ \E b \in NameBytes : name' = Append(name, b)
    /\ UNCHANGED <<messageLen, body>>
TextNext == LongerBody \/ LongerName
TextSpec == TextInit /\ [][TextNext]_textVars

NonEmpty(words) ==
    Run(LAMBDA out, w : IF w = <<>> THEN out ELSE Append(out, w), <<>>, words)
WordsOf(s) == NonEmpty(SplitAt(s, Space))
LineWords(lines) == Run(LAMBDA out, line : out \o WordsOf(line), <<>>, lines)
Joined(words) == Run(\o, <<>>, words)

\* Each line fits a message and has no line break.
LinesFit ==
    \A line \in Range(MessageToIRC(body)) :
        Len(line) <= messageLen /\ {CR, LF} \cap Range(line) = {}

\* The words arrive in their order, none is lost, and a word is cut only if it
\* does not fit a message by itself.
WordsKept ==
    LET words == LineWords(SplitAt(Newlines(body), LF))
        out == LineWords(MessageToIRC(body))
    IN /\ Joined(out) = Joined(words)
       /\ (\A k \in DOMAIN words : Len(words[k]) <= messageLen) => out = words

\* "converts a post into a sequence of PRIVMSG messages that respect IRC limits":
\* it returns if a message has room for text or has none and the body no word, and
\* for no other body; what it returns with room for text fits and has its words.
BodyConverted ==
    /\ Returns(body) <=> \/ messageLen > 0
                         \/ messageLen = 0 /\ LineWords(SplitAt(Newlines(body), LF)) = <<>>
    /\ messageLen > 0 => LinesFit /\ WordsKept

\* "IRCToAuthor inverts the IRC-normalized author name into the forum name", which
\* has none of the bytes that end a prefix or a parameter.  A message to it goes to
\* the parts of the forum name between its commas: to the author if it has none.
AuthorsInvert ==
    /\ IRCToAuthor(AuthorToIRC(name)) = name
    /\ Range(AuthorToIRC(name)) \cap {" ", ":", "#", "!", "@"} = {}
    /\ Recipients(AuthorToIRC(name)) = SplitAt(name, ",")
=============================================================================
