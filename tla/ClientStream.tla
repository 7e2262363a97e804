---------------------------- MODULE ClientStream ----------------------------
(***************************************************************************)
(* From the bytes of a client to messages: NewClientMessageIterator, which *)
(* reads the socket through a bufio.Scanner with a buffer that cannot      *)
(* grow, and ParseSingleClientMessage.  The network may cut the stream     *)
(* anywhere.                                                               *)
(***************************************************************************)
EXTENDS TextBytes, Naturals, Sequences, SequencesExt

CONSTANTS
    Streams, \* what a client may send until it closes its side
    BufCap   \* size of the scanner's buffer (512 in the code)

ASSUME StreamAssumption ==
    Streams \subseteq Seq(Bytes) /\ BufCap \in Nat \ {0}

VARIABLES
    stream,  \* what the client sends
    arrived, \* how much of it was read
    start,   \* how much of that was consumed
    state,   \* "open", "eof" when the client has closed, "done", "toolong"
    lines    \* the lines yielded so far

streamVars == <<stream, arrived, start, state, lines>>

Data == SubSeq(stream, start + 1, arrived)
-----------------------------------------------------------------------------
(* ParseSingleClientMessage: one pass over the bytes, then what the end of  *)
(* the line completes.  ctx is the inXxx flag that is set.                  *)
PrefixOnly == "only a prefix"
EmptyCommand == "no command"
Begin == [ctx |-> "none", from |-> 1, prefix |-> <<>>, command |-> <<>>, args |-> <<>>]

ParseByte(msg, st, i) ==
    LET b == msg[i]
        piece == SubSeq(msg, st.from, i - 1)
        At(ctx, from) == [st EXCEPT !.ctx = ctx, !.from = from]
    IN IF i = 1 THEN IF b = Colon THEN At("prefix", 2) ELSE At("command", 1)
       ELSE CASE st.ctx = "prefix" /\ b = Space ->
                     [At("command", i + 1) EXCEPT !.prefix = piece]
              [] st.ctx = "command" /\ b = Space ->
                     [At("none", i) EXCEPT !.command = piece]
              [] st.ctx = "arg" /\ b = Space ->
                     [At("none", i) EXCEPT !.args = Append(@, piece)]
              [] st.ctx = "none" /\ b = Colon -> At("trailing", i + 1)
              [] st.ctx = "none" /\ b \notin {Space, Colon} -> At("arg", i)
              [] OTHER -> st

\* Mutant: a trailing parameter that is empty is dropped.
ArgsUnlessEmpty(st, piece) ==
    IF st.ctx \in {"arg", "trailing"} /\ piece # <<>> THEN Append(st.args, piece)
    ELSE st.args

ArgsAtEnd(st, piece) ==
    IF st.ctx \in {"arg", "trailing"} THEN Append(st.args, piece) ELSE st.args

ParseSingleClientMessage(msg) ==
    LET st == Run(LAMBDA s, i : ParseByte(msg, s, i), Begin, Positions(Len(msg)))
        piece == SubSeq(msg, st.from, Len(msg))
        command == IF st.ctx = "command" THEN piece ELSE st.command
    IN IF st.ctx = "prefix" THEN PrefixOnly
       ELSE IF command = <<>> THEN EmptyCommand
       ELSE [prefix |-> st.prefix, command |-> command, args |-> ArgsAtEnd(st, piece)]
-----------------------------------------------------------------------------
(* splitCRLF: how many bytes the line at the head of the data takes, with   *)
(* its delimiter, or 0 if there is none yet.                                *)
splitCRLF(data) ==
    LET I == {i \in 1..Len(data) : data[i] = CR}
        i == Min(I)
    IN IF I # {} /\ i < Len(data) /\ data[i + 1] = LF THEN i + 1 ELSE 0
-----------------------------------------------------------------------------
(* The scanner asks for more data only when it has no line, and has nowhere *)
(* to put it when its buffer is full.                                       *)
StreamInit ==
    /\ stream \in Streams
    /\ arrived = 0 /\ start = 0 /\ state = "open" /\ lines = <<>>

NeedsData == state = "open" /\ splitCRLF(Data) = 0

Read(n) ==
    /\ NeedsData /\ Len(Data) < BufCap
    /\ arrived' = arrived + n /\ n > 0 /\ arrived' <= Len(stream)
    /\ Len(Data) + n <= BufCap
    /\ UNCHANGED <<stream, start, state, lines>>

ClientCloses ==
    /\ NeedsData /\ Len(Data) < BufCap
    /\ arrived = Len(stream) /\ state' = "eof"
    /\ UNCHANGED <<stream, arrived, start, lines>>

BufferFull ==
    /\ NeedsData /\ Len(Data) = BufCap
    /\ state' = "toolong"
    /\ UNCHANGED <<stream, arrived, start, lines>>

\* A line without its delimiter; the iterator passes empty lines by.
Yield(line) == lines' = IF line = <<>> THEN lines ELSE Append(lines, line)

\* Mutant: the LF of the delimiter stays in the data.
LineKeepsLF ==
    LET n == splitCRLF(Data)
    IN /\ state \in {"open", "eof"} /\ n > 0
       /\ start' = start + n - 1 /\ Yield(SubSeq(Data, 1, n - 2))
       /\ UNCHANGED <<stream, arrived, state>>

Line ==
    LET n == splitCRLF(Data)
    IN /\ state \in {"open", "eof"} /\ n > 0
       /\ start' = start + n /\ Yield(SubSeq(Data, 1, n - 2))
       /\ UNCHANGED <<stream, arrived, state>>

LastLine ==
    /\ state = "eof" /\ splitCRLF(Data) = 0
    /\ state' = "done" /\ start' = arrived /\ Yield(Data)
    /\ UNCHANGED <<stream, arrived>>

StreamNext ==
    (\E n \in 1..BufCap : Read(n)) \/ ClientCloses \/ BufferFull \/ Line \/ LastLine

StreamSpec == StreamInit /\ [][StreamNext]_streamVars
-----------------------------------------------------------------------------
(* References: the whole stream cut after each CR LF, and a message by the  *)
(* spaces and colons around its parts.                                      *)
(* The scanner stops finding lines at the first piece with a CR in it or too *)
(* long for the buffer.                                                     *)
Stuck(piece) == Len(piece) + 2 > BufCap \/ \E i \in 1..Len(piece) : piece[i] = CR

Uncut == [from |-> 1, lines |-> <<>>, stuck |-> FALSE]
CutByte(s, st, i) ==
    LET piece == SubSeq(s, st.from, i - 2)
    IN IF st.stuck \/ i <= st.from \/ s[i - 1] # CR \/ s[i] # LF THEN st
       ELSE IF Stuck(piece) THEN [st EXCEPT !.stuck = TRUE]
       ELSE [st EXCEPT !.from = i + 1,
                       !.lines = IF piece = <<>> THEN @ ELSE Append(@, piece)]
Pieces(s, n) == Run(LAMBDA st, i : CutByte(s, st, i), Uncut, Positions(n))

\* What is left after the pieces is one last line if it fits.
Served(s) ==
    LET st == Pieces(s, Len(s))
        rest == SubSeq(s, st.from, Len(s))
        fits == Len(rest) < BufCap
    IN [fits |-> fits,
        lines |-> IF fits /\ rest # <<>> THEN Append(st.lines, rest) ELSE st.lines]

\* The first space of a line at p or later, or the end of the line.
SpaceFrom(line, p) == Min({q \in p..Len(line) : line[q] = Space} \cup {Len(line) + 1})

\* The parameters in a line from p on.
Args(line, p) ==
    LET args[q \in 1..Len(line) + 1] ==
            IF q > Len(line) THEN <<>>
            ELSE IF line[q] = Space THEN args[q + 1]
            ELSE IF line[q] = Colon THEN <<SubSeq(line, q + 1, Len(line))>>
            ELSE LET end == SpaceFrom(line, q)
                 IN <<SubSeq(line, q, end - 1)>> \o args[end]
    IN args[p]

\* Without a prefix the first byte belongs to the command, even a space.
PrefixEnd(line) == IF line[1] = Colon THEN SpaceFrom(line, 1) ELSE 0
CommandEnd(line) ==
    SpaceFrom(line, IF line[1] = Colon THEN PrefixEnd(line) + 1 ELSE 2)
Grammar(line) ==
    LET k == PrefixEnd(line)
        c == CommandEnd(line)
    IN IF k > Len(line) THEN PrefixOnly
       ELSE IF c = k + 1 THEN EmptyCommand
       ELSE [prefix |-> SubSeq(line, 2, k - 1), command |-> SubSeq(line, k + 1, c - 1),
             args |-> Args(line, c)]

\* Every variable keeps its type.
StreamTypeOK ==
    /\ stream \in Streams /\ start \in 0..Len(stream)
    /\ arrived \in start..Len(stream) /\ Len(Data) <= BufCap
    /\ state \in {"open", "eof", "done", "toolong"}
    /\ lines \in Seq(Seq(Bytes))

\* However the network cuts the stream, the lines that are yielded, and whether
\* the iterator ends with an error, depend on the bytes alone; what is waiting to
\* be a line never outgrows the buffer.
CutsDoNotMatter ==
    /\ StreamTypeOK
    /\ IsPrefix(lines, Served(stream).lines)
    /\ state = "done" => Served(stream).fits /\ lines = Served(stream).lines
    /\ state = "toolong" => ~Served(stream).fits /\ lines = Served(stream).lines

\* Each line parses to the message that its spaces and colons delimit.
ParsesByGrammar ==
    \A k \in DOMAIN lines : ParseSingleClientMessage(lines[k]) = Grammar(lines[k])
=============================================================================
