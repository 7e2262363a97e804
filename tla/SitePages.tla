----------------------------- MODULE SitePages -----------------------------
(***************************************************************************)
(* What the site client reads out of the pages of the site: parsePosts,    *)
(* parseThreadsFromResponse, ParseLepersColony, parsePrivateMessageFolder, *)
(* parsePrivateMessageID and NormalizePost.  A page is a tree of nodes; a  *)
(* node has the tag and attribute that the code looks for, what is to be   *)
(* read from it, and children.  Fields are numbers: Missing where the page *)
(* has none or an empty one, Bad where it does not parse.                  *)
(***************************************************************************)
EXTENDS IrcText, Integers

CONSTANTS
    MaxEntries, \* bound: the rows of a page
    MaxPieces,  \* bound: the nodes of a post
    MaxDepth    \* bound: the levels of nodes below one of a post

ASSUME PagesAssumption ==
    MaxEntries \in Nat /\ MaxPieces \in Nat /\ MaxDepth \in Nat \ {0, 1}

Missing == 0
Bad == -1
Node(is, val, kids) == [is |-> is, val |-> val, kids |-> kids]
Leaves(is, vals) == [i \in DOMAIN vals |-> Node(is, vals[i], <<>>)]
Vals(nodes) == [i \in DOMAIN nodes |-> nodes[i].val]
-----------------------------------------------------------------------------
(* Walks down a page: all children that match, or the first one only.       *)
Only(s, S) == \* the elements of s that are in S
    Run(LAMBDA out, x : IF x \in S THEN Append(out, x) ELSE out, <<>>, s)
Kids(n, is) == Only(n.kids, {k \in ToSet(n.kids) : k.is = is})
Below(nodes, is) == Joined([i \in DOMAIN nodes |-> Kids(nodes[i], is)])
AllKids(nodes) == Joined([i \in DOMAIN nodes |-> nodes[i].kids])
First(nodes) == IF nodes = <<>> THEN <<>> ELSE <<Head(nodes)>>
FirstBelow(nodes, is) == First(Below(nodes, is))
Content(nodes) == Below(Below(nodes, "container"), "content")

\* parsePosts.  The page numbers are those of the first breadcrumbs that has a
\* readable current page; -1 is none.  What does not parse is no error.
TakeNav(st, nav) ==
    IF st.current # -1 THEN st
    ELSE [current |-> nav.current,
          total |-> IF nav.total = Bad THEN st.total ELSE nav.total]
parsePosts(doc) ==
    LET content == Content(Below(<<doc>>, "usergroup"))
        nav == Run(TakeNav, [current |-> -1, total |-> -1],
                   Vals(Below(content, "breadcrumbs")))
        rows == Vals(Below(Below(content, "thread"), "row"))
    IN [posts |-> Only(rows, {r \in ToSet(rows) :
                                 r.id # Bad /\ r.author # Missing /\ r.text # Missing}),
        current |-> nav.current, total |-> nav.total]

\* parseThreadsFromResponse: the usergroup of the forum view if there is one, the
\* form of the bookmarks view if there is one.
\* Mutant: only the form is looked into.
TablesOfForms(content) == Below(Below(content, "form"), "forum")
TablesIn(n) ==
    CASE n.is = "form" -> Kids(n, "forum") [] n.is = "forum" -> <<n>> [] OTHER -> <<>>
Tables(content) ==
    LET all == AllKids(content) IN Joined([i \in DOMAIN all |-> TablesIn(all[i])])
LastPoster(r) == IF r.poster = Missing THEN r.author ELSE r.poster
Listed(r) == \* all parts are there, but the number of the thread may be bad
    /\ r.title # Missing /\ r.replies \notin {Missing, Bad} /\ r.time > 0
    /\ r.id # Missing
BadNumber(r) == r.replies = Bad \/ (Listed(r) /\ r.id = Bad)
parseThreads(doc) ==
    LET group == First(Kids(doc, "usergroup"))
        content == Content(IF group = <<>> THEN <<doc>> ELSE group)
        totals == Vals(Below(Below(content, "form"), "pages"))
        good == Only(totals, {n \in ToSet(totals) : n # Bad})
        rows == Vals(Below(Tables(content), "row"))
        kept == Only(rows, {r \in ToSet(rows) : Listed(r) /\ r.id # Bad})
    IN [threads |-> [i \in DOMAIN kept |-> [id |-> kept[i].id,
                                             killedBy |-> LastPoster(kept[i])]],
        total |-> IF good = <<>> THEN 1 ELSE Last(good),
        err |-> Bad \in Range(totals) \/ \E r \in Range(rows) : BadNumber(r)]

\* ParseLepersColony: the id of a row; one without a post has post id 0.
LeperId(minute, postid) == minute * 60 * 10000 + (postid % 10000)

\* The pages' navigation comes before the table; without readable page numbers
\* it is an error, which has no rows.
TakeInner(st, n) ==
    IF st.current = Missing \/ st.total = Missing
    THEN IF n.is = "mqnav" THEN [st EXCEPT !.current = n.val.current,
                                           !.total = n.val.total]
         ELSE st
    ELSE IF n.is = "table" THEN [st EXCEPT !.rows = @ \o Vals(Kids(n, "row"))] ELSE st
LeperListed(r) == r.named # Missing /\ r.postid # Bad /\ r.minute > 0
parseLepers(doc) ==
    LET content == FirstBelow(FirstBelow(<<doc>>, "container"), "content")
        inner == FirstBelow(FirstBelow(content, "standard"), "inner")
        st == Run(TakeInner, [current |-> Missing, total |-> Missing, rows |-> <<>>],
                  AllKids(inner))
        kept == Only(st.rows, {r \in ToSet(st.rows) : LeperListed(r)})
    IN IF Missing \in {st.current, st.total} \/ Bad \in {st.current, st.total} THEN <<>>
       ELSE Reverse([i \in DOMAIN kept |->
                        [id |-> LeperId(kept[i].minute, kept[i].postid), row |-> kept[i]]])

\* parsePrivateMessageFolder
parseFolder(doc) ==
    LET rows == Vals(Below(Below(Below(Content(<<doc>>), "form"), "table"), "row"))
    IN Only(rows, {r \in ToSet(rows) : r.id > 0 /\ r.author # Missing /\ r.time > 0})
-----------------------------------------------------------------------------
(* NormalizePost.  The text of a node is a sequence of bytes.               *)

\* extractTextFromDeepChild follows the first children down to a text, and does
\* not return from a node without children.
DeepText(n) ==
    LET deep == Run(LAMBDA m, i : IF m.is = "text" \/ m.kids = <<>> THEN m ELSE m.kids[1],
                    n, Positions(MaxDepth))
    IN IF deep.is = "text" THEN deep.val ELSE "hangs"

Piece(n) ==
    CASE n.is \in {"text", "img"} -> n.val
      [] n.is = "br" -> <<LF>>
      [] n.is = "a" ->
            IF n.val.href = <<>> THEN n.val.text
            ELSE IF n.val.text \in {<<>>, n.val.href} THEN n.val.href
            ELSE <<Other>> \o n.val.text \o <<Other, Other>> \o n.val.href \o <<Other>>
      [] n.is \in {"strong", "i"} ->
            IF n.val = <<>> THEN <<>> ELSE <<Other>> \o n.val \o <<Other>>
      [] n.is = "timg" -> Joined(Vals(n.kids))
      [] n.is = "p" -> \* images of class attachment get lines of their own
            <<LF>> \o IF n.kids = <<>> THEN <<>> ELSE Joined(Vals(n.kids)) \o <<LF>>
      [] n.is = "quote" -> DeepText(n) \o <<Other, Space>>
      [] n.is = "code" -> DeepText(n)
      [] OTHER -> <<>>

Blanks == {Space, LF, CR}
TrimSpace(s) ==
    LET I == {i \in DOMAIN s : s[i] \notin Blanks}
    IN IF I = {} THEN <<>> ELSE SubSeq(s, Min(I), Max(I))
Halve(st, b) ==
    IF b = LF /\ st.one THEN [st EXCEPT !.one = FALSE]
    ELSE [out |-> Append(st.out, b), one |-> b = LF]
Halved(s) == \* strings.ReplaceAll of two newlines by one
    Run(Halve, [out |-> <<>>, one |-> FALSE], s).out
HasBlankLine(s) == \E i \in 1..(Len(s) - 1) : s[i] = LF /\ s[i + 1] = LF

\* Mutant: newlines are replaced once.
UnblankOnce(s) == IF HasBlankLine(s) THEN Halved(TrimSpace(s)) ELSE s

\* At most one time for each byte.
Unblank(s) ==
    Run(LAMBDA t, i : IF HasBlankLine(t) THEN Halved(TrimSpace(t)) ELSE t,
        s, Positions(Len(s)))

Raw(nodes) == Joined([i \in DOMAIN nodes |-> Piece(nodes[i])])
NormalizePost(nodes) == Unblank(Raw(nodes))

\* parsePrivateMessageID: the last body in the first row of each table.  Without
\* text it is an error, and the message is asked for again by every poll.
parseMessage(doc) ==
    LET tables == Below(Below(Content(<<doc>>), "thread"), "table")
        rows == Joined([i \in DOMAIN tables |-> First(Kids(tables[i], "row"))])
        bodies == Vals(Below(rows, "body"))
    IN IF bodies = <<>> THEN <<>> ELSE NormalizePost(Last(bodies))
-----------------------------------------------------------------------------
(* The site's pages: how it shows rows, in the views that the code names,   *)
(* and posts.                                                               *)
In(is, kids) == <<Node(is, 0, kids)>>
Wide(kids) == In("container", In("content", kids))
Body(kids) == Node("body", 0, kids)
Nav == [current |-> 2, total |-> 3]
Navs(is) == Node(is, Nav, <<>>)
PostsPage(rs) ==
    Body(In("usergroup", Wide(
         <<Navs("breadcrumbs"), Node("thread", 0, Leaves("row", rs)),
           Node("breadcrumbs", [current |-> Bad, total |-> 3], <<>>)>>)))
Forum(rs) == Node("forum", 0, Leaves("row", rs))
ForumView(rs) == Body(In("usergroup", Wide(<<Forum(rs)>>)))
BookmarksView(rs) ==
    Body(Wide(In("form", <<Node("pages", 3, <<>>), Forum(rs)>>)))
LepersPage(rs) ==
    Body(Wide(In("standard", In("inner",
         <<Navs("mqnav"), Node("table", 0, Leaves("row", rs)), Navs("mqnav")>>))))
MessagePage(nodes) ==
    Body(Wide(In("thread", In("table",
         <<Node("row", 0, <<Node("author", 1, <<>>), Node("body", nodes, <<>>)>>),
           Node("row", 0, <<Node("body", <<>>, <<>>)>>)>>))))
FolderPage(rs) == Body(Wide(In("form", In("table", Leaves("row", rs)))))

PostRows == [id : {1, 2, Bad}, author : {1, Missing}, text : {1, Missing}]
ThreadRows == [id : {1, 2, Bad}, title : {1, Missing}, replies : {1, Bad, Missing},
               time : {1, Bad}, poster : {1, Missing}, author : {2}]
LeperRows == [postid : {0, 60, 9999, 10060, Bad}, minute : {1, 2, Bad}, named : {1, 2, Missing}]
FolderRows == [id : {1, 2, Bad}, author : {1, Missing}, time : {1, Bad}]

Text == {<<Other>>, <<LF>>, <<LF, LF, Other>>, <<Space>>}
PostNodes ==
    {Node("text", t, <<>>) : t \in Text} \cup {Node("br", 0, <<>>), Node("div", 0, <<>>)}
    \cup {Node("a", l, <<>>) : l \in [href : {<<>>, <<Other>>}, text : {<<>>, <<Other, Other>>}]}
    \cup {Node("strong", t, <<>>) : t \in {<<>>, <<Other>>}}
    \cup {Node("p", 0, Leaves("img", u)) : u \in {<<>>, << <<Other>> >>}}
    \cup {Node("quote", 0, <<Node("a", 0, Leaves("text", << <<Other>> >>))>>)}

VARIABLES
    kind,   \* what is shown: "posts", "threads", "lepers", "folder" or "post"
    shown   \* the rows of a page, or the nodes of a post
pageVars == <<kind, shown>>

Rows(k) == CASE k = "posts" -> PostRows [] k = "threads" -> ThreadRows
             [] k = "lepers" -> LeperRows [] k = "folder" -> FolderRows
             [] k = "post" -> PostNodes
PagesInit == kind \in {"posts", "threads", "lepers", "folder", "post"} /\ shown = <<>>
PagesNext ==
    /\ Len(shown) < (IF kind = "post" THEN MaxPieces ELSE MaxEntries)
    /\ \E r \in Rows(kind) : shown' = Append(shown, r)
    /\ UNCHANGED kind
PagesSpec == PagesInit /\ [][PagesNext]_pageVars
-----------------------------------------------------------------------------
Whole(r) == \* nothing is unreadable, and only some fields may be missing
    \A f \in DOMAIN r : r[f] # Bad /\ (f \in {"poster", "postid"} \/ r[f] # Missing)

\* A page gives the rows that are whole, in its order (the leper's colony: in the
\* order of time), each once, in the forum's view as in that of the bookmarks;
\* a damaged row takes no other with it, and the page numbers stay readable.
\* An error says that a number was unreadable, and a row that is left out
\* without one lacks a part.
PagesParsed ==
    LET whole == Only(shown, {r \in ToSet(shown) : Whole(r)})
    IN /\ kind = "posts" =>
              parsePosts(PostsPage(shown)) = [posts |-> whole, current |-> 2, total |-> 3]
       /\ kind = "threads" =>
              LET forum == parseThreads(ForumView(shown))
                  marks == parseThreads(BookmarksView(shown))
              IN /\ forum.threads = marks.threads /\ forum.err = marks.err
                 /\ forum.total = 1 /\ marks.total = 3
                 /\ [i \in DOMAIN marks.threads |-> marks.threads[i].id] =
                       [i \in DOMAIN whole |-> whole[i].id]
                 /\ marks.err => \E r \in ToSet(shown) : Bad \in {r.id, r.replies}
                 /\ ~marks.err => \A r \in ToSet(shown) :
                       Whole(r) \/ Missing \in {r.title, r.replies} \/ r.time = Bad
       /\ kind = "lepers" =>
              LET entries == parseLepers(LepersPage(shown))
              IN [i \in DOMAIN entries |-> entries[i].row] = Reverse(whole)
       /\ kind = "folder" => parseFolder(FolderPage(shown)) = whole

\* "Converts a node that wraps a post into an IRC-friendly string": no blank lines
\* are left, lines and words stay what they are, and a private message gives
\* the post that is in its page.
TextLines(s) ==
    Run(LAMBDA out, line : IF WordsOf(line) = <<>> THEN out ELSE Append(out, WordsOf(line)),
        <<>>, SplitAt(s, LF))
PostNormalized ==
    kind = "post" =>
        /\ ~HasBlankLine(NormalizePost(shown))
        /\ TextLines(NormalizePost(shown)) = TextLines(Raw(shown))
        /\ parseMessage(MessagePage(shown)) = NormalizePost(shown)
=============================================================================
