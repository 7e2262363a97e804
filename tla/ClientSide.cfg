SPECIFICATION Spec
CONSTANTS
  Parts = {"stream", "text", "pages", "nick", "reply"}
  CR = CR
  LF = LF
  Space = Space
  Colon = Colon
  Other = Other
  Streams <- Both
  BufCap = 7
  MaxBody = 8
  Rooms <- AnyRoom
  MaxName = 4
  MaxEntries = 2
  MaxPieces = 4
  MaxDepth = 2
  Nicks = {"ann", "bob", ""}
  Users = {"", "u"}
  MaxNickCmds = 4
  MaxFanOuts = 2
  LineCap = 3
  client = client
  None = None
  Conns = {client}
  Stalled = {}
  QueueCap = 1
  ThreadPosts = 3
  PostAuthor <- TwoAuthors
  Addressees <- AnnOrNobody
  MaxTargets = 2
\* The stream ends, the client has sent all its commands, the texts are bounded.
CHECK_DEADLOCK FALSE
INVARIANTS CutsDoNotMatter ParsesByGrammar BodyConverted AuthorsInvert
INVARIANTS PagesParsed PostNormalized
INVARIANTS NickAgrees PmAddressed QuotesLatest AcceptedInOrder ClientKnows
