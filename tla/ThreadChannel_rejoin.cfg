SPECIFICATION Spec
CONSTANTS
  c1 = c1
  c2 = c2
  None = None
  Conns = {c1}
  Posts = {1, 2}
  Authors = {"ann", "bob"}
  AuthorOf <- TwoAuthors
  Pages <- Polls
  QueueCap = 2
  Stalled = {}
  MaxCmds = 5
INVARIANTS IInv NoPostLost NoAuthorMissing AtMostThrice TakenInOnce SubscribedWhereJoined
\* The bound MaxCmds lets clients stop, and a data race may stop the process.
CHECK_DEADLOCK FALSE
