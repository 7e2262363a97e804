SPECIFICATION FairSpec
CONSTANTS
  c1 = c1
  c2 = c2
  None = None
  Conns = {c1, c2}
  Posts = {1}
  Authors = {"ann"}
  AuthorOf <- OneAuthor
  Pages <- Polls
  QueueCap = 1
  Stalled = {}
  MaxCmds = 1
INVARIANT TakenInOnce
PROPERTY EveryPostArrives
\* The bound MaxCmds lets clients stop, and a data race may stop the process.
CHECK_DEADLOCK FALSE
