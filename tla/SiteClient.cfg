SPECIFICATION Spec
CONSTANTS
  Parts = {"posts", "bookmarks", "limiter"}
  PostsPerPage = 2
  MaxPosts = 6
  MaxUnreadFaults = 2
  Bookmarks = {"t1", "t2", "t3", "t4", "t5"}
  ThreadsPerPage = 2
  MaxBumps = 3
  MaxBookmarkFaults = 1
  Callers = {"poller", "updater", "receiver"}
  Cancellable = {"receiver"}
  Burst = 2
  Late = 1
  MaxLeft = 3
INVARIANTS NothingSkipped QuietThreadsFound RateKept
PROPERTIES PostsTaken BookmarksTracked RequestsSent
