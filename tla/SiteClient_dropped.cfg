SPECIFICATION Spec
CONSTANTS
  Parts = {"posts"}
  PostsPerPage = 2
  MaxPosts = 3
  MaxUnreadFaults = 1
  Bookmarks = {"t1", "t2", "t3", "t4", "t5"}
  ThreadsPerPage = 2
  MaxBumps = 3
  MaxBookmarkFaults = 1
  Callers = {"poller", "updater", "receiver"}
  Cancellable = {"receiver"}
  Burst = 2
  Late = 1
  MaxLeft = 3
PROPERTY DroppedTriedAgain
