SPECIFICATION FairSpec
CONSTANTS
  c1 = c1
  c2 = c2
  None = None
  Conns = {c1,c2}
  Threads = {"x","y"}
  MaxPosts = 3
  MinuteOf <- Late
  Authors = {"ann"}
  AuthorOf <- OneAuthor
  PageSize = 2
  MaxJoins = 2
CONSTRAINT FewJoins
INVARIANTS NoUpdateLost NoAuthorMissing MappingAgrees
PROPERTIES PollerInOrder JoinEnds
