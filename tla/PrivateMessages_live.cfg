SPECIFICATION FairSpec
CONSTANTS
  c1 = c1
  c2 = c2
  None = None
  Poller = Poller
  Conns = {c1}
  MaxPms = 2
  Listers = {c1}
  Senders = {"ann", "bob"}
  SenderOf <- TwoSenders
  QueueCap = 1
  Stalled = {}
PROPERTIES AcceptedIsAdded EveryPmArrives
