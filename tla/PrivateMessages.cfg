SPECIFICATION Spec
CONSTANTS
  c1 = c1
  c2 = c2
  None = None
  Poller = Poller
  Conns = {c1, c2}
  MaxPms = 2
  Listers = {}
  Senders = {"ann", "bob"}
  SenderOf <- TwoSenders
  QueueCap = 1
  Stalled = {}
SYMMETRY ConnSymmetry
INVARIANTS IInv EarlyGetsAll ChronologicalUnlessMissed
PROPERTY Delivered
