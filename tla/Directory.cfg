SPECIFICATION Spec
CONSTANTS
  c1 = c1
  LC = LC
  None = None
  LCTitle = "LC"
  Digit <- Digits
  Words <- Cleaned
  Conns = {c1}
  Ids = {1, 2, 3}
  Titles = {"Foo", "A foo 0", "LC", "!!!"}
  WellKnown <- HintTaken
  Lists <- SingleRows
INVARIANTS TablesHold MappingAgrees TitleShown
PROPERTY NamesPermanent
