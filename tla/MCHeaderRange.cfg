SPECIFICATION FairSpec
CONSTANTS
  a = a
  b = b
  Start = 2
  Count = 5
  Parallel = 3
  Block = {a, b}
  Tips = {3, 4, 6}
INVARIANTS TypeOK AskedOnce RangeInOrder NamedIsPastTip
PROPERTIES Settles LanesStop
