SPECIFICATION Spec
CONSTANTS
  m0 = m0
  m1 = m1
  m2 = m2
  m3 = m3
  m4 = m4
  m5 = m5
  f5 = f5
  n3 = n3
  z = z
  t2 = t2
  t4 = t4
  t5 = t5
  u5 = u5
  x4 = x4
  x5 = x5
  old = old
  newer = newer
  short = short
  old_pin = old_pin
  new_pin = new_pin
  honest = honest
  other = other
  bad = bad
  None = None
  Header <- MCHeader
  Hash <- MCHash
  HeightOf <- MCHeight
  ParentOf <- MCParent
  BlockId <- MCId
  Activation = 2
  EpochAnchor <- MCEpoch
  PreviousAnchor <- MCPrevious
  SemanticId <- MCSemantic
  Terminal <- MCTerminal
  WireHeight <- MCWire
  Frame <- MCFrame
  FrameError <- MCFrameError
  Statement <- MCStatement
  Sound <- MCSound
  History <- MCHistory
  Tampered <- MCTampered
  RelationOf <- MCRelation
  HasRange <- MCRange
  Default = honest
  BadUrl = bad
  MaxWalk = 3
  RangeMax = 2
  MaxSingle = 2
  Runs = 2
  Walks = 0
  Classes = 2
  Pin <- BothPins
  Faults = TRUE
  Reloads = 1
  Source <- OneSource
  Offers <- CacheOffers
  Serves <- MCServes
INVARIANTS TrustLabelIsTrue
