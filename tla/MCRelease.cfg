SPECIFICATION ApartSpec
CONSTANTS
  m0 = m0
  m1 = m1
  m2 = m2
  m3 = m3
  m4 = m4
  m5 = m5
  f5 = f5
  n3 = n3
  z = z
  t2 = t2
  t4 = t4
  t5 = t5
  u5 = u5
  x4 = x4
  x5 = x5
  old = old
  newer = newer
  short = short
  late = late
  v1p = v1p
  a = a
  b = b
  r1 = r1
  r2 = r2
  None = None
  Header <- MCHeader
  Hash <- MCHash
  HeightOf <- MCHeight
  ParentOf <- MCParent
  BlockId <- MCId
  Activation = 2
  EpochAnchor <- MCEpoch
  PreviousAnchor <- MCPrevious
  SemanticId <- MCSemantic
  Terminal <- AllTerminals
  WireHeight <- AllWire
  Frame <- AllFrames
  FrameError <- AllErrors
  Statement <- AllStatements
  Sound <- AllSound
  History <- AllHistories
  Pack <- MCPack
  RelationOf <- MCRelation
  MadeUnder <- MCMade
  Classes = 2
  Needs <- MCNeeds
  Override <- MCOverride
  Offers <- MCOffers
  Serves <- MCServes
  Targets <- MCTargets
  RangeMax = 2
  HeaderBytes = 3
  TrailerBytes = 1
  ClassBytes = 1
  Leaves = 2
  Body <- MCPack
  Digest <- MCDigest
  Tag = {r1, r2}
  Carries <- MCCarries
  MaxPacks = 2
  Shipped = a
  ChainTips <- MCTips
  BodyBytes = 3
  PageWord = 16
INVARIANTS TypeOK NativeVerifiedIsSound NativeWalkIsTrue TwinAgrees PageBuildsOnePack AcceptedIsTheChains
PROPERTIES NativeEnds PublishedPagesFindTheirFiles
