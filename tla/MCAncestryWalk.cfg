SPECIFICATION FairSpec
CONSTANTS
  m0 = m0
  m1 = m1
  m2 = m2
  f1 = f1
  f2 = f2
  n1 = n1
  l2 = l2
  z = z
  Header <- MCHeader
  Hash <- MCHash
  HeightOf <- MCHeight
  ParentOf <- MCParent
  BlockId <- MCId
  Tip <- MCTip
  Target <- MCTip
  MaxLen = 3
CHECK_DEADLOCK FALSE
INVARIANTS TypeOK AnswersAsStated AcceptedIsSealed SealedIsAccepted BreakIsPinpointed
PROPERTIES Returns
