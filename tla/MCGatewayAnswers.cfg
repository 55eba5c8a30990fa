SPECIFICATION Spec
CONSTANTS
  r1 = r1
  r2 = r2
  r3 = r3
  v1 = v1
  v2 = v2
  NoBucket = NoBucket
  Nobody = Nobody
  Request = {r1, r2, r3}
  Visitor = {v1}
  RateMax = 2
  RateMs = 2
  RangeBudget = 2
  Counts = {1, 2}
  MaxTime = 5
SYMMETRY Alike
INVARIANTS RangeIsAnswered
CHECK_DEADLOCK FALSE
