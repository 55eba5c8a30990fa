SPECIFICATION Spec
CONSTANTS
  r1 = r1
  r2 = r2
  r3 = r3
  v1 = v1
  v2 = v2
  NoBucket = NoBucket
  Nobody = Nobody
  Request = {r1, r2, r3}
  Visitor = {v1, v2}
  RateMax = 1
  RateMs = 2
  RangeBudget = 2
  Counts = {2}
  MaxTime = 6
SYMMETRY Alike
INVARIANTS TypeOK LimitedOnlyWhenOver AdmittedPerWindow HeadersPerWindow
CHECK_DEADLOCK FALSE
