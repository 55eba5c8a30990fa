SPECIFICATION Spec
CONSTANTS
  None = None
  Runs = 3
  Walks = 1
  Clears = 1
  Heights = {1, 2}
INVARIANTS TypeOK StampIsTheLastVerdict ChipIsEarned WalkUnderItsResult OneGuardedRun
CHECK_DEADLOCK FALSE
