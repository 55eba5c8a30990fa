SPECIFICATION Spec
CONSTANTS
  None = None
  Runs = 2
  Walks = 1
  Clears = 1
  Heights = {1, 2}
INVARIANTS CrimsonIsTheLastVerdict
CHECK_DEADLOCK FALSE
