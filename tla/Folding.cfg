CONSTANTS
  IntBits = 6
  HalfBits = 3
SPECIFICATION Spec
INVARIANTS
  FoldsToTheSameValue
  TrapsStay
CHECK_DEADLOCK FALSE
