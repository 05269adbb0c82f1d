SPECIFICATION Spec
CONSTANTS
  Bundles = {b1, b2}
  Long = {2, b2}
  Size <- MCSize
  MaxSize = 2
  Hole = Hole
  Absent = Absent
  Faults = FALSE
  MaxGen = 2
INVARIANTS CAFileIsABundle
CHECK_DEADLOCK FALSE
