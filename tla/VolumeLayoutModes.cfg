SPECIFICATION Spec
CONSTANTS
  Absent = Absent
  Link = Link
  Dirs = {d1, d2, d3, d4, d5}
  Names = {"cert", "key", "ca", "extra"}
  CAFile <- MCCAFile
  MaxGen = 2
  MaxStops = 3
SYMMETRY Symmetry
INVARIANTS TypeOK Delivered NoLayoutFails
PROPERTIES InodesSurvive CAWriteTouchesNothingElse
CHECK_DEADLOCK FALSE
