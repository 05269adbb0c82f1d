SPECIFICATION FairSpec
CONSTANTS
  Bundles = {b1, b2}
  Long = {2, b2}
  Size <- MCSize
  MaxSize = 2
  Hole = Hole
  Absent = Absent
  Faults = TRUE
  MaxGen = 3
INVARIANTS TypeOK StoredPairIsOnDisk
PROPERTIES CertificateCompletesTheSet NeverEmptied HandsOverPairs
CHECK_DEADLOCK FALSE
