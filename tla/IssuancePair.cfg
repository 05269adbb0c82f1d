SPECIFICATION Spec
CONSTANTS
  WriteModes = {"", "in-place"}
  Keystore = FALSE
  FsGroups = {1}
  MountGroups = {Unset}
  Intervals = {1}
  Unset = Unset
  NotANumber = NotANumber
  MaxGid = 2
  MinInterval = 2
  DefaultInterval = 2
  Duration = 5
  Slack = 1
  Gens = {1, 2, 3, 4, 5}
  Bundles = {1, 2}
  MaxFaults = 0
  MaxChanges = 1
INVARIANTS PairBelongsTogether
CHECK_DEADLOCK FALSE
