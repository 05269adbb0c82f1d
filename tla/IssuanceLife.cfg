SPECIFICATION FairSpec
CONSTANTS
  WriteModes = {"", "in-place"}
  Keystore = TRUE
  FsGroups = {Unset, 1, 3}
  MountGroups = {2}
  Intervals = {1}
  Unset = Unset
  NotANumber = NotANumber
  MaxGid = 2
  MinInterval = 2
  DefaultInterval = 2
  Duration = 5
  Slack = 1
  Gens = {1, 2, 3, 4, 5}
  Bundles = {1, 2}
  MaxFaults = 1
  MaxChanges = 1
INVARIANTS TypeOK NotDueMeansComplete NoLapse
PROPERTIES RenewalsSpaced RenewedInTheEnd GroupsFollow
