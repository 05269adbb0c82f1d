SPECIFICATION FairSpec
CONSTANTS
  Volumes = {v1}
  Bundles = {b1, b2}
  None = None
  Torn = Torn
  MaxChanges = 2
PROPERTIES VolumesUpdated
CHECK_DEADLOCK FALSE
