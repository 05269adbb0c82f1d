SPECIFICATION FairSpec
CONSTANTS
  Volumes = {v1}
  Bundles = {b1, b2}
  None = None
  Torn = Torn
  MaxChanges = 3
INVARIANTS TypeOK RetriesDoNotMultiply ChangeNeverForgotten SampleIsFresh
PROPERTIES UsesABundleSource VolumesUpdatedUnlessStuck ShutdownEndsUnlessStuck
CHECK_DEADLOCK FALSE
