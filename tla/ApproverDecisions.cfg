SPECIFICATION FairSpec
CONSTANTS
  r1 = r1
  r2 = r2
  Requests = {r1, r2}
  Missing = Missing
  Others = {r1}
  Verdicts <- MCVerdicts
  MaxVersion = 2
  MaxErrors = 1
INVARIANTS TypeOK StrangersUndecided OneDecision
PROPERTIES NoLostWrite EventuallyDecided
CHECK_DEADLOCK FALSE
