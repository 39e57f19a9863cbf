CONSTANTS
  Games = {g1}
  Operations = {"Analyze", "Pack"}
  MaxJobs = 2
  ActiveLimit = 2
  PipeCap = 1
  MaxLate = 0
  Faults = {}
  g1 = g1
SPECIFICATION FairSpec
INVARIANTS OneJobPerFolder
PROPERTIES OutcomeStays QueuedStarts
