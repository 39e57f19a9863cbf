CONSTANTS
  Games = {g1}
  Operations = {"Analyze", "Compress", "Decompress", "Pack"}
  MaxJobs = 1
  ActiveLimit = 2
  PipeCap = 2
  MaxLate = 1
  Faults = {"step", "crash", "lock"}
  g1 = g1
SPECIFICATION FairSpec
INVARIANTS OneWriter ExcludedStops PromiseKept Durable
PROPERTIES CancelEnds
