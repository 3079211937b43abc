CONSTANTS
  SegmentRecords = 2
  MaxIndex = 3
  MaxTerm = 2
  MaxBatch = 3
  MaxOps = 4
  MaxCrashes = 2
SPECIFICATION Spec
INVARIANTS
  RecoveryKeepsPromise
  RecoveredLogIsOneLog
  RefusalLosesNothing
  IndexLocatesEntries
  IncarnationsAreFresh
CHECK_DEADLOCK FALSE
