CONSTANTS
  SegmentRecords = 2
  MaxIndex = 3
  MaxTerm = 2
  MaxBatch = 3
  MaxOps = 4
  MaxCrashes = 1
SPECIFICATION Spec
INVARIANT SuffixOverwriteSurvivesCrash
CHECK_DEADLOCK FALSE
