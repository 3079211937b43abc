CONSTANTS
  Server = {s1, s2, s3}
  Request = {r1, r2}
  None = None
  MaxTerm = 2
  MaxLog = 2
  MaxEvents = 2
SPECIFICATION Spec
SYMMETRY Symmetry
INVARIANT ReadsAreLinearizable
CHECK_DEADLOCK FALSE
