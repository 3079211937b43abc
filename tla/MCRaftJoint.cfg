CONSTANTS
  s1 = s1
  s2 = s2
  s3 = s3
  v1 = v1
  None = None
  Noop = Noop
  Server <- Three
  Incoming <- NewPair
  Outgoing <- OldSingle
  Value <- OneValue
  Priority <- EqualPriority
  Batching = FALSE
  PreVote = FALSE
  CheckQuorum = FALSE
  MaxEntries = 2
  MaxInflight = 2
  MaxMsgs = 10
  Budget <- JointBudget
SPECIFICATION Spec
CHECK_DEADLOCK FALSE
INVARIANTS ElectionSafety CommittedIsDurable
SYMMETRY PairSymmetry
