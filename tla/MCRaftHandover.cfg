CONSTANTS
  s1 = s1
  s2 = s2
  s3 = s3
  v1 = v1
  None = None
  Noop = Noop
  Server <- Three
  Incoming <- Three
  Outgoing <- Nobody
  Value <- OneValue
  Priority <- EqualPriority
  Batching = FALSE
  PreVote = TRUE
  CheckQuorum = TRUE
  MaxEntries = 2
  MaxInflight = 2
  MaxMsgs = 9
  Budget <- HandoverBudget
SPECIFICATION LedSpec
CHECK_DEADLOCK FALSE
INVARIANTS TransferIsNeverForwardedTwice
PROPERTIES PreVoteGate
SYMMETRY FollowerSymmetry
