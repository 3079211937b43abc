CONSTANTS
  s1 = s1
  s2 = s2
  s3 = s3
  v1 = v1
  None = None
  Noop = Noop
  Server <- Two
  Incoming <- Two
  Outgoing <- Nobody
  Value <- OneValue
  Priority <- EqualPriority
  Batching = TRUE
  PreVote = FALSE
  CheckQuorum = FALSE
  MaxEntries = 1
  MaxInflight = 1
  MaxMsgs = 10
  Budget <- PipelineBudget
SPECIFICATION PipelineSpec
CHECK_DEADLOCK FALSE
INVARIANTS CommittedIsDurable RestartInRange CheckRaft
