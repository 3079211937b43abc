CONSTANTS
  s1 = s1
  s2 = s2
  s3 = s3
  v1 = v1
  None = None
  Noop = Noop
  Server <- Three
  Incoming <- Three
  Outgoing <- Nobody
  Value <- OneValue
  Priority <- EqualPriority
  Batching = FALSE
  PreVote = FALSE
  CheckQuorum = FALSE
  MaxEntries = 1
  MaxInflight = 1
  MaxMsgs = 14
  Budget <- OvertakeBudget
SPECIFICATION DivergedSpec
CHECK_DEADLOCK FALSE
INVARIANTS Agreement LogMatching LeaderCompleteness NoFatalAppend MatchedIsDurable
