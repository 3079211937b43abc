CONSTANTS
  Node = {n1}
  Text = {"", "A"}
  Hex <- MCHex
  HistoryLimit = 16
  RowLimit = 20
  Tool = {t1, t2}
  Shell = {p1, p2}
  Traces <- MCTraces
  Concurrent = {"single"}
SPECIFICATION Spec
CHECK_DEADLOCK FALSE
INVARIANTS PassIsEarned RejectionIsSemantic SelfTestsHold OnlyPinnedToolsRun
PROPERTIES PinnedStaysPinned EveryInvocationEnds
