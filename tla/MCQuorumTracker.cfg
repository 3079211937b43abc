CONSTANTS
  Id = {s1, s2, s3, s4}
  MaxIndex = 2
  Group = {1, 2}
  Ballot = {"yes", "no"}
  Confs <- MCConfs
SPECIFICATION MCSpec
INVARIANTS VoteResultIsExact NoTwoWinners CommittedIndexIsQuorumIndex GroupCommitIsLargest
PROPERTIES AcksRaiseCommit
SYMMETRY NodeSymmetry
