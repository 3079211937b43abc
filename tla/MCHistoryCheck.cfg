CONSTANTS
  Node = {n1, n2}
  Context = {c1, c2, c3}
  Text = {"", "A", "B"}
  Hex <- MCHex
  HistoryLimit = 3
  MaxOps = 3
  MaxForgedOps = 2
SPECIFICATION Spec
CHECK_DEADLOCK FALSE
INVARIANTS VerdictIsExact ForgedTracesAreRefused ReplayIsExact DamagedWitnessIsRefused NegativesAreRefuted
SYMMETRY Renaming
