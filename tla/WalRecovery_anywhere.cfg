SPECIFICATION Spec
CONSTANTS
  Tasks = {a, b, c}
  MaxSeq = 4
  MaxCrashes = 2
  CrashPoints <- Anywhere
  RenameMayFail = FALSE
SYMMETRY TaskSymmetry
INVARIANT NoTaskLost
CHECK_DEADLOCK FALSE
