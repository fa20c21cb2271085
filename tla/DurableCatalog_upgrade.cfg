\* Two processes, the newer format after the older, one that dies anywhere and
\* two files that are lost or overwritten.
SPECIFICATION Spec
CONSTANTS
  base = base  high = high  other = other  w1 = w1  w2 = w2
  Proc = {p1, p2}
  Execution = {x1, x2}
  Input = {base, high, other}
  World <- MCWorld
  Leaves = 2
  Formats = {1, 2}
  Mixed = FALSE
  None = None
  MaxFaults = 1
  MaxDamage = 2
SYMMETRY Symmetry
INVARIANT ExecutionIsOne
PROPERTIES AnswerIsWhole RecoveryNeverRefused
CHECK_DEADLOCK FALSE
