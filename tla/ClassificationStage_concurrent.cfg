SPECIFICATION Spec
CONSTANTS
  Exec = {e1, e2, e3}
  Run = {r1}
  NoRun = NoRun
  Content = {c1, c2}
  NoContent = NoContent
  Nobody = Nobody
  Archive = TRUE
  MaxFaults = 1
SYMMETRY Symmetry
INVARIANTS PublicationSound LocksReturned
PROPERTY NoEventAfterEnd
CHECK_DEADLOCK FALSE
