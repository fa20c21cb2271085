SPECIFICATION Spec
CONSTANTS
  Exec = {e1, e2}
  Challengers = {ppo}
  Scenarios = {surge}
  PpoOutcomes = {"fraction"}
  StressOutcomes = {"reserved", "short", "whole"}
  Stray = Stray
  Rates = {"decimal", "whole"}
  None = None
  MaxFaults = 1
INVARIANT OptionalEndsRunByCostOnly
INVARIANT StoredWhole
INVARIANT VerifiedIsOneExecution
SYMMETRY Symmetry
CHECK_DEADLOCK FALSE
