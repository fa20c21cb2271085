SPECIFICATION PreparedSpec
CONSTANTS
  Horizon = 4
  Start <- MCStart
  Plans <- MCPlans
  Proposals <- MCProposals
  NoCap = NoCap
  Nothing = Nothing
  World <- MCWorld
INVARIANTS InputAccounted SupplyAccounted NeverWorseThanBaseline
CHECK_DEADLOCK FALSE
