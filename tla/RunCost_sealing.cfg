SPECIFICATION CostSpec
CONSTANTS
  Horizon = 3
  Start <- MCStart
  Plans <- MCPlans
  Proposals <- MCProposals
  NoCap = NoCap
  None = None
  ChargeTypes <- MCChargeTypes
  CostPlans <- MCCostPlans
  CostProposals <- MCCostProposals
  Claims <- MCClaims
  OtherClaims <- MCOtherClaims
  Revisions <- MCRevisions
  Consignments <- MCConsignments
INVARIANT HonestIsSealed
INVARIANT AcceptedIsComputed
INVARIANT ComparisonNeverAdverse
INVARIANT PricedAsClaimed
INVARIANT ShipmentIsWhole
INVARIANT SavingAccountsForOrders
INVARIANT CostReadIsCostSealed
CHECK_DEADLOCK FALSE
