SPECIFICATION SnapshotSpec
CONSTANTS
  Portfolios <- MCPortfolios
  Revisions <- MCRevisions
  Configs <- MCConfigs
  FirstWeek = 100
  MaxWeek = 102
  Reopened = {87, 99}
  MaxChanges = 1
  Null = 1000000
  Nothing = Nothing
INVARIANTS NoOrderOnDoubt ItemsInfluence
PROPERTY ShadowNeverMovesPolicy
CHECK_DEADLOCK FALSE
