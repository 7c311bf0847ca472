SPECIFICATION FairSpec
CONSTANTS
  spot = spot
  margin = margin
  otc = otc
  Account <- Account3
  Spot <- spot
  Total = 2
  Grain = 2
INVARIANTS OwnAndRecent MissingHasFailed BalanceIsReal
PROPERTY CallEnds
