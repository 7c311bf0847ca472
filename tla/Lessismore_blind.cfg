SPECIFICATION Spec
CONSTANTS
  Price <- Price3
  Scale = 6
  Grain = 10
  Base = 120
  MaxCount = 3
  LeastProfit = 1
  AddDiff = 1
  PeakDiff = 2
  Deposit = 385
  MaxCandle = 4
  MaxTrade = 4
  Fault <- Blind
PROPERTY SellsAtProfit
