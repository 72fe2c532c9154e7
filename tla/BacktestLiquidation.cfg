CONSTANTS
  Bottom = 1
  Top = 60
  Step = 10
  Pl <- MCPl
  BookedPl <- MCBookedPl
  Slack <- MCSlack
  EntryFor <- MCEntryFor
  OrderFee <- MCOrderFee
  FundingFee <- MCFundingFee
  Quantities <- MCQuantities
  Rates <- MCRates
  Liquidation <- MCLiquidation
  MinMargin <- MCMinMargin
  MaxMargin <- MCMaxMargin
  Leverages <- MCLeverages
  MinLeverage = 1
  AggregateEntry <- MCAggregateEntry
  InitialMargin <- MCInitialMargin
  CrossMaintenance <- MCCrossMaintenance
  CrossLiquidation <- MCCrossLiquidation
  CollateralFor <- MCCollateralFor
  StartBalance = 25
  StartPrice = 20
  Candles <- MCCandles
  Orders <- MCOrders
  Amounts <- MCAmounts
  MaxRunning = 2
  MaxTrades = 2
  MaxCalls = 6
  Transfers <- MCTransfers
SPECIFICATION Spec
PROPERTY LiquidationIsHonoured
CHECK_DEADLOCK FALSE
