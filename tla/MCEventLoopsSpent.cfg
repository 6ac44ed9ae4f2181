SPECIFICATION Spec
CONSTANTS
  EventLoops = {e1, e2}
  RacyCollections = FALSE
  BlockHash <- MCLongBlockHash
  TxHash <- MCLongTxHash
  BlockOf <- MCLongBlockOf
  TxOf <- MCLongTxOf
  ClockTimes <- MCLastClockTimes
  ZeroHash = "zero"
  NoBlock = "null"
  LongMax = 1000000
  CoinReward = 50
  HalvingInterval = 2
  MinSatPerByte = 1
  MaxTransactionSize = 10
  TargetSecondsPerBlock = 300
  TimeVarianceAllowedSeconds = 30
  MaxRelays = 0
SYMMETRY MCSymmetry
INVARIANT
  SpentStaysSpent
