SPECIFICATION Spec
CONSTANTS
  EventLoops = {e1}
  RacyCollections = TRUE
  BlockHash <- MCBlockHash
  TxHash <- MCTxHash
  BlockOf <- MCBlockOf
  TxOf <- MCTxOf
  ClockTimes <- MCClockTimes
  ZeroHash = "zero"
  NoBlock = "null"
  LongMax = 1000000
  CoinReward = 50
  HalvingInterval = 2
  MinSatPerByte = 1
  MaxTransactionSize = 10
  TargetSecondsPerBlock = 300
  TimeVarianceAllowedSeconds = 30
  MaxRelays = 2
PROPERTY
  ImplementsNode
