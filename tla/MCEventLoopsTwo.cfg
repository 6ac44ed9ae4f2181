SPECIFICATION Spec
CONSTANTS
  EventLoops = {e1, e2}
  RacyCollections = TRUE
  BlockHash <- MCSideBlockHash
  TxHash <- MCSideTxHash
  BlockOf <- MCSideBlockOf
  TxOf <- MCSideTxOf
  ClockTimes <- MCLastClockTimes
  ZeroHash = "zero"
  NoBlock = "null"
  LongMax = 1000000
  CoinReward = 50
  HalvingInterval = 2
  MinSatPerByte = 1
  MaxTransactionSize = 10
  TargetSecondsPerBlock = 300
  TimeVarianceAllowedSeconds = 30
  MaxRelays = 0
SYMMETRY MCSymmetry
INVARIANTS
  TypeOK
  UnspentKept
  AcceptedVerifies
