SPECIFICATION MiningSpec
CHECK_DEADLOCK FALSE
CONSTANTS
  loop = loop
  app = app
  TxHash <- MCTxHash
  TxOf <- MCTxOf
  ZeroHash <- MCZero
  NoBlock <- MCNull
  BlockHash <- MCBlockHash
  BlockOf <- MCBlockOf
  LongMax = 1000000
  CoinReward = 50
  HalvingInterval = 2
  MinSatPerByte = 1
  MaxTransactionSize = 10
  TargetSecondsPerBlock = 300
  TimeVarianceAllowedSeconds = 30
  ClockTimes <- MCClockTimes
  EventLoops = {loop, app}
  Application = app
  RacyCollections = FALSE
  MaxRelays = 0
  Arriving <- MCArriving
  SizeLimit = 6
  MaxBlockSize = 8
  FixedSize = 3
INVARIANTS
  CandidateVerifies
  UndisturbedExtends
  StoredBlocksGrounded
PROPERTY
  OnlySpentForgotten
