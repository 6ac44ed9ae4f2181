SPECIFICATION Spec
CHECK_DEADLOCK FALSE
CONSTANTS
  n1 = n1
  n2 = n2
  TxHash <- MCTxHash
  TxOf <- MCTxOf
  ZeroHash = "zero"
  NoBlock = "null"
  LongMax = 1000000
  CoinReward = 50
  HalvingInterval = 2
  MinSatPerByte = 1
  MaxTransactionSize = 10
  TargetSecondsPerBlock = 300
  TimeVarianceAllowedSeconds = 30
  Nodes <- MCPair
  Links <- MCPairLinks
  BlockHash <- MCFork
  BlockOf <- MCForkOf
  Askers = {n1, n2}
  MaxAsks = 1
  MaxDrops = 1
INVARIANTS
  TypeOK
  SharedBlockSharedHistory
PROPERTIES
  FallsSilent
  SyncsUnlessLost
