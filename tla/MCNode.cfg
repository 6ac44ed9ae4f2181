SPECIFICATION Spec
CONSTANTS
  BlockHash <- MCBlockHash
  TxHash <- MCTxHash
  BlockOf <- UniverseBlockOf
  TxOf <- UniverseTxOf
  ClockTimes <- MCClockTimes
  ZeroHash = "zero"
  NoBlock = "null"
  LongMax = 1000000
  CoinReward = 50
  HalvingInterval = 2
  MinSatPerByte = 1
  MaxTransactionSize = 10
  TargetSecondsPerBlock = 300
  TimeVarianceAllowedSeconds = 30
  SizeLimit = 5
INVARIANTS
  TypeOK
  ChainSound
  ViewsAgree
  UtxoExact
  ChainKeepsVerifying
  ValueConserved
  MempoolConflictFree
  MempoolVerifies
  RelayedOnce
  HeightsServable
PROPERTY
  ImplementsLedger
