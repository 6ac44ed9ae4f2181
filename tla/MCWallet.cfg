SPECIFICATION WalletSpec
CONSTANTS
  k1 = k1
  k2 = k2
  torn = torn
  BlockHash <- MCBlockHash
  TxHash <- MCTxHash
  BlockOf <- MCBlockOf
  TxOf <- MCTxOf
  ClockTimes <- MCClockTimes
  ZeroHash <- MCZero
  NoBlock <- MCNull
  LongMax = 1000000
  CoinReward = 50
  HalvingInterval = 2
  MinSatPerByte = 1
  MaxTransactionSize = 10
  TargetSecondsPerBlock = 300
  TimeVarianceAllowedSeconds = 30
  SizeLimit = 5
  Keys <- MCKeys
  keypairs <- MCkeypairs
  ChangeKey = k1
  Orders <- MCOrders
  LockingScript <- MCLockingScript
  Others <- MCOthers
  TornPush = torn
INVARIANTS
  PaysExactFee
  UndisturbedPays
