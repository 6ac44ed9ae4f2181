----------------------------- MODULE Validation -----------------------------
(***************************************************************************)
(* Whether a node accepts a transaction or a block: the IVerifiable        *)
(* methods of TransactionInput, TransactionOutput, Transaction,            *)
(* BlockHeader and Block. They read the storage and the system clock, and  *)
(* an exception they let out ends in the same rejection as FALSE.          *)
(***************************************************************************)
EXTENDS Storage

CONSTANT ClockTimes   \* the readings of Instant.now().getEpochSecond()

VARIABLE clock

ASSUME ClockAssumption == ClockTimes \subseteq Int

\* The system clock only moves forward.
Tick == \E now \in ClockTimes : now > clock /\ clock' = now

-----------------------------------------------------------------------------
(* Transactions                                                            *)

inputVerify(input) ==
  /\ canGetTransaction(input.InputHash)
  /\ clock >= TxOf[input.InputHash].TimeStamp
  /\ OutputExists(OutpointOf(input))
  /\ input.unlocks

verifyInputs(t) == \A i \in DOMAIN InputsOf(t) : inputVerify(InputsOf(t)[i])

verifyOutputs(t) ==
  \A i \in DOMAIN OutputsOf(t) : OutputsOf(t)[i].lockFits /\ OutputsOf(t)[i].Amount > 0

verifyInputsUnspent(t) == \A o \in Spends(t) : ~isTransactionOutputSpent(o)

\* The amount an input brings in; a coinbase input brings in nothing.
InputAmount(input) ==
  IF input.InputHash = ZeroHash
  THEN 0
  ELSE OutputsOf(input.InputHash)[input.IndexNumber + 1].Amount

getInputTotal(t) == Total([i \in DOMAIN InputsOf(t) |-> InputAmount(InputsOf(t)[i])])

getFees(t) == Wrap(getInputTotal(t) - getOutputTotal(t))

\* Slip: a transaction stops verifying once its inputs are spent.
transactionVerifyUnspent(t) ==
  /\ verifyInputs(t)
  /\ verifyInputsUnspent(t)
  /\ verifyOutputs(t)
  /\ getFees(t) > TxOf[t].Size * MinSatPerByte

transactionVerify(t) ==
  LET fees == getFees(t)
  IN  /\ verifyInputs(t)
      /\ verifyOutputs(t)
      /\ fees > TxOf[t].Size * MinSatPerByte
      /\ InputsOf(t) # << >>
      /\ OutputsOf(t) # << >>
      /\ TxOf[t].TimeStamp < LongMax
      /\ TxOf[t].Size < MaxTransactionSize
      /\ fees > 0
      /\ getInputTotal(t) > 0
      /\ getOutputTotal(t) > 0

verifyCoinbase(t, height) ==
  /\ Len(InputsOf(t)) = 1
  /\ InputsOf(t)[1].unlocks
  /\ OutpointOf(InputsOf(t)[1]) = <<ZeroHash, height>>
  /\ verifyOutputs(t)
  /\ OutputsOf(t) # << >>
  /\ TxOf[t].TimeStamp < LongMax
  /\ TxOf[t].Size < MaxTransactionSize

-----------------------------------------------------------------------------
(* Blocks                                                                  *)

headerVerify(b) ==
  LET H == BlockOf[b]
      P == BlockOf[H.HashPreviousBlock]
  IN  /\ H.BlockHeight > 0 =>
           /\ H.HashPreviousBlock \in blocks
           /\ H.BlockHeight = P.BlockHeight + 1
           /\ H.DifficultyTarget >=
                calculateDifficultyTarget(Wrap(H.Time - P.Time), P.DifficultyTarget)
      /\ Wrap(H.Time - TimeVarianceAllowedSeconds) <= clock

verifyTransactions(b) ==
  /\ BlockOf[b].BlockHeight # 0 => Len(TxsOf(b)) >= 2
  /\ TxsOf(b) # << >> => verifyCoinbase(TxsOf(b)[1], BlockOf[b].BlockHeight)
  /\ SpendsOnce(TxsOf(b))
  /\ \A k \in 2 .. Len(TxsOf(b)) : transactionVerify(TxsOf(b)[k])

\* Slip: the fees count twice.
getBlockFeesTwice(b) ==
  2 * Total([k \in DOMAIN TxsOf(b) |->
               IF getFees(TxsOf(b)[k]) > 0 THEN getFees(TxsOf(b)[k]) ELSE 0])

getBlockFees(b) ==
  Total([k \in DOMAIN TxsOf(b) |->
           LET fees == getFees(TxsOf(b)[k]) IN IF fees > 0 THEN fees ELSE 0])

verifyBlockReward(b) ==
  LET fees == getBlockFees(b)
  IN  /\ TxsOf(b) # << >>
      /\ fees >= 0
      /\ getOutputTotal(TxsOf(b)[1])
           <= Wrap(calculateBlockReward(BlockOf[b].BlockHeight) + fees)

blockVerify(b) ==
  /\ headerVerify(b)
  /\ verifyTransactions(b)
  /\ verifyBlockReward(b)
  /\ BlockOf[b].sealed

\* Slip: off by one past the coinbase.
verifyTransactionsUnspentFromThird(b) ==
  \A k \in 3 .. Len(TxsOf(b)) : verifyInputsUnspent(TxsOf(b)[k])

verifyTransactionsUnspent(b) ==
  \A k \in 2 .. Len(TxsOf(b)) : verifyInputsUnspent(TxsOf(b)[k])

\* BlockchainStorage.verify: the whole stored chain is valid.
storageVerify ==
  \A i \in DOMAIN blocksByHeight :
    blocksByHeight[i] # NoBlock /\ blockVerify(blocksByHeight[i])
=============================================================================
