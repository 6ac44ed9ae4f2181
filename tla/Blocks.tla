------------------------------- MODULE Blocks -------------------------------
(***************************************************************************)
(* The immutable data of UISCoin: blocks and transactions, named by their  *)
(* hashes, and what a validator reads off one of them alone.               *)
(*                                                                         *)
(* A hash stands for the data it is the SHA-512 of: BlockOf and TxOf are   *)
(* the (collision free) inverse of Block.getHash and Transaction.getHash.  *)
(* What needs bytes to decide is a Boolean of the record:                  *)
(*   sealed     the block meets its proof of work, is below MaxBlockSize   *)
(*              and carries the Merkle root of its transactions;           *)
(*   unlocks    the unlocking script is short enough and, unless the input *)
(*              is a coinbase, it and the locking script of the output it  *)
(*              names run to their end without failing (no operator reads  *)
(*              the clock or the chain, so the outcome never changes);     *)
(*   lockFits   the locking script is below MaxLockingScriptLength.        *)
(***************************************************************************)
EXTENDS Integers, Sequences, Functions

CONSTANTS
  BlockHash,     \* hashes of the blocks in play
  TxHash,        \* hashes of the transactions in play
  ZeroHash,      \* new byte[64], the InputHash of a coinbase: hashes nothing
  NoBlock,       \* Java's null: a padded height, an absent map entry
  BlockOf,       \* the block a block hash stands for
  TxOf,          \* the transaction a transaction hash stands for
  LongMax,       \* Long.MAX_VALUE
  CoinReward,    \* coinsToSatoshis(50)
  HalvingInterval,             \* blocks between two halvings (21000000)
  MinSatPerByte,
  MaxTransactionSize,
  TargetSecondsPerBlock,
  TimeVarianceAllowedSeconds

Input  == [InputHash : TxHash \cup {ZeroHash}, IndexNumber : Int, unlocks : BOOLEAN]
Output == [Amount : Int, lockFits : BOOLEAN]

Transaction == [Inputs : Seq(Input), Outputs : Seq(Output),
                TimeStamp : Int, Size : Nat]

Block == [BlockHeight : Int, HashPreviousBlock : BlockHash \cup {ZeroHash},
          Time : Int, DifficultyTarget : Int,
          Transactions : Seq(TxHash), sealed : BOOLEAN]

ASSUME DataAssumption ==
  /\ ZeroHash \notin TxHash
  /\ ZeroHash \notin BlockHash
  /\ NoBlock \notin BlockHash
  /\ BlockHash \cap TxHash = {}
  /\ BlockOf \in [BlockHash -> Block]
  /\ TxOf \in [TxHash -> Transaction]

ASSUME ParameterAssumption ==
  /\ {LongMax, CoinReward, MinSatPerByte, MaxTransactionSize} \subseteq Nat
  /\ {TargetSecondsPerBlock, TimeVarianceAllowedSeconds} \subseteq Nat
  /\ HalvingInterval \in Nat \ {0}

-----------------------------------------------------------------------------
(* Outpoints: TransactionOutputIdentifier, a transaction and a zero-based  *)
(* index into its outputs.                                                 *)

TransactionOutputIdentifier == (TxHash \cup {ZeroHash}) \X Int

OutpointOf(input) == <<input.InputHash, input.IndexNumber>>

InputsOf(t)  == TxOf[t].Inputs
OutputsOf(t) == TxOf[t].Outputs
TxsOf(b)     == BlockOf[b].Transactions

\* What transaction t takes from, and adds to, the set of unspent outputs.
Spends(t)  == {OutpointOf(InputsOf(t)[i]) : i \in DOMAIN InputsOf(t)}
Creates(t) == {<<t, i - 1>> : i \in DOMAIN OutputsOf(t)}

\* The output that outpoint o names exists in its transaction.
OutputExists(o) == o[2] + 1 \in DOMAIN OutputsOf(o[1])

-----------------------------------------------------------------------------
(* Amounts are Java longs: sums wrap around.                               *)

Wrap(n) == ((n + LongMax + 1) % (2 * (LongMax + 1))) - LongMax - 1

Total(amounts) == Wrap(SumFunction(amounts))

getOutputTotal(t) == Total([i \in DOMAIN OutputsOf(t) |-> OutputsOf(t)[i].Amount])

\* The coins a block may mint: 50, halved every HalvingInterval blocks. Java
\* shifts a long by its operand modulo 64.
calculateBlockReward(height) ==
  CoinReward \div 2^((height \div HalvingInterval) % 64)

\* One step up when the previous block was recent, one step down when it was
\* not, between 3 and 63.
calculateDifficultyTarget(secondsSinceLast, lastDifficulty) ==
  CASE secondsSinceLast < TargetSecondsPerBlock ->
         IF lastDifficulty + 1 < 63 THEN lastDifficulty + 1 ELSE 63
    [] secondsSinceLast > TargetSecondsPerBlock ->
         IF lastDifficulty - 1 > 3 THEN lastDifficulty - 1 ELSE 3
    [] OTHER -> lastDifficulty
=============================================================================
