------------------------------- MODULE Mining -------------------------------
(***************************************************************************)
(* An application that mines beside the event loops: it lets BlockBuilder  *)
(* assemble a candidate, looks for a nonce, and stores the block.          *)
(* createBlockFromMempoolWithCoinbasePayToPublicKeyHash reads the tip      *)
(* three times, then the mempool, then the UTXO set transaction by         *)
(* transaction, while handlers store blocks. The application is a thread   *)
(* of its own; it stores a block with the same putBlock as the handlers,   *)
(* but what it checks before is Block.verify alone, over and over with     *)
(* another nonce: a candidate that can never verify keeps it for good (the *)
(* repository's README shows such an application).                         *)
(*                                                                         *)
(* The collections are taken to be thread safe here: what is asked is what *)
(* interleavings alone do to a candidate. What races do to the collections *)
(* themselves is in EventLoops.                                            *)
(***************************************************************************)
EXTENDS EventLoops

CONSTANTS
  Application,     \* the thread of EventLoops that mines and receives nothing
  Arriving,        \* the blocks and transactions that peers send
  SizeLimit,       \* the size the application allows a candidate
  MaxBlockSize,
  FixedSize        \* what the header and the coinbase take of a block

ASSUME MiningAssumption ==
  /\ ~RacyCollections
  /\ Application \in EventLoops
  /\ Arriving \subseteq Relayable
  /\ {SizeLimit, MaxBlockSize, FixedSize} \subseteq Nat

VARIABLES
  making,        \* where the application is in BlockBuilder
  candidate,     \* the block under construction
  waiting,       \* the transactions of its copy of the mempool still ahead
  toRemove,
  mixed,         \* whether the three reads saw different tips
  undisturbed    \* whether no loop changed the chain since the first of them

builderVars == <<making, candidate, waiting, toRemove, mixed, undisturbed>>
miningVars  == <<vars, builderVars>>

NoCandidate ==
  [Time |-> 0, HashPreviousBlock |-> NoBlock, BlockHeight |-> 0,
   DifficultyTarget |-> 0, Transactions |-> {}, Coinbase |-> 0]

MiningTypeOK ==
  /\ TypeOK
  /\ pc[Application] \in {"idle"} \cup Putting
  /\ making \in {"nothing", "height", "difficulty", "mempool", "walk", "block"}
  /\ candidate.HashPreviousBlock \in BlockHash \cup {NoBlock}
  /\ candidate.Transactions \cup waiting \cup toRemove \subseteq TxHash
  /\ {candidate.Time, candidate.BlockHeight, candidate.DifficultyTarget,
      candidate.Coinbase} \subseteq Int
  /\ mixed \in BOOLEAN /\ undisturbed \in BOOLEAN
  /\ making = "nothing" => candidate = NoCandidate /\ waiting = {} /\ toRemove = {}
  /\ making # "nothing" => At(Application, "idle")

MiningInit ==
  /\ Init
  /\ making = "nothing"
  /\ candidate = NoCandidate
  /\ waiting = {}
  /\ toRemove = {}
  /\ mixed = FALSE
  /\ undisturbed = FALSE

-----------------------------------------------------------------------------
(* The chain as the application finds it                                   *)

Tip == blocksByHeight[blockheight + 1]

\* Whether a loop is in the middle of putBlock.
LoopsPutting == \E e \in EventLoops : pc[e] \in Putting \ {"height"}

\* Everything but the reads and writes of the application itself.
Leave == UNCHANGED <<vars, undisturbed>>

\* The candidate is dropped, for another one or because an exception of the
\* storage was thrown.
Abandon ==
  /\ making' = "nothing"
  /\ candidate' = NoCandidate
  /\ waiting' = {}
  /\ toRemove' = {}
  /\ mixed' = FALSE
  /\ undisturbed' = FALSE

-----------------------------------------------------------------------------
(* BlockBuilder                                                            *)

\* setTimestamp, setHashPreviousBlock. A height that was published before its
\* block stands in the list has no hash: an exception, and nothing begins.
ReadTip ==
  /\ making = "nothing"
  /\ At(Application, "idle")
  /\ canGetHighestBlock
  /\ making' = "height"
  /\ candidate' = [NoCandidate EXCEPT !.Time = clock, !.HashPreviousBlock = Tip]
  /\ undisturbed' = ~LoopsPutting
  /\ UNCHANGED <<vars, waiting, toRemove, mixed>>

\* setBlockHeight.
ReadHeight ==
  /\ making = "height"
  /\ making' = "difficulty"
  /\ candidate' = [candidate EXCEPT !.BlockHeight = blockheight + 1]
  /\ mixed' = (blockheight # BlockOf[candidate.HashPreviousBlock].BlockHeight)
  /\ UNCHANGED <<waiting, toRemove>>
  /\ Leave

\* calculateDifficultyTarget.
ReadDifficulty ==
  /\ making = "difficulty"
  /\ \/ /\ canGetHighestBlock
        /\ making' = "mempool"
        /\ candidate' = [candidate EXCEPT !.DifficultyTarget =
             calculateDifficultyTarget(Wrap(candidate.Time - BlockOf[Tip].Time),
                                       BlockOf[Tip].DifficultyTarget)]
        /\ mixed' = (mixed \/ Tip # candidate.HashPreviousBlock)
        /\ UNCHANGED <<waiting, toRemove>>
        /\ Leave
     \/ ~canGetHighestBlock /\ Abandon /\ UNCHANGED vars

\* addMempoolTransactions: it walks a copy of the mempool, ...
ReadMempool ==
  /\ making = "mempool"
  /\ making' = "walk"
  /\ waiting' = mempool
  /\ UNCHANGED <<candidate, toRemove, mixed>>
  /\ Leave

\* Slip: a spent input goes unnoticed.
minableSpent(t) == transactionVerify(t)

minable(t) == transactionVerify(t) /\ verifyInputsUnspent(t)

\* ... in an order of fees and ages. The comparator is no order (it casts a
\* difference of longs to int and reads the clock anew each time), so any
\* transaction may be next. The size of those taken so far is not counted; a
\* transaction that is too large alone ends the walk.
WalkMempool ==
  /\ making = "walk"
  /\ \E t \in waiting :
       \/ /\ ~minable(t)
          /\ waiting' = waiting \ {t}
          /\ toRemove' = toRemove \cup {t}
          /\ UNCHANGED candidate
       \/ /\ minable(t)
          /\ TxOf[t].Size < SizeLimit
          /\ waiting' = waiting \ {t}
          /\ candidate' = [candidate EXCEPT !.Transactions = @ \cup {t}]
          /\ UNCHANGED toRemove
       \/ /\ minable(t)
          /\ TxOf[t].Size >= SizeLimit
          /\ waiting' = {}
          /\ UNCHANGED <<candidate, toRemove>>
  /\ UNCHANGED <<making, mixed>>
  /\ Leave

\* Slip: what was taken is removed as well.
ForgetTaken == mempool' = mempool \ (toRemove \cup candidate.Transactions)

Forget == mempool' = mempool \ toRemove

\* Slip: the coinbase collects the fees twice.
AmountTwice ==
  Wrap(calculateBlockReward(candidate.BlockHeight)
       + 2 * Total([t \in candidate.Transactions |-> getFees(t)]))

\* addCoinbasePayToPublicKeyHash: the reward and all fees.
Amount ==
  Wrap(calculateBlockReward(candidate.BlockHeight)
       + Total([t \in candidate.Transactions |-> getFees(t)]))

\* The walk has ended: what it left out is removed from the mempool, and the
\* coinbase is added.
FinishCandidate ==
  /\ making = "walk"
  /\ waiting = {}
  /\ making' = "block"
  /\ candidate' = [candidate EXCEPT !.Coinbase = Amount]
  /\ toRemove' = {}
  /\ Forget
  /\ UNCHANGED <<chainVars, clock, loopVars, relays, heightsTold,
                 waiting, mixed, undisturbed>>

-----------------------------------------------------------------------------
(* The application                                                         *)

BlockSize(txs) == FixedSize + SumFunction([t \in txs |-> TxOf[t].Size])

\* Block b is the candidate with its coinbase in front, its transactions
\* shuffled, its Merkle root and a nonce that meets its difficulty.
IsCandidate(b) ==
  LET B == BlockOf[b]
  IN  /\ B.HashPreviousBlock = candidate.HashPreviousBlock
      /\ B.BlockHeight = candidate.BlockHeight
      /\ B.Time = candidate.Time
      /\ B.DifficultyTarget = candidate.DifficultyTarget
      /\ Len(B.Transactions) = Cardinality(candidate.Transactions) + 1
      /\ {B.Transactions[k] : k \in 2 .. Len(B.Transactions)} = candidate.Transactions
      /\ InputsOf(B.Transactions[1])[1].IndexNumber = candidate.BlockHeight
      /\ getOutputTotal(B.Transactions[1]) = candidate.Coinbase
      /\ B.sealed = (BlockSize(candidate.Transactions) < MaxBlockSize)

\* Slip: the block is stored as soon as its nonce is found.
SubmitUnverified ==
  /\ making = "block"
  /\ \E b \in BlockHash :
       /\ IsCandidate(b)
       /\ Goto(Application, "height")
       /\ item' = [item EXCEPT ![Application] = b]
  /\ Abandon
  /\ UNCHANGED <<storageVars, clock, seenHeight, next, damaged, relays, heightsTold>>

\* The block verifies: the application goes on to putBlock and broadcasts it.
Submit ==
  /\ making = "block"
  /\ \E b \in BlockHash :
       /\ IsCandidate(b)
       /\ blockVerify(b)
       /\ Goto(Application, "height")
       /\ item' = [item EXCEPT ![Application] = b]
  /\ Abandon
  /\ UNCHANGED <<storageVars, clock, seenHeight, next, damaged, relays, heightsTold>>

Build == ReadTip \/ ReadHeight \/ ReadDifficulty \/ ReadMempool \/ WalkMempool \/ FinishCandidate

\* The steps of putBlock, taken by the application.
PutOwnBlock ==
  /\ \/ PutHeight(Application) \/ PutHash(Application) \/ PutByHeight(Application)
     \/ PutTransaction(Application) \/ RelayBlock(Application)
  /\ UNCHANGED builderVars

Mine == Build \/ Submit \/ PutOwnBlock

\* A handler of another thread, on something a peer sent.
Handle(e) ==
  /\ \/ \E b \in Arriving \cap BlockHash : ReceiveBlock(e, b)
     \/ DiscardLowBlock(e) \/ VerifyBlock(e) \/ CheckUnspent(e)
     \/ PutHeight(e) \/ PutHash(e) \/ PutByHeight(e) \/ PutTransaction(e)
     \/ RelayBlock(e)
     \/ \E t \in Arriving \cap TxHash : ReceiveTransaction(e, t)
     \/ TransactionUnspent(e) \/ TransactionVerify(e) \/ TransactionConflict(e)
     \/ PutTransactionInMempool(e) \/ RelayTransaction(e)
  /\ undisturbed' = (undisturbed /\ chainVars' = chainVars)
  /\ UNCHANGED <<making, candidate, waiting, toRemove, mixed>>

MiningNext ==
  \/ Mine
  \/ \E e \in EventLoops \ {Application} : Handle(e)
  \/ Tick /\ UNCHANGED <<storageVars, loopVars, relays, heightsTold, builderVars>>

MiningSpec == MiningInit /\ [][MiningNext]_miningVars

-----------------------------------------------------------------------------
(* What a candidate is good for                                            *)

CandidateSpendsOnce ==
  \A t, u \in candidate.Transactions :
    \A m \in DOMAIN InputsOf(t), n \in DOMAIN InputsOf(u) :
      OutpointOf(InputsOf(t)[m]) = OutpointOf(InputsOf(u)[n]) => t = u /\ m = n

CandidateFits == BlockSize(candidate.Transactions) < MaxBlockSize

\* A candidate made of one tip, with a transaction, no output twice and a size
\* below the limit, verifies when it is complete and for as long as a nonce is
\* looked for, whatever the loops store meanwhile. (BlockBuilder checks none of
\* these four: each is a way to a candidate that never verifies.)
CandidateVerifies ==
  /\ making = "block"
  /\ ~mixed
  /\ candidate.Transactions # {}
  /\ CandidateSpendsOnce
  /\ CandidateFits
  => \E b \in BlockHash : IsCandidate(b) /\ blockVerify(b)

\* As long as no loop has changed the chain since the tip was read, a candidate
\* that verifies also passes what Block.verify does not look at: it stands on
\* the tip, one above its height, and spends unspent outputs.
UndisturbedExtends ==
  making = "block" /\ undisturbed =>
    \A b \in BlockHash : IsCandidate(b) /\ blockVerify(b) =>
      /\ BlockOf[b].HashPreviousBlock = Tip
      /\ BlockOf[b].BlockHeight = blockheight + 1
      /\ verifyTransactionsUnspent(b)

\* What is forgotten as not minable has lost an input to a block that is stored. It
\* was looked at long before, one transaction after the other while loops were in
\* the middle of putBlock; whatever the walk saw, it never drops a transaction for
\* a reason that may pass.
OnlySpentForgotten ==
  [][\A t \in mempool \ mempool' : \E b \in blocks : Spends(t) \cap SpentBy(b) # {}]_miningVars
=============================================================================
