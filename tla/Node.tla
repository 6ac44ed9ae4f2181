-------------------------------- MODULE Node --------------------------------
(***************************************************************************)
(* A UISCoin node whose handlers run one at a time: what it does with the  *)
(* blocks and transactions peers send it, in any order and any number of   *)
(* times, and with its mempool when the application on top of it assembles *)
(* a candidate block. EventLoops lets the same handlers interleave.        *)
(***************************************************************************)
EXTENDS Validation

CONSTANT SizeLimit    \* the size an application lets a candidate block take

VARIABLES
  relays,       \* how often each block and transaction went to all the peers
  heightsTold   \* the chain heights sent to peers on a shorter chain

nodeVars == <<storageVars, clock, relays, heightsTold>>

Relayable == BlockHash \cup TxHash

TypeOK ==
  /\ StorageTypeOK
  /\ clock \in ClockTimes
  /\ relays \in [Relayable -> Nat]
  /\ heightsTold \subseteq Int

Init ==
  /\ StorageInit
  /\ clock \in ClockTimes
  /\ relays = [item \in Relayable |-> 0]
  /\ heightsTold = {}

\* broadcastBlockToPeers and broadcastTransactionToPeers.
Broadcast(item) == relays' = [relays EXCEPT ![item] = @ + 1]

-----------------------------------------------------------------------------
(* NodeP2PReceiveBlockHandler.channelRead0                                 *)

\* Slip: the number of blocks is told instead of the height.
DiscardLowBlockTellCount(b) ==
  /\ blockheight >= BlockOf[b].BlockHeight
  /\ heightsTold' = IF hasBlock(b) THEN heightsTold ELSE heightsTold \cup {blockheight + 1}
  /\ UNCHANGED <<storageVars, clock, relays>>

\* A block no higher than the tip: known, or on a shorter chain, and then the
\* sender learns the height of this one.
DiscardLowBlock(b) ==
  /\ blockheight >= BlockOf[b].BlockHeight
  /\ heightsTold' = IF hasBlock(b) THEN heightsTold ELSE heightsTold \cup {blockheight}
  /\ UNCHANGED <<storageVars, clock, relays>>

DiscardInvalidBlock(b) ==
  /\ blockheight < BlockOf[b].BlockHeight
  /\ ~(blockVerify(b) /\ verifyTransactionsUnspent(b))
  /\ UNCHANGED nodeVars

StoreBlock(b) ==
  /\ blockheight < BlockOf[b].BlockHeight
  /\ blockVerify(b)
  /\ verifyTransactionsUnspent(b)
  /\ putBlock(b)
  /\ Broadcast(b)
  /\ UNCHANGED <<clock, heightsTold>>

ReceiveBlock(b) == DiscardLowBlock(b) \/ DiscardInvalidBlock(b) \/ StoreBlock(b)

-----------------------------------------------------------------------------
(* NodeP2PReceiveTransactionHandler.channelRead0                           *)

doTransactionsContainTXO(o) == \E t \in mempool : o \in Spends(t)

\* Slips: one of the checks of the handler is missing.
acceptableSpent(t) ==
  /\ t \notin mempool
  /\ transactionVerify(t)
  /\ \A o \in Spends(t) : ~doTransactionsContainTXO(o)

acceptableUnverified(t) ==
  /\ t \notin mempool
  /\ verifyInputsUnspent(t)
  /\ \A o \in Spends(t) : ~doTransactionsContainTXO(o)

acceptableConflict(t) ==
  /\ t \notin mempool
  /\ verifyInputsUnspent(t)
  /\ transactionVerify(t)

acceptable(t) ==
  /\ t \notin mempool
  /\ verifyInputsUnspent(t)
  /\ transactionVerify(t)
  /\ \A o \in Spends(t) : ~doTransactionsContainTXO(o)

StoreTransaction(t) ==
  /\ acceptable(t)
  /\ putMempoolTransaction(t)
  /\ Broadcast(t)
  /\ UNCHANGED <<clock, heightsTold>>

DiscardTransaction(t) ==
  /\ ~acceptable(t)
  /\ UNCHANGED nodeVars

ReceiveTransaction(t) == StoreTransaction(t) \/ DiscardTransaction(t)

-----------------------------------------------------------------------------
(* BlockBuilder.addMempoolTransactions, as far as it changes the storage:  *)
(* it walks the mempool in an order of fees and ages, leaves out what no   *)
(* longer verifies, and stops at the first transaction that is too large.  *)
(* What it walked past without taking it is removed from the mempool. The  *)
(* order is left open here, so any set of the left out ones may precede a  *)
(* transaction that stops the walk.                                        *)

Minable(t) == transactionVerify(t) /\ verifyInputsUnspent(t)

AssembleCandidate ==
  \E removed \in SUBSET {t \in mempool : ~Minable(t)} :
    /\ \/ \E t \in mempool : Minable(t) /\ TxOf[t].Size >= SizeLimit
       \/ removed = {t \in mempool : ~Minable(t)}
    /\ mempool' = mempool \ removed
    /\ UNCHANGED <<chainVars, clock, relays, heightsTold>>

-----------------------------------------------------------------------------
Next ==
  \/ \E b \in BlockHash : ReceiveBlock(b)
  \/ \E t \in TxHash : ReceiveTransaction(t)
  \/ AssembleCandidate
  \/ Tick /\ UNCHANGED <<storageVars, relays, heightsTold>>

Spec == Init /\ [][Next]_nodeVars

-----------------------------------------------------------------------------
(* The chain                                                               *)

L == INSTANCE Ledger WITH chain <- blocksByHeight

\* The node implements the ledger: BlockHeader.verify, verifyTransactions and
\* verifyTransactionsUnspent, each reading another collection, let in exactly
\* blocks that extend the tip and spend unspent outputs.
ImplementsLedger == L!Spec

\* Hence the stored chain is sound: linked, no output spent twice, no
\* transaction at two places.
ChainSound == L!Sound

\* The four views of the chain agree: the counter, the list by height, the map
\* by hash and the index by transaction that putBlock updates one by one.
ViewsAgree ==
  /\ blockheight = Len(blocksByHeight) - 1
  /\ blocks = {blocksByHeight[i] : i \in DOMAIN blocksByHeight}
  /\ \A t \in TxHash, b \in BlockHash :
       blockHashesByTransaction[t] = b
         <=> b \in blocks /\ \E k \in DOMAIN TxsOf(b) : TxsOf(b)[k] = t

\* The UTXO set, which putBlock maintains step by step, is what the chain has
\* created and not spent.
UtxoExact == unspentTransactionOutputSet = Created(blocksByHeight) \ Spent(blocksByHeight)

\* It is also what buildUnspentTransactionOutputSet computes from scratch.
UtxoMatchesRebuild == unspentTransactionOutputSet = buildUnspentTransactionOutputSet

\* The stored chain keeps verifying: BlockchainStorage.verify, which checks
\* every block against today's storage and clock instead of those it was
\* accepted with, never turns false.
ChainKeepsVerifying == storageVerify

\* The unspent outputs are never worth more than the blocks have minted: their
\* rewards, and what wrapping totals of outputs hide. Fees move value, they do not
\* create it, and of all the unchecked sums of longs (getInputTotal, getOutputTotal,
\* getFees, getBlockFees and fees plus reward) only the one of outputs can.
ValueConserved ==
  LET amount(o) == OutputsOf(o[1])[o[2] + 1].Amount
  IN  SumFunction([o \in unspentTransactionOutputSet |-> amount(o)]) <= Minted(blocksByHeight)

-----------------------------------------------------------------------------
(* The mempool and the peers                                               *)

\* Two pending transactions never spend the same output, so that all of the
\* mempool can go into one candidate block.
MempoolConflictFree ==
  \A t, u \in mempool : t # u => Spends(t) \cap Spends(u) = {}

\* A pending transaction verifies as long as it is pending: Transaction.verify
\* reads indexed transactions and the clock, and neither goes back. (A block
\* may still spend its inputs, which Transaction.verify does not look at.)
MempoolVerifies ==
  \A t \in mempool : transactionVerify(t)

\* Gossip ends: a node relays a block or transaction at most once, although
\* the mempool forgets what it removed and peers may send it again.
RelayedOnce == \A item \in Relayable : relays[item] <= 1

\* Exactly what is stored was relayed.
RelayedStored == \A b \in BlockHash : relays[b] > 0 <=> b \in blocks

\* A height told to a peer is one this chain can still serve, or says that
\* there is no chain.
HeightsServable == \A h \in heightsTold : h \in 0 .. blockheight \/ h = -1
=============================================================================
