----------------------------- MODULE EventLoops -----------------------------
(***************************************************************************)
(* The handlers of Node as they really run: netty gives every connection   *)
(* to one of several event loop threads, so the handlers of different      *)
(* connections interleave, and nothing locks the storage they share.       *)
(*                                                                         *)
(* A handler is cut where it touches shared state. A verification is one   *)
(* step: it reads only what is never taken back (stored blocks, indexed    *)
(* transactions, a clock moving forward). putBlock is one step for each    *)
(* collection it changes and one for each transaction.                     *)
(*                                                                         *)
(* The collections of BlockchainStorageInMemory are not thread safe        *)
(* either. The variables of Storage hold what was put into them and not    *)
(* removed. Two loops that change the same collection at the same time     *)
(* spoil it for good: whatever is in it, however old, may be found or not  *)
(* found each time it is looked for, what is removed may stay, and a       *)
(* change may throw. While one loop changes a collection, another may miss *)
(* what is in it. A storage with thread safe collections (RacyCollections  *)
(* FALSE) only has the interleavings.                                      *)
(***************************************************************************)
EXTENDS Validation

CONSTANTS
  EventLoops,        \* the threads of workerGroup and peerGroup
  RacyCollections,   \* whether the collections are those of java.util
  MaxRelays          \* the bound of the relay counters, which stay at it; with 0,
                     \* nothing that is sent is recorded

ASSUME LoopAssumption == RacyCollections \in BOOLEAN /\ MaxRelays \in Nat

VARIABLES
  pc,            \* where each loop is in its handler
  item,          \* the block or transaction it handles
  seenHeight,    \* its local currentBlockHeight
  next,          \* the transaction of the block it has come to
  damaged,       \* the places whose collections a race has spoilt
  relays,
  heightsTold

loopVars == <<pc, item, seenHeight, next, damaged>>
vars == <<storageVars, clock, loopVars, relays, heightsTold>>

Relayable == BlockHash \cup TxHash

\* The places of channelRead0 for a block, then for a transaction.
Checking  == {"low", "verify", "unspent"}
Putting   == {"height", "hash", "byHeight", "tx", "relay"}
TxPlaces  == {"txUnspent", "txVerify", "txConflict", "txPut", "txRelay"}

\* The places that change a collection: blocks, blocksByHeight, then the index and
\* the UTXO set together, and the mempool.
Changing == {"hash", "byHeight", "tx", "txPut"}

TypeOK ==
  /\ StorageTypeOK
  /\ clock \in ClockTimes
  /\ pc \in [EventLoops -> {"idle"} \cup Checking \cup Putting \cup TxPlaces]
  /\ item \in [EventLoops -> Relayable \cup {NoBlock}]
  /\ \A e \in EventLoops :
       /\ pc[e] \in Checking \cup Putting => item[e] \in BlockHash
       /\ pc[e] \in TxPlaces => item[e] \in TxHash
       /\ pc[e] = "tx" => next[e] \in DOMAIN TxsOf(item[e])
  /\ seenHeight \in [EventLoops -> Int]
  /\ next \in [EventLoops -> Nat]
  /\ damaged \subseteq Changing
  /\ relays \in [Relayable -> 0 .. MaxRelays]
  /\ heightsTold \subseteq Int

Init ==
  /\ StorageInit
  /\ clock \in ClockTimes
  /\ pc = [e \in EventLoops |-> "idle"]
  /\ item = [e \in EventLoops |-> NoBlock]
  /\ seenHeight = [e \in EventLoops |-> -1]
  /\ next = [e \in EventLoops |-> 1]
  /\ damaged = {}
  /\ relays = [i \in Relayable |-> 0]
  /\ heightsTold = {}

-----------------------------------------------------------------------------
At(e, place) == pc[e] = place

Goto(e, place) == pc' = [pc EXCEPT ![e] = place]

\* channelRead0 returns: its locals are gone.
Return(e) ==
  /\ Goto(e, "idle")
  /\ item' = [item EXCEPT ![e] = NoBlock]
  /\ seenHeight' = [seenHeight EXCEPT ![e] = -1]
  /\ next' = [next EXCEPT ![e] = 1]

Relay(i) ==
  relays' = [relays EXCEPT ![i] = IF @ < MaxRelays THEN @ + 1 ELSE @]

\* A height is sent to a peer.
Tell(height) ==
  heightsTold' = IF MaxRelays > 0 THEN heightsTold \cup {height} ELSE heightsTold

\* Whether loop e may be wrong about the collections changed at these places: a
\* race has spoilt one, or another loop is changing one right now.
Unsure(e, places) ==
  /\ RacyCollections
  /\ \/ places \cap damaged # {}
     \/ \E f \in EventLoops \ {e} : pc[f] \in places

\* Loop e changes the collection of its place and goes on, or the change throws.
Change(e, place, n) ==
  /\ damaged' = IF Unsure(e, {pc[e]}) THEN damaged \cup {pc[e]} ELSE damaged
  /\ \/ /\ Goto(e, place)
        /\ next' = [next EXCEPT ![e] = n]
        /\ UNCHANGED <<item, seenHeight>>
     \/ Unsure(e, {pc[e]}) /\ Return(e)

-----------------------------------------------------------------------------
(* A block                                                                 *)

\* currentBlockHeight is read and compared; only the "low" branch uses it again.
ReceiveBlock(e, b) ==
  /\ At(e, "idle")
  /\ item' = [item EXCEPT ![e] = b]
  /\ IF blockheight >= BlockOf[b].BlockHeight
     THEN Goto(e, "low") /\ seenHeight' = [seenHeight EXCEPT ![e] = blockheight]
     ELSE Goto(e, "verify") /\ UNCHANGED seenHeight
  /\ UNCHANGED <<storageVars, clock, next, damaged, relays, heightsTold>>

DiscardLowBlock(e) ==
  /\ At(e, "low")
  /\ Return(e)
  /\ \/ hasBlock(item[e]) /\ UNCHANGED heightsTold
     \/ /\ ~hasBlock(item[e]) \/ Unsure(e, {"hash"})
        /\ Tell(seenHeight[e])
  /\ UNCHANGED <<storageVars, clock, damaged, relays>>

\* Slip: the walk over the transactions starts one too late.
VerifyBlockSkipping(e) ==
  /\ At(e, "verify")
  /\ \/ /\ blockVerify(item[e])
        /\ Goto(e, "unspent")
        /\ next' = [next EXCEPT ![e] = 3]
        /\ UNCHANGED <<item, seenHeight>>
     \/ (~blockVerify(item[e]) \/ Unsure(e, {"hash", "tx"})) /\ Return(e)
  /\ UNCHANGED <<storageVars, clock, damaged, relays, heightsTold>>

VerifyBlock(e) ==
  /\ At(e, "verify")
  /\ \/ /\ blockVerify(item[e])
        /\ Goto(e, "unspent")
        /\ next' = [next EXCEPT ![e] = 2]
        /\ UNCHANGED <<item, seenHeight>>
     \/ (~blockVerify(item[e]) \/ Unsure(e, {"hash", "tx"})) /\ Return(e)
  /\ UNCHANGED <<storageVars, clock, damaged, relays, heightsTold>>

\* verifyTransactionsUnspent, one transaction after the other.
CheckUnspent(e) ==
  /\ At(e, "unspent")
  /\ \/ /\ next[e] > Len(TxsOf(item[e]))
        /\ Goto(e, "height")
        /\ UNCHANGED <<item, seenHeight, next>>
     \/ /\ next[e] <= Len(TxsOf(item[e]))
        /\ verifyInputsUnspent(TxsOf(item[e])[next[e]])
        /\ next' = [next EXCEPT ![e] = @ + 1]
        /\ UNCHANGED <<pc, item, seenHeight>>
     \/ /\ next[e] <= Len(TxsOf(item[e]))
        /\ ~verifyInputsUnspent(TxsOf(item[e])[next[e]]) \/ Unsure(e, {"tx"})
        /\ Return(e)
  /\ UNCHANGED <<storageVars, clock, damaged, relays, heightsTold>>

PutHeight(e) ==
  /\ At(e, "height")
  /\ Goto(e, "hash")
  /\ blockheight' = BlockOf[item[e]].BlockHeight
  /\ UNCHANGED <<blocks, blocksByHeight, blockHashesByTransaction,
                 unspentTransactionOutputSet, mempool, clock,
                 item, seenHeight, next, damaged, relays, heightsTold>>

PutHash(e) ==
  /\ At(e, "hash")
  /\ Change(e, "byHeight", next[e])
  /\ blocks' = blocks \cup {item[e]}
  /\ UNCHANGED <<blockheight, blocksByHeight, blockHashesByTransaction,
                 unspentTransactionOutputSet, mempool, clock, relays, heightsTold>>

\* Slip: the walk over the transactions leaves out the coinbase.
PutByHeightPastCoinbase(e) ==
  /\ At(e, "byHeight")
  /\ Change(e, IF Len(TxsOf(item[e])) < 2 THEN "relay" ELSE "tx", 2)
  /\ blocksByHeight' = AtHeight(blocksByHeight, item[e])
  /\ UNCHANGED <<blockheight, blocks, blockHashesByTransaction,
                 unspentTransactionOutputSet, mempool, clock, relays, heightsTold>>

PutByHeight(e) ==
  /\ At(e, "byHeight")
  /\ Change(e, IF TxsOf(item[e]) = << >> THEN "relay" ELSE "tx", 1)
  /\ blocksByHeight' = AtHeight(blocksByHeight, item[e])
  /\ UNCHANGED <<blockheight, blocks, blockHashesByTransaction,
                 unspentTransactionOutputSet, mempool, clock, relays, heightsTold>>

\* Slip: the loop over the transactions ends one too late.
PutTransactionPastEnd(e) ==
  /\ At(e, "tx")
  /\ Change(e, IF next[e] > Len(TxsOf(item[e])) THEN "relay" ELSE "tx", next[e] + 1)
  /\ UNCHANGED <<storageVars, clock, relays, heightsTold>>

PutTransaction(e) ==
  /\ At(e, "tx")
  /\ Change(e, IF next[e] = Len(TxsOf(item[e])) THEN "relay" ELSE "tx", next[e] + 1)
  /\ LET t == TxsOf(item[e])[next[e]]
         Removed == IF Unsure(e, {"tx"}) THEN SUBSET Spends(t) ELSE {Spends(t)}
     IN  /\ blockHashesByTransaction' = [blockHashesByTransaction EXCEPT ![t] = item[e]]
         /\ \E gone \in Removed :
              unspentTransactionOutputSet' =
                (unspentTransactionOutputSet \ gone) \cup Creates(t)
  /\ UNCHANGED <<blockheight, blocks, blocksByHeight, mempool, clock, relays, heightsTold>>

RelayBlock(e) ==
  /\ At(e, "relay")
  /\ Return(e)
  /\ Relay(item[e])
  /\ UNCHANGED <<storageVars, clock, damaged, heightsTold>>

-----------------------------------------------------------------------------
(* A transaction                                                           *)

ReceiveTransaction(e, t) ==
  /\ t \notin mempool \/ Unsure(e, {"txPut"})
  /\ At(e, "idle")
  /\ Goto(e, "txUnspent")
  /\ item' = [item EXCEPT ![e] = t]
  /\ UNCHANGED <<storageVars, clock, seenHeight, next, damaged, relays, heightsTold>>

\* One of the three checks: on to the next place, or out of the handler. It may
\* fail where it should pass if it reads collections changed at these places.
CheckTransaction(e, passes, places, place) ==
  /\ \/ passes /\ Goto(e, place) /\ UNCHANGED <<item, seenHeight, next>>
     \/ (~passes \/ Unsure(e, places)) /\ Return(e)
  /\ UNCHANGED <<storageVars, clock, damaged, relays, heightsTold>>

TransactionUnspent(e) ==
  /\ At(e, "txUnspent")
  /\ CheckTransaction(e, verifyInputsUnspent(item[e]), {"tx"}, "txVerify")

TransactionVerify(e) ==
  /\ At(e, "txVerify")
  /\ CheckTransaction(e, transactionVerify(item[e]), {"hash", "tx"}, "txConflict")

\* A conflict that is not found lets the transaction pass.
TransactionConflict(e) ==
  /\ At(e, "txConflict")
  /\ CheckTransaction(e, \/ \A t \in mempool : Spends(t) \cap Spends(item[e]) = {}
                         \/ Unsure(e, {"txPut"}),
                      {"txPut"}, "txPut")

PutTransactionInMempool(e) ==
  /\ At(e, "txPut")
  /\ Change(e, "txRelay", next[e])
  /\ mempool' = mempool \cup {item[e]}
  /\ UNCHANGED <<chainVars, clock, relays, heightsTold>>

RelayTransaction(e) ==
  /\ At(e, "txRelay")
  /\ Return(e)
  /\ Relay(item[e])
  /\ UNCHANGED <<storageVars, clock, damaged, heightsTold>>

-----------------------------------------------------------------------------
HandleBlock(e) ==
  \/ \E b \in BlockHash : ReceiveBlock(e, b)
  \/ DiscardLowBlock(e) \/ VerifyBlock(e) \/ CheckUnspent(e)
  \/ PutHeight(e) \/ PutHash(e) \/ PutByHeight(e) \/ PutTransaction(e)
  \/ RelayBlock(e)

HandleTransaction(e) ==
  \/ \E t \in TxHash : ReceiveTransaction(e, t)
  \/ TransactionUnspent(e) \/ TransactionVerify(e) \/ TransactionConflict(e)
  \/ PutTransactionInMempool(e) \/ RelayTransaction(e)

Next ==
  \/ \E e \in EventLoops : HandleBlock(e) \/ HandleTransaction(e)
  \/ Tick /\ UNCHANGED <<storageVars, loopVars, relays, heightsTold>>

Spec == Init /\ [][Next]_vars

-----------------------------------------------------------------------------
(* One event loop                                                          *)

\* With a single loop the cuts do not show. A block counts as stored from the
\* moment PutHeight commits to it: what is left of putBlock, and the relay,
\* is done in the mapping.
AtRest == \A e \in EventLoops : pc[e] \notin Putting \ {"height"}

Storing == CHOOSE e \in EventLoops : pc[e] \in Putting \ {"height"}

\* The transactions of the block of loop e that putBlock has still to go over.
Remaining(e) ==
  LET txs == TxsOf(item[e])
  IN  CASE pc[e] \in {"hash", "byHeight"} -> txs
        [] pc[e] = "tx"    -> SubSeq(txs, next[e], Len(txs))
        [] pc[e] = "relay" -> << >>

\* The item whose relay is still to come.
Unrelayed ==
  {item[e] : e \in {f \in EventLoops : pc[f] \in (Putting \ {"height"}) \cup {"txRelay"}}}

SettledBlocks == IF AtRest THEN blocks ELSE blocks \cup {item[Storing]}

SettledList == IF AtRest THEN blocksByHeight ELSE AtHeight(blocksByHeight, item[Storing])

SettledIndex ==
  IF AtRest THEN blockHashesByTransaction
  ELSE Indexed(blockHashesByTransaction, item[Storing])

SettledUnspent ==
  IF AtRest THEN unspentTransactionOutputSet
  ELSE UnspentAfter(unspentTransactionOutputSet, Remaining(Storing))

SettledRelays == [i \in Relayable |-> relays[i] + (IF i \in Unrelayed THEN 1 ELSE 0)]

N == INSTANCE Node WITH
  SizeLimit <- 0,
  blocks <- SettledBlocks,
  blocksByHeight <- SettledList,
  blockHashesByTransaction <- SettledIndex,
  unspentTransactionOutputSet <- SettledUnspent,
  relays <- SettledRelays

\* A single event loop implements Node: between two messages nobody can tell
\* the interleaved steps from the atomic handlers.
ImplementsNode == N!Spec

-----------------------------------------------------------------------------
(* Any number of event loops                                               *)

\* What was put or is held pending goes on verifying against all that was put: no
\* interleaving, and no miss in a spoilt collection, stores a block or keeps a
\* transaction whose verification was overtaken, by what a spoilt collection hides
\* or by a handler that was outrun or that threw half way. (The node itself may
\* fail to find what they stand on, once a race has spoilt the collection.)
AcceptedVerifies ==
  /\ \A b \in blocks : blockVerify(b)
  /\ \A t \in mempool : transactionVerify(t)

\* Hence a stored block has its predecessor stored, one height below, and every
\* output its transactions spend stands in a transaction of a stored block.
Grounded(b) ==
  /\ BlockOf[b].BlockHeight > 0 =>
       /\ BlockOf[b].HashPreviousBlock \in blocks
       /\ BlockOf[b].BlockHeight = BlockOf[BlockOf[b].HashPreviousBlock].BlockHeight + 1
  /\ \A k \in 2 .. Len(TxsOf(b)) : \A o \in Spends(TxsOf(b)[k]) :
       /\ canGetTransaction(o[1])
       /\ OutputExists(o)

StoredBlocksGrounded == \A b \in blocks : Grounded(b)

Quiet == \A e \in EventLoops : pc[e] = "idle"

\* Interleavings alone lose nobody's coins: between handlers, what a stored block
\* created and no stored block spends is in the UTXO set, in whatever order several
\* putBlocks, of the same block, too, went over their transactions. (A collection
\* that a race has spoilt promises nothing of the kind.)
UnspentKept ==
  Quiet /\ damaged = {} =>
    (UNION {CreatedBy(b) : b \in blocks}) \ (UNION {SpentBy(b) : b \in blocks})
      \subseteq unspentTransactionOutputSet

-----------------------------------------------------------------------------
(* What the documentation says and two event loops can break               *)

\* isTransactionOutputSpent: "true for spent, false for unspent". Between
\* handlers no output that a stored block spends is in the UTXO set.
SpentStaysSpent ==
  Quiet => unspentTransactionOutputSet \cap UNION {SpentBy(b) : b \in blocks} = {}
=============================================================================
