-------------------------- MODULE EventLoopsProofs --------------------------
(* What holds however many event loops a node has, and that an application *)
(* that mines beside them breaks none of it and builds on the tip it read. *)
(* And that a single loop does what handlers do that are not cut.          *)
(* What is said of Spec holds of any collections: that they are thread     *)
(* safe, MiningAssumption, is used of MiningSpec only.                     *)
EXTENDS Mining, ValidationProofs, SequenceTheorems

-----------------------------------------------------------------------------
(* Types                                                                   *)

\* The loops' part of TypeOK.
LoopsTyped ==
  /\ damaged \subseteq Changing
  /\ pc \in [EventLoops -> {"idle"} \cup Checking \cup Putting \cup TxPlaces]
  /\ item \in [EventLoops -> Relayable \cup {NoBlock}]
  /\ \A e \in EventLoops :
       /\ pc[e] \in Checking \cup Putting => item[e] \in BlockHash
       /\ pc[e] \in TxPlaces => item[e] \in TxHash
       /\ pc[e] = "tx" => next[e] \in DOMAIN TxsOf(item[e])
  /\ seenHeight \in [EventLoops -> Int]
  /\ next \in [EventLoops -> Nat]

\* A step of one loop that leaves it well typed leaves them all so.
LEMMA LoopStep ==
  ASSUME LoopsTyped, NEW e \in EventLoops,
         NEW p \in {"idle"} \cup Checking \cup Putting \cup TxPlaces,
         NEW i \in Relayable \cup {NoBlock}, NEW h \in Int, NEW n \in Nat,
         p \in Checking \cup Putting => i \in BlockHash,
         p \in TxPlaces => i \in TxHash,
         p = "tx" => n \in DOMAIN TxsOf(i),
         pc' = [pc EXCEPT ![e] = p], item' = [item EXCEPT ![e] = i],
         seenHeight' = [seenHeight EXCEPT ![e] = h], next' = [next EXCEPT ![e] = n],
         damaged' \subseteq Changing
  PROVE  LoopsTyped'
BY DEF LoopsTyped, Checking, Putting, TxPlaces

\* A function that is updated with the value it has is left alone.
LEMMA Untouched ==
  ASSUME LoopsTyped, NEW e \in EventLoops
  PROVE  /\ item = [item EXCEPT ![e] = item[e]]
         /\ seenHeight = [seenHeight EXCEPT ![e] = seenHeight[e]]
         /\ next = [next EXCEPT ![e] = next[e]]
         /\ pc = [pc EXCEPT ![e] = pc[e]]
BY DEF LoopsTyped

\* Returning from a handler is well typed.
LEMMA ReturnTyped ==
  ASSUME LoopsTyped, NEW e \in EventLoops, Return(e), damaged' \subseteq Changing
  PROVE  LoopsTyped'
<1>1. /\ "idle" \notin Checking \cup Putting /\ "idle" \notin TxPlaces
      /\ "idle" \in {"idle"} \cup Checking \cup Putting \cup TxPlaces
      /\ "idle" # "tx" /\ NoBlock \in Relayable \cup {NoBlock}
      /\ -1 \in Int /\ 1 \in Nat
  BY DEF Checking, Putting, TxPlaces
<1>2. /\ pc' = [pc EXCEPT ![e] = "idle"] /\ item' = [item EXCEPT ![e] = NoBlock]
      /\ seenHeight' = [seenHeight EXCEPT ![e] = -1] /\ next' = [next EXCEPT ![e] = 1]
  BY DEF Return, Goto
<1>3. QED
  BY <1>1, <1>2, LoopStep

\* So is a change of a collection, whether it throws or not.
LEMMA ChangeTyped ==
  ASSUME LoopsTyped, NEW e \in EventLoops, pc[e] \in Changing,
         NEW p \in {"idle"} \cup Checking \cup Putting \cup TxPlaces, NEW n \in Nat,
         item[e] \in Relayable \cup {NoBlock},
         p \in Checking \cup Putting => item[e] \in BlockHash,
         p \in TxPlaces => item[e] \in TxHash,
         p = "tx" => n \in DOMAIN TxsOf(item[e]),
         Change(e, p, n)
  PROVE  LoopsTyped'
<1>1. damaged' \subseteq Changing
  BY DEF Change, LoopsTyped
<1>2. CASE Return(e)
  BY <1>1, <1>2, ReturnTyped
<1>3. CASE ~Return(e)
  <2>1. /\ pc' = [pc EXCEPT ![e] = p] /\ item' = [item EXCEPT ![e] = item[e]]
        /\ seenHeight' = [seenHeight EXCEPT ![e] = seenHeight[e]]
        /\ next' = [next EXCEPT ![e] = n] /\ seenHeight[e] \in Int
    BY <1>3, Untouched DEF Change, Goto, LoopsTyped
  <2>2. QED
    BY <1>1, <2>1, LoopStep
<1>4. QED
  BY <1>2, <1>3

\* The storage's part of TypeOK, with the clock and the counters.
SharedTyped ==
  /\ StorageTypeOK
  /\ clock \in ClockTimes
  /\ relays \in [Relayable -> 0 .. MaxRelays]
  /\ heightsTold \subseteq Int

\* A handler's steps that store nothing: receiving and checking a block.
LEMMA CheckingTyped ==
  ASSUME TypeOK, NEW e \in EventLoops,
         \/ \E b \in BlockHash : ReceiveBlock(e, b)
         \/ DiscardLowBlock(e) \/ VerifyBlock(e) \/ CheckUnspent(e)
  PROVE  TypeOK'
<1>1. LoopsTyped /\ SharedTyped
  BY DEF TypeOK, LoopsTyped, SharedTyped
<1>2. ASSUME NEW b \in BlockHash, ReceiveBlock(e, b)
      PROVE  LoopsTyped' /\ SharedTyped'
  <2>1. SharedTyped'
    BY <1>1, <1>2 DEF ReceiveBlock, SharedTyped, StorageTypeOK, storageVars, chainVars
  <2>2. /\ b \in Relayable \cup {NoBlock} /\ blockheight \in Int /\ seenHeight[e] \in Int
        /\ next[e] \in Nat /\ "low" \in Checking /\ "verify" \in Checking
        /\ "low" \notin TxPlaces /\ "verify" \notin TxPlaces
    BY <1>1 DEF Relayable, LoopsTyped, SharedTyped, StorageTypeOK, Checking, TxPlaces
  <2>3. PICK p \in {"low", "verify"}, h \in {blockheight, seenHeight[e]} :
          /\ pc' = [pc EXCEPT ![e] = p] /\ item' = [item EXCEPT ![e] = b]
          /\ seenHeight' = [seenHeight EXCEPT ![e] = h]
          /\ next' = [next EXCEPT ![e] = next[e]]
    <3>1. CASE blockheight >= BlockOf[b].BlockHeight
      BY <1>1, <1>2, <3>1, Untouched DEF ReceiveBlock, Goto
    <3>2. CASE ~(blockheight >= BlockOf[b].BlockHeight)
      BY <1>1, <1>2, <3>2, Untouched DEF ReceiveBlock, Goto
    <3>3. QED
      BY <3>1, <3>2
  <2>4. LoopsTyped'
    BY <1>1, <1>2, <2>2, <2>3, LoopStep DEF ReceiveBlock, LoopsTyped
  <2>5. QED
    BY <2>1, <2>4
<1>3. ASSUME DiscardLowBlock(e)
      PROVE  LoopsTyped' /\ SharedTyped'
  <2>1. LoopsTyped'
    BY <1>1, <1>3, ReturnTyped DEF DiscardLowBlock, LoopsTyped
  <2>2. seenHeight[e] \in Int
    BY <1>1 DEF LoopsTyped
  <2>3. QED
    BY <1>1, <1>3, <2>1, <2>2 DEF DiscardLowBlock, Tell, SharedTyped, StorageTypeOK, storageVars, chainVars
<1>4. ASSUME VerifyBlock(e) \/ CheckUnspent(e)
      PROVE  LoopsTyped' /\ SharedTyped'
  <2>1. SharedTyped'
    BY <1>1, <1>4 DEF VerifyBlock, CheckUnspent, SharedTyped, StorageTypeOK, storageVars, chainVars
  <2>2. /\ item[e] \in BlockHash /\ item[e] \in Relayable \cup {NoBlock}
        /\ seenHeight[e] \in Int /\ next[e] \in Nat /\ next[e] + 1 \in Nat
        /\ pc[e] \in Checking /\ damaged' \subseteq Changing
    BY <1>1, <1>4 DEF LoopsTyped, VerifyBlock, CheckUnspent, At, Checking, Relayable
  <2>3. /\ pc[e] # "tx" /\ pc[e] \notin TxPlaces
        /\ "unspent" \in Checking /\ "unspent" \notin TxPlaces
        /\ "height" \in Putting /\ "height" \notin TxPlaces
    BY <2>2 DEF Checking, Putting, TxPlaces
  <2>4. CASE Return(e)
    BY <1>1, <2>1, <2>2, <2>4, ReturnTyped
  <2>5. CASE ~Return(e) /\ VerifyBlock(e)
    <3>1. /\ pc' = [pc EXCEPT ![e] = "unspent"] /\ item' = [item EXCEPT ![e] = item[e]]
          /\ seenHeight' = [seenHeight EXCEPT ![e] = seenHeight[e]]
          /\ next' = [next EXCEPT ![e] = 2]
      BY <1>1, <2>5, Untouched DEF VerifyBlock, Goto
    <3>2. QED
      BY <1>1, <2>1, <2>2, <2>3, <3>1, LoopStep
  <2>6. CASE ~Return(e) /\ CheckUnspent(e)
    <3>1. PICK p \in {"height", pc[e]}, n \in {next[e], next[e] + 1} :
            /\ pc' = [pc EXCEPT ![e] = p] /\ item' = [item EXCEPT ![e] = item[e]]
            /\ seenHeight' = [seenHeight EXCEPT ![e] = seenHeight[e]]
            /\ next' = [next EXCEPT ![e] = n]
      BY <1>1, <2>6, Untouched DEF CheckUnspent, Goto
    <3>2. QED
      BY <1>1, <2>1, <2>2, <2>3, <3>1, LoopStep
  <2>7. QED
    BY <1>4, <2>4, <2>5, <2>6
<1>5. QED
  BY <1>2, <1>3, <1>4 DEF TypeOK, LoopsTyped, SharedTyped

\* The list by height stays one of blocks and padding.
LEMMA AtHeightTyped ==
  ASSUME NEW list \in Seq(BlockHash \cup {NoBlock}), NEW b \in BlockHash
  PROVE  AtHeight(list, b) \in Seq(BlockHash \cup {NoBlock})
<1> DEFINE h == BlockOf[b].BlockHeight
           n == IF h + 1 > Len(list) THEN h + 1 ELSE Len(list)
<1>1. h \in Int /\ Len(list) \in Nat
  BY DataAssumption DEF Block
<1>2. n \in Nat
  BY <1>1
<1>3. AtHeight(list, b) \in [1 .. n -> BlockHash \cup {NoBlock}]
  BY <1>1 DEF AtHeight
<1>4. QED
  BY <1>2, <1>3

\* putBlock's steps.
LEMMA PuttingTyped ==
  ASSUME TypeOK, NEW e \in EventLoops,
         PutHeight(e) \/ PutHash(e) \/ PutByHeight(e) \/ PutTransaction(e) \/ RelayBlock(e)
  PROVE  TypeOK'
<1>1. LoopsTyped /\ SharedTyped
  BY DEF TypeOK, LoopsTyped, SharedTyped
<1>2. /\ item[e] \in BlockHash /\ item[e] \in Relayable \cup {NoBlock} /\ item[e] \in Relayable
      /\ seenHeight[e] \in Int /\ next[e] \in Nat /\ next[e] + 1 \in Nat
      /\ pc[e] = "tx" => next[e] \in DOMAIN TxsOf(item[e])
  BY <1>1 DEF LoopsTyped, PutHeight, PutHash, PutByHeight, PutTransaction, RelayBlock,
              At, Putting, Relayable
<1>3. TxsOf(item[e]) \in Seq(TxHash) /\ BlockOf[item[e]].BlockHeight \in Int
  BY <1>2, DataAssumption DEF TxsOf, Block
<1>4. {"hash", "byHeight", "tx", "relay"} \subseteq Putting \ TxPlaces
  BY DEF Putting, TxPlaces
<1>5. ASSUME PutHeight(e)
      PROVE  LoopsTyped' /\ SharedTyped'
  <2>1. /\ pc' = [pc EXCEPT ![e] = "hash"] /\ item' = [item EXCEPT ![e] = item[e]]
        /\ seenHeight' = [seenHeight EXCEPT ![e] = seenHeight[e]]
        /\ next' = [next EXCEPT ![e] = next[e]] /\ damaged' \subseteq Changing
    BY <1>1, <1>5, Untouched DEF PutHeight, Goto, LoopsTyped
  <2>2. LoopsTyped'
    BY <1>1, <1>2, <1>4, <2>1, LoopStep
  <2>3. QED
    BY <1>1, <1>3, <1>5, <2>2 DEF PutHeight, SharedTyped, StorageTypeOK
<1>10. ASSUME PutHash(e)
       PROVE  LoopsTyped' /\ SharedTyped'
  <2>1. Change(e, "byHeight", next[e]) /\ pc[e] \in Changing
    BY <1>10 DEF PutHash, At, Changing
  <2>2. LoopsTyped'
    BY <1>1, <1>2, <1>4, <2>1, ChangeTyped
  <2>3. QED
    BY <1>1, <1>2, <1>10, <2>2 DEF PutHash, SharedTyped, StorageTypeOK
<1>6. ASSUME PutByHeight(e)
      PROVE  LoopsTyped' /\ SharedTyped'
  <2>1. PICK p \in {"tx", "relay"} :
          (p = "tx" => TxsOf(item[e]) # << >>) /\ Change(e, p, 1)
    BY <1>6 DEF PutByHeight
  <2>2. (p = "tx" => 1 \in DOMAIN TxsOf(item[e])) /\ pc[e] \in Changing
    BY <1>3, <1>6, <2>1 DEF PutByHeight, At, Changing
  <2>3. LoopsTyped'
    BY <1>1, <1>2, <1>4, <2>1, <2>2, ChangeTyped
  <2>4. blocksByHeight' \in Seq(BlockHash \cup {NoBlock})
    BY <1>1, <1>2, <1>6, AtHeightTyped DEF PutByHeight, SharedTyped, StorageTypeOK
  <2>5. QED
    BY <1>1, <1>6, <2>3, <2>4 DEF PutByHeight, SharedTyped, StorageTypeOK
<1>7. ASSUME PutTransaction(e)
      PROVE  LoopsTyped' /\ SharedTyped'
  <2>1. pc[e] = "tx" /\ next[e] \in 1 .. Len(TxsOf(item[e]))
    BY <1>2, <1>3, <1>7 DEF PutTransaction, At
  <2>2. PICK p \in {"tx", "relay"} :
          (p = "tx" => next[e] # Len(TxsOf(item[e]))) /\ Change(e, p, next[e] + 1)
    BY <1>7 DEF PutTransaction
  <2>3. (p = "tx" => next[e] + 1 \in DOMAIN TxsOf(item[e])) /\ pc[e] \in Changing
    BY <1>3, <2>1, <2>2 DEF Changing
  <2>4. LoopsTyped'
    BY <1>1, <1>2, <1>4, <2>2, <2>3, ChangeTyped
  <2> DEFINE t == TxsOf(item[e])[next[e]]
  <2>5. t \in TxHash
    BY <1>3, <2>1
  <2>6. blockHashesByTransaction' \in [TxHash -> BlockHash \cup {NoBlock}]
    BY <1>1, <1>2, <1>7 DEF PutTransaction, SharedTyped, StorageTypeOK
  <2>7. Creates(t) \subseteq TransactionOutputIdentifier
    <3>1. DOMAIN OutputsOf(t) \subseteq Nat
      BY <2>5, DataAssumption DEF OutputsOf, Transaction
    <3>2. QED
      BY <2>5, <3>1 DEF Creates, TransactionOutputIdentifier
  <2>8. unspentTransactionOutputSet' \subseteq unspentTransactionOutputSet \cup Creates(t)
    BY <1>7 DEF PutTransaction
  <2>9. unspentTransactionOutputSet' \subseteq TransactionOutputIdentifier
    BY <1>1, <2>7, <2>8 DEF SharedTyped, StorageTypeOK
  <2>10. QED
    BY <1>1, <1>7, <2>4, <2>6, <2>9 DEF PutTransaction, SharedTyped, StorageTypeOK
<1>8. ASSUME RelayBlock(e)
      PROVE  LoopsTyped' /\ SharedTyped'
  <2>1. LoopsTyped'
    BY <1>1, <1>8, ReturnTyped DEF RelayBlock, LoopsTyped
  <2>2. relays' \in [Relayable -> 0 .. MaxRelays]
    BY <1>1, <1>2, <1>8, LoopAssumption DEF RelayBlock, Relay, SharedTyped
  <2>3. QED
    BY <1>1, <1>8, <2>1, <2>2 DEF RelayBlock, SharedTyped, StorageTypeOK, storageVars, chainVars
<1>9. QED
  BY <1>5, <1>6, <1>7, <1>8, <1>10 DEF TypeOK, LoopsTyped, SharedTyped

\* The steps of the handler of transactions.
LEMMA TransactionTyped ==
  ASSUME TypeOK, NEW e \in EventLoops, HandleTransaction(e)
  PROVE  TypeOK'
<1>1. LoopsTyped /\ SharedTyped
  BY DEF TypeOK, LoopsTyped, SharedTyped
<1>2. TxPlaces \cap (Checking \cup Putting) = {} /\ "tx" \notin TxPlaces
  BY DEF TxPlaces, Checking, Putting
<1>3. seenHeight[e] \in Int /\ next[e] \in Nat
  BY <1>1 DEF LoopsTyped
<1>4. ASSUME NEW t \in TxHash, ReceiveTransaction(e, t)
      PROVE  LoopsTyped' /\ SharedTyped'
  <2>1. /\ pc' = [pc EXCEPT ![e] = "txUnspent"] /\ item' = [item EXCEPT ![e] = t]
        /\ seenHeight' = [seenHeight EXCEPT ![e] = seenHeight[e]]
        /\ next' = [next EXCEPT ![e] = next[e]]
    BY <1>1, <1>4, Untouched DEF ReceiveTransaction, Goto
  <2>2. "txUnspent" \in TxPlaces /\ t \in Relayable \cup {NoBlock}
    BY DEF TxPlaces, Relayable
  <2>3. LoopsTyped'
    BY <1>1, <1>2, <1>3, <1>4, <2>1, <2>2, LoopStep DEF ReceiveTransaction, LoopsTyped
  <2>4. QED
    BY <1>1, <1>4, <2>3 DEF ReceiveTransaction, SharedTyped, StorageTypeOK, storageVars, chainVars
<1>5. ASSUME ~\E t \in TxHash : ReceiveTransaction(e, t)
      PROVE  LoopsTyped' /\ SharedTyped'
  <2>1. /\ pc[e] \in TxPlaces /\ item[e] \in TxHash
        /\ item[e] \in Relayable \cup {NoBlock} /\ item[e] \in Relayable
    BY <1>1, <1>5 DEF HandleTransaction, TransactionUnspent, TransactionVerify,
       TransactionConflict, PutTransactionInMempool, RelayTransaction, At, TxPlaces,
       LoopsTyped, Relayable
  <2>2. SharedTyped'
    <3>1. relays' \in [Relayable -> 0 .. MaxRelays]
      BY <1>1, <1>5, <2>1, LoopAssumption DEF HandleTransaction, TransactionUnspent,
         TransactionVerify, TransactionConflict, CheckTransaction, PutTransactionInMempool,
         RelayTransaction, Relay, SharedTyped
    <3>2. mempool' \subseteq TxHash
      BY <1>1, <1>5, <2>1 DEF HandleTransaction, TransactionUnspent,
         TransactionVerify, TransactionConflict, CheckTransaction, PutTransactionInMempool,
         RelayTransaction, SharedTyped, StorageTypeOK, storageVars
    <3>3. UNCHANGED <<chainVars, clock, heightsTold>>
      BY <1>5 DEF HandleTransaction, TransactionUnspent,
         TransactionVerify, TransactionConflict, CheckTransaction, PutTransactionInMempool,
         RelayTransaction, storageVars
    <3>4. QED
      BY <1>1, <3>1, <3>2, <3>3 DEF SharedTyped, StorageTypeOK, chainVars
  <2>6. damaged' \subseteq Changing
    BY <1>1, <1>5 DEF HandleTransaction, TransactionUnspent, TransactionVerify,
       TransactionConflict, CheckTransaction, PutTransactionInMempool, Change, RelayTransaction,
       At, LoopsTyped, Changing
  <2>3. CASE Return(e)
    BY <1>1, <2>2, <2>3, <2>6, ReturnTyped
  <2>4. CASE ~Return(e)
    <3>1. PICK p \in TxPlaces :
            /\ pc' = [pc EXCEPT ![e] = p] /\ item' = [item EXCEPT ![e] = item[e]]
            /\ seenHeight' = [seenHeight EXCEPT ![e] = seenHeight[e]]
            /\ next' = [next EXCEPT ![e] = next[e]]
      BY <1>1, <1>5, <2>4, Untouched DEF HandleTransaction, TransactionUnspent,
         TransactionVerify, TransactionConflict, CheckTransaction, PutTransactionInMempool,
         Change, RelayTransaction, Goto, TxPlaces
    <3>2. QED
      BY <1>1, <1>2, <1>3, <2>1, <2>2, <2>6, <3>1, LoopStep
  <2>5. QED
    BY <2>3, <2>4
<1>6. QED
  BY <1>4, <1>5 DEF TypeOK, LoopsTyped, SharedTyped

\* Every step is well typed.
LEMMA TypeInductive ==
  /\ Init => TypeOK
  /\ TypeOK /\ [Next]_vars => TypeOK'
<1>1. Init => TypeOK
  BY LoopAssumption
     DEF Init, TypeOK, StorageInit, StorageTypeOK, Relayable, Checking, Putting, TxPlaces, Changing
<1>2. ASSUME TypeOK, Tick, UNCHANGED <<storageVars, loopVars, relays, heightsTold>>
      PROVE  TypeOK'
  BY <1>2 DEF TypeOK, StorageTypeOK, Tick, storageVars, chainVars, loopVars
<1>3. ASSUME TypeOK, UNCHANGED vars
      PROVE  TypeOK'
  BY <1>3 DEF TypeOK, StorageTypeOK, vars, storageVars, chainVars, loopVars
<1>4. QED
  BY <1>1, <1>2, <1>3, CheckingTyped, PuttingTyped, TransactionTyped DEF Next, HandleBlock

\* Whatever the loops do to each other, every value keeps its type.
THEOREM EventLoopsTypeOK == Spec => []TypeOK
BY TypeInductive, PTL DEF Spec

-----------------------------------------------------------------------------
(* What a step changes                                                     *)

\* The places behind the verification of a block, those behind the put that
\* makes it readable, and those behind the verification of a transaction.
Passed   == {"unspent"} \cup Putting
Stored   == {"byHeight", "tx", "relay"}
TxPassed == {"txConflict", "txPut"}

Step(e) == HandleBlock(e) \/ HandleTransaction(e)

\* A loop's step does not move another loop.
LEMMA OthersStay ==
  ASSUME TypeOK, NEW e \in EventLoops, Step(e), NEW f \in EventLoops \ {e}
  PROVE  pc'[f] = pc[f] /\ item'[f] = item[f] /\ next'[f] = next[f]
<1>1. /\ pc \in [EventLoops -> {"idle"} \cup Checking \cup Putting \cup TxPlaces]
      /\ item \in [EventLoops -> Relayable \cup {NoBlock}]
      /\ next \in [EventLoops -> Nat]
  BY DEF TypeOK
<1>2. CASE HandleBlock(e)
  BY <1>1, <1>2 DEF HandleBlock, ReceiveBlock, DiscardLowBlock, VerifyBlock, CheckUnspent,
     PutHeight, PutHash, PutByHeight, PutTransaction, RelayBlock, Change, Return, Goto
<1>3. CASE HandleTransaction(e)
  BY <1>1, <1>3 DEF HandleTransaction, ReceiveTransaction, TransactionUnspent,
     TransactionVerify, TransactionConflict, CheckTransaction, PutTransactionInMempool,
     RelayTransaction, Change, Return, Goto
<1>4. QED
  BY <1>2, <1>3 DEF Step

\* Only a block that verified gets past the verification, and only a block
\* that was put gets past PutHash (a transaction likewise).
LEMMA OwnStep ==
  ASSUME TypeOK, NEW e \in EventLoops, Step(e)
  PROVE  /\ pc'[e] \in Passed =>
              /\ item'[e] = item[e]
              /\ pc[e] \in Passed \/ blockVerify(item[e])
         /\ pc'[e] \in Stored => pc[e] \in Stored \/ PutHash(e)
         /\ pc'[e] \in TxPassed =>
              /\ item'[e] = item[e]
              /\ pc[e] \in TxPassed \/ transactionVerify(item[e])
<1>1. /\ pc \in [EventLoops -> {"idle"} \cup Checking \cup Putting \cup TxPlaces]
      /\ item \in [EventLoops -> Relayable \cup {NoBlock}]
  BY DEF TypeOK
<1>2. CASE HandleBlock(e)
  <2>1. CASE VerifyBlock(e) \/ CheckUnspent(e)
    BY <1>1, <2>1 DEF VerifyBlock, CheckUnspent, At, Goto, Return, Passed, Stored, TxPassed, Putting
  <2>2. CASE PutHeight(e) \/ PutHash(e) \/ PutByHeight(e) \/ PutTransaction(e)
    BY <1>1, <2>2 DEF PutHeight, PutHash, PutByHeight, PutTransaction, Change, At, Goto, Return,
       Passed, Stored, TxPassed, Putting
  <2>3. CASE (\E b \in BlockHash : ReceiveBlock(e, b)) \/ DiscardLowBlock(e) \/ RelayBlock(e)
    BY <1>1, <2>3 DEF ReceiveBlock, DiscardLowBlock, RelayBlock, At, Goto, Return, Passed,
       Stored, TxPassed, Putting
  <2>4. QED
    BY <1>2, <2>1, <2>2, <2>3 DEF HandleBlock
<1>3. CASE HandleTransaction(e)
  BY <1>1, <1>3 DEF HandleTransaction, ReceiveTransaction, TransactionUnspent,
     TransactionVerify, TransactionConflict, CheckTransaction, PutTransactionInMempool,
     RelayTransaction, Change, At, Return, Goto, Passed, Stored, TxPassed, Putting
<1>4. QED
  BY <1>2, <1>3 DEF Step

\* What a step puts into the map of blocks and into the mempool.
LEMMA StepPuts ==
  ASSUME TypeOK, NEW e \in EventLoops, Step(e)
  PROVE  /\ clock' = clock
         /\ blocks \subseteq blocks' /\ blocks' \subseteq blocks \cup {item[e]}
         /\ blocks' # blocks => PutHash(e)
         /\ PutHash(e) => pc[e] \in Passed
         /\ PutHash(e) => item[e] \in blocks'
         /\ mempool' \subseteq mempool \cup {item[e]}
         /\ mempool' # mempool => pc[e] = "txPut"
<1>1. CASE HandleBlock(e)
  <2>1. CASE PutHash(e)
    BY <2>1 DEF PutHash, At, Passed, Putting
  <2>2. CASE ~PutHash(e)
    BY <1>1, <2>2 DEF HandleBlock, ReceiveBlock, DiscardLowBlock, VerifyBlock, CheckUnspent,
       PutHeight, PutByHeight, PutTransaction, RelayBlock, storageVars, chainVars
  <2>3. QED
    BY <2>1, <2>2
<1>2. CASE HandleTransaction(e)
  <2>1. ~PutHash(e)
    BY <1>2 DEF HandleTransaction, ReceiveTransaction, TransactionUnspent,
       TransactionVerify, TransactionConflict, PutTransactionInMempool, RelayTransaction,
       PutHash, At
  <2>2. UNCHANGED chainVars /\ clock' = clock
    BY <1>2 DEF HandleTransaction, ReceiveTransaction, TransactionUnspent,
       TransactionVerify, TransactionConflict, CheckTransaction, PutTransactionInMempool,
       RelayTransaction, storageVars
  <2>3. /\ mempool' \subseteq mempool \cup {item[e]}
        /\ mempool' # mempool => pc[e] = "txPut"
    BY <1>2 DEF HandleTransaction, ReceiveTransaction, TransactionUnspent,
       TransactionVerify, TransactionConflict, CheckTransaction, PutTransactionInMempool,
       RelayTransaction, At, storageVars
  <2>4. QED
    BY <2>1, <2>2, <2>3 DEF chainVars
<1>3. QED
  BY <1>1, <1>2 DEF Step

\* A step points the index only at the block it puts.
LEMMA StepIndexes ==
  ASSUME TypeOK, NEW e \in EventLoops, Step(e), NEW t \in TxHash
  PROVE  \/ blockHashesByTransaction'[t] = blockHashesByTransaction[t]
         \/ /\ blockHashesByTransaction'[t] = item[e]
            /\ pc[e] \in Stored /\ item[e] \in BlockHash
<1>1. CASE PutTransaction(e)
  <2>1. item[e] \in BlockHash /\ pc[e] \in Stored
    BY <1>1 DEF PutTransaction, At, TypeOK, Putting, Stored
  <2>2. QED
    BY <1>1, <2>1 DEF PutTransaction
<1>2. CASE ~PutTransaction(e)
  <2>1. CASE HandleBlock(e)
    BY <1>2, <2>1 DEF HandleBlock, ReceiveBlock, DiscardLowBlock, VerifyBlock, CheckUnspent,
       PutHeight, PutHash, PutByHeight, RelayBlock, storageVars, chainVars
  <2>2. CASE HandleTransaction(e)
    BY <2>2 DEF HandleTransaction, ReceiveTransaction, TransactionUnspent,
       TransactionVerify, TransactionConflict, CheckTransaction, PutTransactionInMempool,
       RelayTransaction, storageVars, chainVars
  <2>3. QED
    BY <2>1, <2>2 DEF Step
<1>3. QED
  BY <1>1, <1>2

-----------------------------------------------------------------------------
(* What was accepted goes on verifying                                     *)

\* Stored blocks and pending transactions verify, and so does what a loop has
\* verified and not stored yet; what a loop puts into the index is stored.
VInv ==
  /\ TypeOK
  /\ AcceptedVerifies
  /\ \A e \in EventLoops :
       /\ pc[e] \in Passed => blockVerify(item[e])
       /\ pc[e] \in Stored => item[e] \in blocks
       /\ pc[e] \in TxPassed => transactionVerify(item[e])

\* A step of a loop lets what verification reads only grow.
LEMMA LoopGrown ==
  ASSUME VInv, NEW e \in EventLoops, Step(e)
  PROVE  Grown
<1>1. TypeOK
  BY DEF VInv
<1>2. blocks \subseteq blocks' /\ clock' = clock
  BY <1>1, StepPuts
<1>3. clock \in Int
  BY <1>1, ClockAssumption DEF TypeOK
<1>4. ASSUME NEW t \in TxHash, canGetTransaction(t)
      PROVE  canGetTransaction(t)'
  <2>1. blockHashesByTransaction'[t] \in blocks
    BY <1>1, <1>4, StepIndexes DEF VInv, canGetTransaction
  <2>2. QED
    BY <1>2, <2>1 DEF canGetTransaction
<1>5. QED
  BY <1>2, <1>3, <1>4 DEF Grown

\* What verified in a state goes on to where more can be read.
LEMMA AcceptedStays ==
  ASSUME VInv, Grown
  PROVE  /\ \A b \in BlockHash : blockVerify(b) => blockVerify(b)'
         /\ \A t \in TxHash : transactionVerify(t) => transactionVerify(t)'
BY BlockStable, TransactionStable

\* No step of a loop spoils what was accepted.
LEMMA LoopKeepsVInv ==
  ASSUME VInv, NEW e \in EventLoops, Step(e)
  PROVE  VInv'
<1>1. TypeOK /\ TypeOK'
  BY TypeInductive DEF VInv, Next, Step
<1>2. /\ \A b \in BlockHash : blockVerify(b) => blockVerify(b)'
      /\ \A t \in TxHash : transactionVerify(t) => transactionVerify(t)'
  BY LoopGrown, AcceptedStays
<1>3. blocks' \subseteq BlockHash /\ mempool' \subseteq TxHash
  BY <1>1 DEF TypeOK, StorageTypeOK
<1>4. ASSUME NEW f \in EventLoops
      PROVE  /\ pc[f] \in Passed => item[f] \in BlockHash
             /\ pc[f] \in TxPassed => item[f] \in TxHash
             /\ pc'[f] \in Passed => item'[f] \in BlockHash
             /\ pc'[f] \in TxPassed => item'[f] \in TxHash
             /\ pc'[f] \in Stored => pc'[f] \in Passed
  BY <1>1 DEF TypeOK, Passed, TxPassed, Stored, Checking, TxPlaces, Putting
<1>5. \A b \in blocks' : blockVerify(b)'
  BY <1>1, <1>2, <1>3, StepPuts DEF VInv, AcceptedVerifies
<1>6. \A t \in mempool' : transactionVerify(t)'
  <2>1. ASSUME NEW t \in mempool'
        PROVE  transactionVerify(t)
    <3>1. CASE t \in mempool
      BY <3>1 DEF VInv, AcceptedVerifies
    <3>2. CASE t \notin mempool
      BY <1>1, <2>1, <3>2, StepPuts DEF VInv, TxPassed
    <3>3. QED
      BY <3>1, <3>2
  <2>2. QED
    BY <1>2, <1>3, <2>1
<1>7. ASSUME NEW f \in EventLoops
      PROVE  /\ pc'[f] \in Passed => blockVerify(item[f])'
             /\ pc'[f] \in Stored => item'[f] \in blocks'
             /\ pc'[f] \in TxPassed => transactionVerify(item[f])'
  <2>1. CASE f = e
    <3>1. ASSUME pc'[e] \in Passed
          PROVE  blockVerify(item[e])'
      <4>1. item'[e] = item[e] /\ blockVerify(item[e]) /\ item[e] \in BlockHash
        BY <1>1, <1>4, <3>1, OwnStep DEF VInv
      <4>2. QED
        BY <1>2, <4>1
    <3>2. ASSUME pc'[e] \in Stored
          PROVE  item'[e] \in blocks'
      <4>1. item'[e] = item[e] /\ (pc[e] \in Stored \/ PutHash(e))
        BY <1>1, <1>4, <3>2, OwnStep
      <4>2. QED
        BY <1>1, <4>1, StepPuts DEF VInv
    <3>3. ASSUME pc'[e] \in TxPassed
          PROVE  transactionVerify(item[e])'
      <4>1. item'[e] = item[e] /\ transactionVerify(item[e]) /\ item[e] \in TxHash
        BY <1>1, <1>4, <3>3, OwnStep DEF VInv
      <4>2. QED
        BY <1>2, <4>1
    <3>4. QED
      BY <2>1, <3>1, <3>2, <3>3
  <2>2. CASE f # e
    <3>1. pc'[f] = pc[f] /\ item'[f] = item[f]
      BY <1>1, <2>2, OthersStay
    <3>2. blocks \subseteq blocks'
      BY <1>1, StepPuts
    <3>3. QED
      BY <1>2, <1>4, <3>1, <3>2 DEF VInv
  <2>3. QED
    BY <2>1, <2>2
<1>8. QED
  BY <1>1, <1>5, <1>6, <1>7 DEF VInv, AcceptedVerifies

\* A step of the clock, or of nobody, spoils nothing either, and pending
\* transactions may be forgotten.
LEMMA ClockKeepsVInv ==
  ASSUME VInv, UNCHANGED <<chainVars, loopVars>>, mempool' \subseteq mempool,
         Tick \/ UNCHANGED clock, TypeOK'
  PROVE  VInv'
<1>1. UNCHANGED <<blocks, blockHashesByTransaction, pc, item>>
  BY DEF chainVars, loopVars
<1>2. Grown
  BY <1>1, ClockAssumption DEF Grown, canGetTransaction, Tick, VInv, TypeOK
<1>3. /\ \A b \in BlockHash : blockVerify(b) => blockVerify(b)'
      /\ \A t \in TxHash : transactionVerify(t) => transactionVerify(t)'
  BY <1>2, AcceptedStays
<1>4. blocks \subseteq BlockHash /\ mempool \subseteq TxHash
  BY DEF VInv, TypeOK, StorageTypeOK
<1>5. AcceptedVerifies'
  BY <1>1, <1>3, <1>4 DEF VInv, AcceptedVerifies
<1>6. ASSUME NEW f \in EventLoops
      PROVE  /\ pc'[f] \in Passed => blockVerify(item[f])'
             /\ pc'[f] \in Stored => item'[f] \in blocks'
             /\ pc'[f] \in TxPassed => transactionVerify(item[f])'
  <2>1. /\ pc[f] \in Passed => item[f] \in BlockHash
        /\ pc[f] \in TxPassed => item[f] \in TxHash
    BY DEF VInv, TypeOK, Passed, TxPassed, Checking, TxPlaces, Putting
  <2>2. QED
    BY <1>1, <1>3, <2>1 DEF VInv
<1>7. QED
  BY <1>5, <1>6 DEF VInv

\* Any number of event loops, over whatever collections, store only what verifies
\* and goes on verifying against all that was put.
THEOREM EventLoopsAcceptedVerifies == Spec => []AcceptedVerifies
<1>1. Init => VInv
  BY TypeInductive DEF Init, StorageInit, VInv, AcceptedVerifies, Passed, Putting, Stored, TxPassed
<1>2. VInv /\ [Next]_vars => VInv'
  <2> SUFFICES ASSUME VInv, [Next]_vars
               PROVE  VInv'
    OBVIOUS
  <2>1. TypeOK'
    BY TypeInductive DEF VInv
  <2>2. ASSUME NEW e \in EventLoops, Step(e)
        PROVE  VInv'
    BY <2>2, LoopKeepsVInv
  <2>3. QED
    BY <2>1, <2>2, ClockKeepsVInv DEF Next, Step, vars, storageVars
<1>3. VInv => AcceptedVerifies
  BY DEF VInv
<1>4. QED
  BY <1>1, <1>2, <1>3, PTL DEF Spec

-----------------------------------------------------------------------------
(* Nobody's coins are lost                                                 *)

SpentSomewhere == UNION {SpentBy(b) : b \in blocks}

Standing(o) == o \in unspentTransactionOutputSet \cup SpentSomewhere

\* The UTXO set changes with one transaction of a stored block.
LEMMA StepUnspent ==
  ASSUME VInv, NEW e \in EventLoops, Step(e)
  PROVE  \/ unspentTransactionOutputSet' = unspentTransactionOutputSet
         \/ /\ PutTransaction(e) /\ item[e] \in blocks
            /\ next[e] \in DOMAIN TxsOf(item[e])
            /\ Creates(TxsOf(item[e])[next[e]]) \subseteq unspentTransactionOutputSet'
            /\ unspentTransactionOutputSet \ Spends(TxsOf(item[e])[next[e]])
                 \subseteq unspentTransactionOutputSet'
<1>1. CASE PutTransaction(e)
  <2>1. item[e] \in blocks /\ next[e] \in DOMAIN TxsOf(item[e])
    BY <1>1 DEF VInv, TypeOK, PutTransaction, At, Stored
  <2>2. \E gone \in SUBSET Spends(TxsOf(item[e])[next[e]]) :
          unspentTransactionOutputSet' = (unspentTransactionOutputSet \ gone)
                                         \cup Creates(TxsOf(item[e])[next[e]])
    BY <1>1 DEF PutTransaction
  <2>3. QED
    BY <1>1, <2>1, <2>2
<1>2. CASE ~PutTransaction(e) /\ HandleBlock(e)
  BY <1>2 DEF HandleBlock, ReceiveBlock, DiscardLowBlock, VerifyBlock, CheckUnspent,
     PutHeight, PutHash, PutByHeight, RelayBlock, storageVars, chainVars
<1>3. CASE HandleTransaction(e)
  BY <1>3 DEF HandleTransaction, ReceiveTransaction, TransactionUnspent,
     TransactionVerify, TransactionConflict, CheckTransaction, PutTransactionInMempool,
     RelayTransaction, storageVars, chainVars
<1>4. QED
  BY <1>1, <1>2, <1>3 DEF Step

\* An output leaves it only for a stored block that spends it.
LEMMA StandingStays ==
  ASSUME VInv, NEW e \in EventLoops, Step(e), NEW o, Standing(o)
  PROVE  Standing(o)'
<1>1. blocks \subseteq blocks'
  BY StepPuts DEF VInv
<1>2. SpentSomewhere \subseteq SpentSomewhere'
  BY <1>1 DEF SpentSomewhere
<1>3. CASE unspentTransactionOutputSet' = unspentTransactionOutputSet \/ o \in SpentSomewhere
  BY <1>2, <1>3 DEF Standing
<1>4. CASE /\ unspentTransactionOutputSet' # unspentTransactionOutputSet
           /\ o \in unspentTransactionOutputSet
  <2>1. /\ item[e] \in blocks /\ next[e] \in DOMAIN TxsOf(item[e])
        /\ unspentTransactionOutputSet \ Spends(TxsOf(item[e])[next[e]])
             \subseteq unspentTransactionOutputSet'
    BY <1>4, StepUnspent
  <2>2. Spends(TxsOf(item[e])[next[e]]) \subseteq SpentBy(item[e])
    BY <2>1 DEF SpentBy
  <2>3. SpentBy(item[e]) \subseteq SpentSomewhere
    BY <2>1 DEF SpentSomewhere
  <2>4. QED
    BY <1>2, <1>4, <2>1, <2>2, <2>3 DEF Standing
<1>5. QED
  BY <1>3, <1>4 DEF Standing

\* Loop e is in the putBlock of b and has not come to its transaction k.
Ahead(e, b, k) ==
  /\ item[e] = b
  /\ At(e, "byHeight") \/ (At(e, "tx") /\ next[e] <= k)

\* What a stored block creates is there, or spent, or some loop still gets to it.
KInv ==
  damaged = {} =>
    \A b \in blocks : \A k \in DOMAIN TxsOf(b) : \A o \in Creates(TxsOf(b)[k]) :
      Standing(o) \/ \E e \in EventLoops : Ahead(e, b, k)

\* What is damaged stays so, and a change that damages nothing goes through.
LEMMA StepDamages ==
  ASSUME NEW e \in EventLoops, Step(e)
  PROVE  damaged \subseteq damaged'
<1>1. CASE HandleBlock(e)
  BY <1>1 DEF HandleBlock, ReceiveBlock, DiscardLowBlock, VerifyBlock, CheckUnspent,
     PutHeight, PutHash, PutByHeight, PutTransaction, RelayBlock, Change
<1>2. CASE HandleTransaction(e)
  BY <1>2 DEF HandleTransaction, ReceiveTransaction, TransactionUnspent,
     TransactionVerify, TransactionConflict, CheckTransaction, PutTransactionInMempool,
     RelayTransaction, Change
<1>3. QED
  BY <1>1, <1>2 DEF Step

LEMMA ChangeSpares ==
  ASSUME TypeOK, NEW e \in EventLoops, NEW place, NEW n, Change(e, place, n), damaged' = {}
  PROVE  pc'[e] = place /\ next'[e] = n /\ item' = item
BY DEF Change, Goto, TypeOK

\* A step leaves nothing behind that was still ahead of its loop.
LEMMA OwnPutsKept ==
  ASSUME VInv, NEW e \in EventLoops, Step(e), damaged' = {},
         NEW b \in blocks, NEW k \in DOMAIN TxsOf(b), NEW o \in Creates(TxsOf(b)[k]),
         Ahead(e, b, k)
  PROVE  Standing(o)' \/ Ahead(e, b, k)'
<1>1. TypeOK /\ TxsOf(b) \in Seq(TxHash)
  BY BlockTypes DEF VInv, TypeOK, StorageTypeOK
<1>2. k \in 1 .. Len(TxsOf(b))
  BY <1>1
<1>3. pc[e] \in {"byHeight", "tx"} /\ item[e] = b
  BY DEF Ahead, At
<1>4. PutByHeight(e) \/ PutTransaction(e)
  BY <1>3 DEF Step, HandleBlock, HandleTransaction, ReceiveBlock, DiscardLowBlock,
     VerifyBlock, CheckUnspent, PutHeight, PutHash, RelayBlock,
     ReceiveTransaction, TransactionUnspent, TransactionVerify, TransactionConflict,
     PutTransactionInMempool, RelayTransaction, At
<1>5. CASE PutByHeight(e)
  <2>1. TxsOf(b) # << >> /\ 1 <= k
    BY <1>1, <1>2
  <2>2. Change(e, "tx", 1)
    BY <1>3, <1>5, <2>1 DEF PutByHeight
  <2>3. pc'[e] = "tx" /\ next'[e] = 1 /\ item' = item
    BY <1>1, <2>2, ChangeSpares
  <2>4. QED
    BY <1>3, <2>1, <2>3 DEF Ahead, At
<1>6. CASE PutTransaction(e)
  <2>1. pc[e] = "tx" /\ next[e] <= k /\ next[e] \in Nat
    BY <1>1, <1>6 DEF PutTransaction, Ahead, At, TypeOK
  <2>2. CASE next[e] = k
    <3>1. o \in unspentTransactionOutputSet'
      BY <1>3, <1>6, <2>2 DEF PutTransaction
    <3>2. QED
      BY <3>1 DEF Standing
  <2>3. CASE next[e] # k
    <3>1. next[e] # Len(TxsOf(b)) /\ next[e] + 1 <= k
      BY <1>1, <1>2, <2>1, <2>3
    <3>2. Change(e, "tx", next[e] + 1)
      BY <1>3, <1>6, <3>1 DEF PutTransaction
    <3>3. pc'[e] = "tx" /\ next'[e] = next[e] + 1 /\ item' = item
      BY <1>1, <3>2, ChangeSpares
    <3>4. QED
      BY <1>3, <3>1, <3>3 DEF Ahead, At
  <2>4. QED
    BY <2>2, <2>3
<1>7. QED
  BY <1>4, <1>5, <1>6

LEMMA LoopKeepsKInv ==
  ASSUME VInv, KInv, NEW e \in EventLoops, Step(e)
  PROVE  KInv'
<1> SUFFICES ASSUME damaged' = {}, NEW b \in blocks', NEW k \in DOMAIN TxsOf(b),
                    NEW o \in Creates(TxsOf(b)[k])
             PROVE  Standing(o)' \/ \E f \in EventLoops : Ahead(f, b, k)'
  BY DEF KInv
<1>1. TypeOK /\ damaged = {}
  BY StepDamages DEF VInv
<1>2. CASE b \in blocks
  <2>1. CASE Standing(o)
    BY <2>1, StandingStays
  <2>2. CASE ~Standing(o)
    <3>1. PICK f \in EventLoops : Ahead(f, b, k)
      BY <1>1, <1>2, <2>2 DEF KInv
    <3>2. CASE f = e
      BY <1>2, <3>1, <3>2, OwnPutsKept
    <3>3. CASE f # e
      BY <1>1, <3>1, <3>3, OthersStay DEF Ahead, At
    <3>4. QED
      BY <3>2, <3>3
  <2>3. QED
    BY <2>1, <2>2
<1>3. CASE b \notin blocks
  <2>1. PutHash(e) /\ b = item[e]
    BY <1>1, <1>3, StepPuts
  <2>2. pc'[e] = "byHeight" /\ item' = item
    BY <1>1, <2>1, ChangeSpares DEF PutHash
  <2>3. QED
    BY <2>1, <2>2 DEF Ahead, At
<1>4. QED
  BY <1>2, <1>3

\* However many loops put blocks beside one another, and whichever of them put the
\* same block, no interleaving loses an output that a stored block created and none
\* spends; only a race that spoils a collection can.
THEOREM EventLoopsUnspentKept == Spec => []UnspentKept
<1>1. Init => VInv /\ KInv
  BY TypeInductive
     DEF Init, StorageInit, VInv, AcceptedVerifies, Passed, Putting, Stored, TxPassed, KInv
<1>2. VInv /\ KInv /\ [Next]_vars => VInv' /\ KInv'
  <2> SUFFICES ASSUME VInv, KInv, [Next]_vars
               PROVE  VInv' /\ KInv'
    OBVIOUS
  <2>1. TypeOK'
    BY TypeInductive DEF VInv
  <2>2. ASSUME NEW e \in EventLoops, Step(e)
        PROVE  VInv' /\ KInv'
    BY <2>2, LoopKeepsVInv, LoopKeepsKInv
  <2>3. ASSUME UNCHANGED <<storageVars, loopVars>>, Tick \/ UNCHANGED clock
        PROVE  VInv' /\ KInv'
    <3>1. VInv'
      BY <2>1, <2>3, ClockKeepsVInv DEF storageVars
    <3>2. KInv'
      BY <2>3 DEF KInv, Standing, SpentSomewhere, Ahead, At, storageVars, chainVars, loopVars
    <3>3. QED
      BY <3>1, <3>2
  <2>4. QED
    BY <2>2, <2>3 DEF Next, Step, vars
<1>3. VInv /\ KInv => UnspentKept
  <2> SUFFICES ASSUME VInv, KInv, Quiet, damaged = {},
                      NEW b \in blocks, NEW o \in CreatedBy(b), o \notin SpentSomewhere
               PROVE  o \in unspentTransactionOutputSet
    BY DEF UnspentKept, SpentSomewhere
  <2>1. PICK k \in DOMAIN TxsOf(b) : o \in Creates(TxsOf(b)[k])
    BY DEF CreatedBy
  <2>2. \A e \in EventLoops : ~Ahead(e, b, k)
    BY DEF Quiet, Ahead, At
  <2>3. Standing(o)
    BY <2>1, <2>2 DEF KInv
  <2>4. QED
    BY <2>3 DEF Standing
<1>4. QED
  BY <1>1, <1>2, <1>3, PTL DEF Spec

-----------------------------------------------------------------------------
(* What the steps of an application are to the storage                    *)

\* A handler's step and a step of the application's putBlock are steps of an
\* event loop.
LEMMA LoopSteps ==
  ASSUME NEW e \in EventLoops, Handle(e) \/ (PutOwnBlock /\ e = Application)
  PROVE  Step(e)
BY DEF Handle, PutOwnBlock, Step, HandleBlock, HandleTransaction

\* Assembling leaves everything alone but the mempool, from which it may only
\* remove; so does a step of nobody or of the clock.
LEMMA BuildSteps ==
  ASSUME \/ Build \/ UNCHANGED miningVars
         \/ Tick /\ UNCHANGED <<storageVars, loopVars, relays, heightsTold, builderVars>>
  PROVE  /\ UNCHANGED <<chainVars, loopVars, relays, heightsTold>>
         /\ mempool' \subseteq mempool
         /\ clock' = clock \/ Tick
         /\ Build => clock' = clock
BY DEF Build, ReadTip, ReadHeight, ReadDifficulty, ReadMempool, WalkMempool, FinishCandidate,
   Forget, Leave, miningVars, vars, storageVars, loopVars

\* Submitting a block leaves the storage alone and takes the application to
\* putBlock with a block that verifies.
LEMMA SubmitSteps ==
  ASSUME Submit
  PROVE  /\ UNCHANGED <<storageVars, clock, seenHeight, next, damaged, relays, heightsTold>>
         /\ \E b \in BlockHash :
              /\ blockVerify(b)
              /\ pc' = [pc EXCEPT ![Application] = "height"]
              /\ item' = [item EXCEPT ![Application] = b]
BY DEF Submit, Goto

\* Those are all the steps.
LEMMA MiningSteps ==
  ASSUME [MiningNext]_miningVars
  PROVE  \/ \E e \in EventLoops : Handle(e) \/ (PutOwnBlock /\ e = Application)
         \/ Build \/ UNCHANGED miningVars
         \/ Tick /\ UNCHANGED <<storageVars, loopVars, relays, heightsTold, builderVars>>
         \/ Submit
BY MiningAssumption DEF MiningNext, Mine

-----------------------------------------------------------------------------
(* Types and ground                                                        *)

\* Submitting keeps the types.
LEMMA SubmitTyped ==
  ASSUME TypeOK, Submit
  PROVE  TypeOK'
<1>1. LoopsTyped /\ SharedTyped /\ Application \in EventLoops
  BY MiningAssumption DEF TypeOK, LoopsTyped, SharedTyped
<1>2. PICK b \in BlockHash : /\ pc' = [pc EXCEPT ![Application] = "height"]
                             /\ item' = [item EXCEPT ![Application] = b]
  BY SubmitSteps
<1>3. /\ seenHeight' = [seenHeight EXCEPT ![Application] = seenHeight[Application]]
      /\ next' = [next EXCEPT ![Application] = next[Application]]
      /\ seenHeight[Application] \in Int /\ next[Application] \in Nat
      /\ damaged' \subseteq Changing
  BY <1>1, Untouched, SubmitSteps DEF LoopsTyped
<1>4. /\ "height" \in {"idle"} \cup Checking \cup Putting \cup TxPlaces
      /\ "height" \notin TxPlaces /\ "height" # "tx"
      /\ b \in Relayable \cup {NoBlock}
  BY <1>2 DEF Checking, Putting, TxPlaces, Relayable
<1>5. LoopsTyped'
  BY <1>1, <1>2, <1>3, <1>4, LoopStep
<1>6. SharedTyped'
  BY <1>1, SubmitSteps DEF SharedTyped, StorageTypeOK, storageVars, chainVars
<1>7. QED
  BY <1>5, <1>6 DEF TypeOK, LoopsTyped, SharedTyped

\* Every step keeps the types.
LEMMA MiningTypeInductive == TypeOK /\ [MiningNext]_miningVars => TypeOK'
<1> SUFFICES ASSUME TypeOK, [MiningNext]_miningVars
             PROVE  TypeOK'
  OBVIOUS
<1>1. ASSUME NEW e \in EventLoops, Handle(e) \/ (PutOwnBlock /\ e = Application)
      PROVE  TypeOK'
  BY <1>1, LoopSteps, TypeInductive DEF Next, Step
<1>2. ASSUME UNCHANGED <<chainVars, loopVars, relays, heightsTold>>,
             mempool' \subseteq mempool, clock' = clock \/ Tick
      PROVE  TypeOK'
  BY <1>2 DEF TypeOK, StorageTypeOK, chainVars, loopVars, Tick
<1>3. QED
  BY <1>1, <1>2, MiningSteps, BuildSteps, SubmitTyped

-----------------------------------------------------------------------------
(* What was accepted goes on verifying                                     *)

\* What Submit hands to putBlock verified in the same step.
LEMMA SubmitKeepsVInv ==
  ASSUME VInv, Submit
  PROVE  VInv'
<1>1. PICK b \in BlockHash : /\ blockVerify(b)
                             /\ pc' = [pc EXCEPT ![Application] = "height"]
                             /\ item' = [item EXCEPT ![Application] = b]
  BY SubmitSteps
<1>2. blocks' = blocks /\ mempool' = mempool /\ clock' = clock
      /\ blockHashesByTransaction' = blockHashesByTransaction
  BY SubmitSteps DEF storageVars, chainVars
<1>3. TypeOK /\ TypeOK'
  BY SubmitTyped DEF VInv
<1>4. Grown
  BY <1>2, <1>3, ClockAssumption DEF Grown, canGetTransaction, TypeOK
<1>5. /\ \A c \in BlockHash : blockVerify(c) => blockVerify(c)'
      /\ \A t \in TxHash : transactionVerify(t) => transactionVerify(t)'
  BY <1>4, AcceptedStays
<1>6. /\ pc \in [EventLoops -> {"idle"} \cup Checking \cup Putting \cup TxPlaces]
      /\ item \in [EventLoops -> Relayable \cup {NoBlock}]
      /\ blocks \subseteq BlockHash /\ mempool \subseteq TxHash
  BY <1>3 DEF TypeOK, StorageTypeOK
<1>7. AcceptedVerifies'
  BY <1>2, <1>5, <1>6 DEF VInv, AcceptedVerifies
<1>8. ASSUME NEW f \in EventLoops
      PROVE  /\ pc'[f] \in Passed => blockVerify(item[f])'
             /\ pc'[f] \in Stored => item'[f] \in blocks'
             /\ pc'[f] \in TxPassed => transactionVerify(item[f])'
  <2>1. CASE f = Application
    <3>1. item'[f] = b /\ pc'[f] = "height"
      BY <1>1, <1>6, <2>1
    <3>2. QED
      BY <1>1, <1>5, <3>1 DEF Stored, TxPassed
  <2>2. CASE f # Application
    <3>1. item'[f] = item[f] /\ pc'[f] = pc[f]
      BY <1>1, <1>6, <2>2
    <3>2. /\ pc[f] \in Passed => item[f] \in BlockHash
          /\ pc[f] \in TxPassed => item[f] \in TxHash
      BY <1>3 DEF TypeOK, Passed, TxPassed, Checking, TxPlaces, Putting
    <3>3. QED
      BY <1>2, <1>5, <3>1, <3>2 DEF VInv
  <2>3. QED
    BY <2>1, <2>2
<1>9. QED
  BY <1>3, <1>7, <1>8 DEF VInv

\* Mining keeps what was accepted verifying.
LEMMA MiningVInvInductive ==
  ASSUME VInv, [MiningNext]_miningVars
  PROVE  VInv'
<1>1. TypeOK'
  BY MiningTypeInductive DEF VInv
<1>2. ASSUME NEW e \in EventLoops, Handle(e) \/ (PutOwnBlock /\ e = Application)
      PROVE  VInv'
  BY <1>2, LoopSteps, LoopKeepsVInv
<1>3. ASSUME UNCHANGED <<chainVars, loopVars>>, mempool' \subseteq mempool,
             clock' = clock \/ Tick
      PROVE  VInv'
  BY <1>1, <1>3, ClockKeepsVInv
<1>4. QED
  BY <1>2, <1>3, SubmitKeepsVInv, MiningSteps, BuildSteps

\* What verification reads only grows, whatever the mining system does.
LEMMA MiningGrown ==
  ASSUME VInv, [MiningNext]_miningVars
  PROVE  Grown
<1>1. clock \in Int /\ TypeOK
  BY ClockAssumption DEF VInv, TypeOK
<1>2. ASSUME NEW e \in EventLoops, Step(e)
      PROVE  Grown
  BY <1>2, LoopGrown
<1>3. ASSUME UNCHANGED chainVars, clock' = clock \/ Tick
      PROVE  Grown
  BY <1>1, <1>3, ClockAssumption DEF Grown, canGetTransaction, Tick, chainVars
<1>4. QED
  BY <1>2, <1>3, MiningSteps, LoopSteps, BuildSteps, SubmitSteps DEF storageVars

\* What verified goes on verifying whatever the application does.
LEMMA MiningStable ==
  ASSUME VInv, [MiningNext]_miningVars
  PROVE  \A t \in TxHash : transactionVerify(t) => transactionVerify(t)'
BY MiningGrown, AcceptedStays

\* A miner beside any number of event loops
\* stores only what goes on verifying, and what it removes from the mempool
\* leaves only transactions that go on verifying.
THEOREM MiningAcceptedVerifies == MiningSpec => []AcceptedVerifies
<1>1. MiningInit => VInv
  BY TypeInductive
     DEF MiningInit, Init, StorageInit, VInv, AcceptedVerifies, Passed, Putting, Stored, TxPassed
<1>2. VInv => AcceptedVerifies
  BY DEF VInv
<1>3. QED
  BY <1>1, <1>2, MiningVInvInductive, PTL DEF MiningSpec

\* A block that verifies is grounded.
LEMMA VerifiedGrounded ==
  ASSUME NEW b \in BlockHash, blockVerify(b)
  PROVE  Grounded(b)
<1>1. BlockOf[b].BlockHeight > 0 =>
        /\ BlockOf[b].HashPreviousBlock \in blocks
        /\ BlockOf[b].BlockHeight = BlockOf[BlockOf[b].HashPreviousBlock].BlockHeight + 1
  BY DEF blockVerify, headerVerify
<1>2. ASSUME NEW k \in 2 .. Len(TxsOf(b)), NEW o \in Spends(TxsOf(b)[k])
      PROVE  canGetTransaction(o[1]) /\ OutputExists(o)
  <2>1. verifyInputs(TxsOf(b)[k])
    BY DEF blockVerify, verifyTransactions, transactionVerify
  <2>2. PICK i \in DOMAIN InputsOf(TxsOf(b)[k]) : o = OutpointOf(InputsOf(TxsOf(b)[k])[i])
    BY DEF Spends
  <2>3. inputVerify(InputsOf(TxsOf(b)[k])[i])
    BY <2>1 DEF verifyInputs
  <2>4. canGetTransaction(o[1]) /\ OutputExists(o)
    BY <2>2, <2>3 DEF inputVerify, OutpointOf
  <2>5. QED
    BY <2>4
<1>3. QED
  BY <1>1, <1>2 DEF Grounded

\* A miner that stores its own block without asking whether its outputs are
\* unspent still stores no block without its predecessor, or one that spends
\* an output nobody created.
THEOREM MiningStoredBlocksGrounded == MiningSpec => []StoredBlocksGrounded
<1>1. TypeOK /\ AcceptedVerifies => StoredBlocksGrounded
  BY VerifiedGrounded DEF TypeOK, StorageTypeOK, AcceptedVerifies, StoredBlocksGrounded
<1>2. MiningInit => TypeOK
  BY TypeInductive DEF MiningInit
<1>3. QED
  BY <1>1, <1>2, MiningAcceptedVerifies, MiningTypeInductive, PTL DEF MiningSpec

-----------------------------------------------------------------------------
(* A candidate stands on the tip that was read                             *)

\* Where the application is after each of its reads.
AfterTip        == {"height", "difficulty", "mempool", "walk", "block"}
AfterHeight     == {"difficulty", "mempool", "walk", "block"}

\* While no loop has changed the chain since the application began to read it,
\* the candidate still describes the tip and holds unspent inputs only.
UInv ==
  /\ TypeOK
  /\ making \in {"nothing"} \cup AfterTip
  /\ DOMAIN candidate = DOMAIN NoCandidate
  /\ making # "nothing" => pc[Application] = "idle"
  /\ making = "nothing" => candidate.Transactions = {}
  /\ undisturbed /\ making \in AfterTip => candidate.HashPreviousBlock = Tip
  /\ undisturbed /\ making \in AfterHeight => candidate.BlockHeight = blockheight + 1
  /\ undisturbed => \A t \in candidate.Transactions : verifyInputsUnspent(t)

\* Each read of the builder keeps it.
LEMMA BuildKeepsUInv ==
  ASSUME UInv, TypeOK', Build \/ Submit
  PROVE  UInv'
<1>1. TypeOK'
  OBVIOUS
<1>2. Build => UNCHANGED <<chainVars, loopVars>>
  BY BuildSteps
<1>3. \A t : UNCHANGED chainVars => (verifyInputsUnspent(t)' <=> verifyInputsUnspent(t))
  BY DEF verifyInputsUnspent, isTransactionOutputSpent, chainVars
<1>4. UNCHANGED chainVars => Tip' = Tip /\ blockheight' = blockheight
  BY DEF Tip, chainVars
<1>5. CASE ReadTip
  BY <1>1, <1>2, <1>4, <1>5 DEF Build, UInv, ReadTip, At, NoCandidate, AfterTip, AfterHeight, loopVars
<1>6. CASE ReadHeight
  BY <1>1, <1>2, <1>3, <1>4, <1>6
     DEF Build, UInv, ReadHeight, Leave, NoCandidate, AfterTip, AfterHeight, loopVars
<1>7. CASE ReadDifficulty /\ ~Abandon
  BY <1>1, <1>2, <1>3, <1>4, <1>7
     DEF Build, UInv, ReadDifficulty, Leave, NoCandidate, AfterTip, AfterHeight, loopVars
<1>8. CASE ReadMempool
  BY <1>1, <1>2, <1>3, <1>4, <1>8
     DEF Build, UInv, ReadMempool, Leave, NoCandidate, AfterTip, AfterHeight, loopVars
<1>9. CASE WalkMempool
  BY <1>1, <1>2, <1>3, <1>4, <1>9
     DEF Build, UInv, WalkMempool, minable, Leave, NoCandidate, AfterTip, AfterHeight, loopVars
<1>10. CASE FinishCandidate
  BY <1>1, <1>2, <1>3, <1>4, <1>10
     DEF Build, UInv, FinishCandidate, NoCandidate, AfterTip, AfterHeight, loopVars
<1>11. CASE Abandon
  BY <1>1, <1>11 DEF UInv, Abandon, NoCandidate, AfterTip, AfterHeight
<1>12. QED
  BY <1>5, <1>6, <1>7, <1>8, <1>9, <1>10, <1>11 DEF Build, Submit

\* Every step of the whole system keeps it.
LEMMA UInvInductive == UInv /\ [MiningNext]_miningVars => UInv'
<1> SUFFICES ASSUME UInv, [MiningNext]_miningVars
             PROVE  UInv'
  OBVIOUS
<1>1. TypeOK /\ TypeOK'
  BY MiningTypeInductive DEF UInv
<1>2. UNCHANGED chainVars =>
        /\ \A t : verifyInputsUnspent(t)' <=> verifyInputsUnspent(t)
        /\ Tip' = Tip /\ blockheight' = blockheight
  BY DEF verifyInputsUnspent, isTransactionOutputSpent, chainVars, Tip
<1>3. ASSUME NEW e \in EventLoops \ {Application}, Handle(e)
      PROVE  UInv'
  <2>1. pc'[Application] = pc[Application]
    BY <1>1, <1>3, MiningAssumption, LoopSteps, OthersStay
  <2>2. /\ undisturbed' => undisturbed /\ UNCHANGED chainVars
        /\ UNCHANGED <<making, candidate>>
    BY <1>3 DEF Handle
  <2>3. QED
    BY <1>1, <1>2, <2>1, <2>2 DEF UInv
<1>4. CASE PutOwnBlock
  <2>1. making = "nothing" /\ candidate' = candidate /\ making' = making
        /\ undisturbed' = undisturbed
    BY <1>4 DEF UInv, PutOwnBlock, PutHeight, PutHash, PutByHeight, PutTransaction, RelayBlock,
                At, builderVars
  <2>2. QED
    BY <1>1, <2>1 DEF UInv, AfterTip, AfterHeight
<1>5. ASSUME UNCHANGED <<chainVars, loopVars, builderVars>>
      PROVE  UInv'
  BY <1>1, <1>2, <1>5 DEF UInv, loopVars, builderVars
<1>6. QED
  BY <1>1, <1>3, <1>4, <1>5, BuildKeepsUInv
     DEF MiningNext, Mine, miningVars, vars, storageVars

\* A candidate that no loop's step has overtaken extends the chain: the block
\* that is made of it stands on the tip, one above its height, and spends
\* nothing that is spent, which the application never checks.
THEOREM MiningUndisturbedExtends == MiningSpec => []UndisturbedExtends
<1>1. MiningInit => UInv
  BY TypeInductive DEF MiningInit, UInv, NoCandidate, AfterTip, AfterHeight
<1>2. UInv => UndisturbedExtends
  <2> SUFFICES ASSUME UInv, making = "block", undisturbed, NEW b \in BlockHash, IsCandidate(b)
               PROVE  /\ BlockOf[b].HashPreviousBlock = Tip
                      /\ BlockOf[b].BlockHeight = blockheight + 1
                      /\ verifyTransactionsUnspent(b)
    BY DEF UndisturbedExtends
  <2>1. /\ BlockOf[b].HashPreviousBlock = Tip
        /\ BlockOf[b].BlockHeight = blockheight + 1
    BY DEF UInv, IsCandidate, AfterTip, AfterHeight
  <2>2. \A k \in 2 .. Len(TxsOf(b)) : TxsOf(b)[k] \in candidate.Transactions
    BY DEF IsCandidate, TxsOf
  <2>3. QED
    BY <2>1, <2>2 DEF UInv, verifyTransactionsUnspent
<1>3. QED
  BY <1>1, <1>2, UInvInductive, PTL DEF MiningSpec

-----------------------------------------------------------------------------
(* What is forgotten was spent                                             *)

InputsStand(t) == \A o \in Spends(t) : Standing(o)

Doomed(t) == Spends(t) \cap SpentSomewhere # {}

\* The transactions that are pending, copied or on their way to the mempool stand on
\* outputs that are unspent or that a stored block spends. Those copied verify, and
\* those the walk left out have lost an input.
SInv ==
  /\ VInv
  /\ waiting \subseteq TxHash
  /\ \A t \in mempool \cup waiting : InputsStand(t)
  /\ \A e \in EventLoops : pc[e] \in {"txVerify"} \cup TxPassed => InputsStand(item[e])
  /\ \A t \in waiting : transactionVerify(t)
  /\ \A t \in toRemove : Doomed(t)

\* A loop comes past its check of the inputs with unspent ones only: nothing here is
\* missed or found by mistake.
LEMMA StepChecksInputs ==
  ASSUME TypeOK, NEW e \in EventLoops, Step(e), pc'[e] \in {"txVerify"} \cup TxPassed
  PROVE  /\ item'[e] = item[e]
         /\ \/ pc[e] \in {"txVerify"} \cup TxPassed
            \/ verifyInputsUnspent(item[e])
<1>1. /\ pc \in [EventLoops -> {"idle"} \cup Checking \cup Putting \cup TxPlaces]
      /\ item \in [EventLoops -> Relayable \cup {NoBlock}]
  BY DEF TypeOK
<1>2. CASE HandleBlock(e)
  BY <1>1, <1>2 DEF HandleBlock, ReceiveBlock, DiscardLowBlock, VerifyBlock, CheckUnspent,
     PutHeight, PutHash, PutByHeight, PutTransaction, RelayBlock, Change, Return, Goto, At, TxPassed
<1>3. CASE HandleTransaction(e)
  BY <1>1, <1>3 DEF HandleTransaction, ReceiveTransaction, TransactionUnspent,
     TransactionVerify, TransactionConflict, CheckTransaction, PutTransactionInMempool,
     RelayTransaction, Change, At, Return, Goto, TxPassed
<1>4. QED
  BY <1>2, <1>3 DEF Step

\* A step of a loop keeps it.
LEMMA LoopKeepsSInv ==
  ASSUME SInv, NEW e \in EventLoops, Step(e), VInv', UNCHANGED <<waiting, toRemove>>
  PROVE  SInv'
<1>1. VInv /\ TypeOK
  BY DEF SInv, VInv
<1>2. \A t : InputsStand(t) => InputsStand(t)'
  BY <1>1, StandingStays DEF InputsStand
<1>3. blocks \subseteq blocks'
  BY <1>1, StepPuts
<1>4. \A t : Doomed(t) => Doomed(t)'
  BY <1>3 DEF Doomed, SpentSomewhere
<1>5. \A t \in TxHash : transactionVerify(t) => transactionVerify(t)'
  BY <1>1, LoopGrown, AcceptedStays
<1>6. \A t \in mempool' : InputsStand(t)
  BY <1>1, StepPuts DEF SInv, TxPassed
<1>7. ASSUME NEW f \in EventLoops, pc'[f] \in {"txVerify"} \cup TxPassed
      PROVE  InputsStand(item[f])'
  <2>1. item'[f] = item[f] /\ InputsStand(item[f])
    <3>1. CASE f = e
      <4>1. verifyInputsUnspent(item[e]) => InputsStand(item[e])
        BY DEF verifyInputsUnspent, isTransactionOutputSpent, InputsStand, Standing
      <4>2. QED
        BY <1>1, <1>7, <3>1, <4>1, StepChecksInputs DEF SInv
    <3>2. CASE f # e
      BY <1>1, <1>7, <3>2, OthersStay DEF SInv
    <3>3. QED
      BY <3>1, <3>2
  <2>2. QED
    BY <1>2, <2>1 DEF InputsStand
<1>8. QED
  BY <1>2, <1>4, <1>5, <1>6, <1>7 DEF SInv

\* What the builder leaves out has lost an input.
LEMMA NotMinableDoomed ==
  ASSUME SInv, NEW t \in waiting, ~minable(t)
  PROVE  Doomed(t)
<1>1. transactionVerify(t) /\ InputsStand(t)
  BY DEF SInv
<1>2. PICK o \in Spends(t) : o \notin unspentTransactionOutputSet
  BY <1>1 DEF minable, verifyInputsUnspent, isTransactionOutputSpent
<1>3. QED
  BY <1>1, <1>2 DEF InputsStand, Standing, Doomed

\* So does a step of the builder, of the clock or of nobody.
LEMMA BuildKeepsSInv ==
  ASSUME SInv, VInv', UNCHANGED chainVars, mempool' \subseteq mempool,
         \A f \in EventLoops : pc'[f] \in {"txVerify"} \cup TxPassed =>
           pc'[f] = pc[f] /\ item'[f] = item[f],
         \A t \in TxHash : transactionVerify(t) => transactionVerify(t)',
         waiting' \subseteq waiting \cup mempool,
         \A t \in toRemove' : t \in toRemove \/ (t \in waiting /\ ~minable(t))
  PROVE  SInv'
<1>1. \A t : /\ InputsStand(t)' <=> InputsStand(t)
             /\ Doomed(t)' <=> Doomed(t)
  BY DEF InputsStand, Standing, Doomed, SpentSomewhere, chainVars
<1>2. mempool \subseteq TxHash /\ waiting \subseteq TxHash
  BY DEF SInv, VInv, TypeOK, StorageTypeOK
<1>3. \A t \in mempool \cup waiting : transactionVerify(t)
  BY DEF SInv, VInv, AcceptedVerifies
<1>4. \A t \in toRemove' : Doomed(t)
  BY NotMinableDoomed DEF SInv
<1>5. \A f \in EventLoops : pc'[f] \in {"txVerify"} \cup TxPassed => InputsStand(item[f])'
  <2> SUFFICES ASSUME NEW f \in EventLoops, pc'[f] \in {"txVerify"} \cup TxPassed
               PROVE  InputsStand(item[f])'
    OBVIOUS
  <2>1. item'[f] = item[f] /\ InputsStand(item[f])
    BY DEF SInv
  <2>2. QED
    BY <2>1 DEF InputsStand, Standing, SpentSomewhere, chainVars
<1>6. QED
  BY <1>1, <1>2, <1>3, <1>4, <1>5 DEF SInv

\* Every step of the whole system keeps it.
LEMMA SInvInductive ==
  ASSUME SInv, [MiningNext]_miningVars
  PROVE  SInv'
<1>1. VInv /\ VInv' /\ TypeOK
  BY MiningVInvInductive DEF SInv, VInv
<1>2. \A t \in TxHash : transactionVerify(t) => transactionVerify(t)'
  BY <1>1, MiningStable
<1>3. ASSUME NEW e \in EventLoops, Handle(e) \/ (PutOwnBlock /\ e = Application)
      PROVE  SInv'
  BY <1>1, <1>3, LoopSteps, LoopKeepsSInv DEF Handle, PutOwnBlock, builderVars
<1>4. CASE Build \/ UNCHANGED miningVars
           \/ (Tick /\ UNCHANGED <<storageVars, loopVars, relays, heightsTold, builderVars>>)
  <2>1. UNCHANGED chainVars /\ mempool' \subseteq mempool /\ UNCHANGED loopVars
    BY <1>4, BuildSteps
  <2>2. waiting' \subseteq waiting \cup mempool
    BY <1>4 DEF Build, ReadTip, ReadHeight, ReadDifficulty, ReadMempool, WalkMempool,
       FinishCandidate, Abandon, miningVars, builderVars
  <2>3. \A t \in toRemove' : t \in toRemove \/ (t \in waiting /\ ~minable(t))
    BY <1>4 DEF Build, ReadTip, ReadHeight, ReadDifficulty, ReadMempool, WalkMempool,
       FinishCandidate, Abandon, miningVars, builderVars
  <2>4. QED
    BY <1>1, <1>2, <2>1, <2>2, <2>3, BuildKeepsSInv DEF loopVars
<1>5. CASE Submit
  <2>1. UNCHANGED chainVars /\ mempool' \subseteq mempool
    BY <1>5, SubmitSteps DEF storageVars
  <2>2. waiting' \subseteq waiting \cup mempool /\ toRemove' \subseteq toRemove
    BY <1>5 DEF Submit, Abandon
  <2>3. \A f \in EventLoops : pc'[f] \in {"txVerify"} \cup TxPassed =>
          pc'[f] = pc[f] /\ item'[f] = item[f]
    <3>1. PICK b \in BlockHash : /\ pc' = [pc EXCEPT ![Application] = "height"]
                                 /\ item' = [item EXCEPT ![Application] = b]
      BY <1>5, SubmitSteps
    <3>2. /\ pc \in [EventLoops -> {"idle"} \cup Checking \cup Putting \cup TxPlaces]
          /\ item \in [EventLoops -> Relayable \cup {NoBlock}]
      BY <1>1 DEF TypeOK
    <3>3. QED
      BY <3>1, <3>2, MiningAssumption DEF TxPassed
  <2>4. QED
    BY <1>1, <1>2, <2>1, <2>2, <2>3, BuildKeepsSInv
<1>6. QED
  BY <1>3, <1>4, <1>5, MiningSteps

\* The application never drops a pending transaction for a reason that may pass: what
\* it removes from the mempool has lost an input to a block that is stored, whatever
\* the loops were in the middle of when it looked.
THEOREM MiningOnlySpentForgotten == MiningSpec => OnlySpentForgotten
<1>1. MiningInit => SInv
  BY TypeInductive
     DEF MiningInit, Init, StorageInit, SInv, VInv, AcceptedVerifies, Passed, Putting, Stored, TxPassed
<1>2. ASSUME SInv, [MiningNext]_miningVars, NEW t \in mempool \ mempool'
      PROVE  \E b \in blocks : Spends(t) \cap SpentBy(b) # {}
  <2>1. ASSUME NEW e \in EventLoops, Step(e)
        PROVE  mempool \subseteq mempool'
    BY <2>1 DEF Step, HandleBlock, HandleTransaction, ReceiveBlock, DiscardLowBlock,
       VerifyBlock, CheckUnspent, PutHeight, PutHash, PutByHeight, PutTransaction, RelayBlock,
       ReceiveTransaction, TransactionUnspent, TransactionVerify, TransactionConflict,
       CheckTransaction, PutTransactionInMempool, RelayTransaction, storageVars
  <2>2. FinishCandidate
    BY <1>2, <2>1, MiningSteps, LoopSteps, SubmitSteps
       DEF Build, ReadTip, ReadHeight, ReadDifficulty, ReadMempool, WalkMempool, Leave,
           miningVars, vars, storageVars
  <2>3. t \in toRemove
    BY <1>2, <2>2 DEF FinishCandidate, Forget
  <2>4. Doomed(t)
    BY <1>2, <2>3 DEF SInv
  <2>5. QED
    BY <2>4 DEF Doomed, SpentSomewhere
<1>3. SInv /\ [MiningNext]_miningVars =>
        [\A t \in mempool \ mempool' : \E b \in blocks : Spends(t) \cap SpentBy(b) # {}]_miningVars
  BY <1>2
<1>4. SInv /\ [MiningNext]_miningVars => SInv'
  BY SInvInductive
<1>5. QED
  BY <1>1, <1>3, <1>4, PTL DEF MiningSpec, OnlySpentForgotten

-----------------------------------------------------------------------------
(* A candidate made of one tip                                             *)

\* The list holds only blocks of the map, and a candidate only what was read
\* from the storage and verified.
CInv ==
  /\ VInv
  /\ \A i \in DOMAIN blocksByHeight : blocksByHeight[i] \in blocks \cup {NoBlock}
  /\ making \in {"nothing"} \cup AfterTip
  /\ DOMAIN candidate = DOMAIN NoCandidate
  /\ candidate.Transactions \subseteq TxHash /\ waiting \subseteq TxHash
  /\ making \in AfterTip => candidate.HashPreviousBlock \in blocks
  /\ making \in AfterHeight /\ ~mixed =>
       candidate.BlockHeight = BlockOf[candidate.HashPreviousBlock].BlockHeight + 1
  /\ making \in {"mempool", "walk", "block"} /\ ~mixed =>
       LET P == BlockOf[candidate.HashPreviousBlock]
       IN  candidate.DifficultyTarget =
             calculateDifficultyTarget(Wrap(candidate.Time - P.Time), P.DifficultyTarget)
  /\ \A t \in candidate.Transactions : transactionVerify(t)

\* What the list holds stays in the map.
LEMMA ListInMap ==
  ASSUME CInv, [MiningNext]_miningVars
  PROVE  /\ blocks \subseteq blocks'
         /\ \A i \in DOMAIN blocksByHeight' : blocksByHeight'[i] \in blocks' \cup {NoBlock}
<1>1. TypeOK /\ VInv
  BY DEF CInv, VInv
<1>2. ASSUME NEW e \in EventLoops, Step(e)
      PROVE  /\ blocks \subseteq blocks'
             /\ \A i \in DOMAIN blocksByHeight' : blocksByHeight'[i] \in blocks' \cup {NoBlock}
  <2>1. blocks \subseteq blocks'
    BY <1>1, <1>2, StepPuts
  <2>2. CASE PutByHeight(e)
    <3>1. item[e] \in blocks
      BY <1>1, <2>2 DEF VInv, PutByHeight, At, Stored
    <3>2. blocksByHeight' = blocksByHeight \/ blocksByHeight' = AtHeight(blocksByHeight, item[e])
      BY <2>2 DEF PutByHeight
    <3>3. \A i \in DOMAIN AtHeight(blocksByHeight, item[e]) :
            AtHeight(blocksByHeight, item[e])[i] \in blocks \cup {NoBlock}
      <4> DEFINE n == IF BlockOf[item[e]].BlockHeight + 1 > Len(blocksByHeight)
                      THEN BlockOf[item[e]].BlockHeight + 1 ELSE Len(blocksByHeight)
                 at(i) == CASE i = BlockOf[item[e]].BlockHeight + 1 -> item[e]
                            [] i \in DOMAIN blocksByHeight
                               /\ i # BlockOf[item[e]].BlockHeight + 1 -> blocksByHeight[i]
                            [] OTHER -> NoBlock
      <4>1. AtHeight(blocksByHeight, item[e]) = [i \in 1 .. n |-> at(i)]
        BY DEF AtHeight
      <4>2. \A i : at(i) \in blocks \cup {NoBlock}
        BY <3>1 DEF CInv
      <4> HIDE DEF n, at
      <4>3. QED
        BY <4>1, <4>2
    <3>4. QED
      BY <2>1, <3>2, <3>3 DEF CInv
  <2>3. CASE ~PutByHeight(e)
    <3>1. blocksByHeight' = blocksByHeight
      BY <1>2, <2>3 DEF Step, HandleBlock, HandleTransaction, ReceiveBlock, DiscardLowBlock,
         VerifyBlock, CheckUnspent, PutHeight, PutHash, PutTransaction, RelayBlock,
         ReceiveTransaction, TransactionUnspent, TransactionVerify, TransactionConflict,
         CheckTransaction, PutTransactionInMempool, RelayTransaction, storageVars, chainVars
    <3>2. QED
      BY <2>1, <3>1 DEF CInv
  <2>4. QED
    BY <2>2, <2>3
<1>3. ASSUME UNCHANGED chainVars
      PROVE  /\ blocks \subseteq blocks'
             /\ \A i \in DOMAIN blocksByHeight' : blocksByHeight'[i] \in blocks' \cup {NoBlock}
  BY <1>3 DEF CInv, chainVars
<1>4. QED
  BY <1>2, <1>3, MiningSteps, LoopSteps, BuildSteps, SubmitSteps DEF storageVars

\* The builder takes only stored blocks for its tip and only transactions that
\* verify.
LEMMA BuildKeepsCInv ==
  ASSUME CInv, VInv', Build \/ Submit
  PROVE  CInv'
<1>1. UNCHANGED chainVars
  BY BuildSteps, SubmitSteps DEF storageVars
<1>2. /\ blocks' = blocks /\ blocksByHeight' = blocksByHeight /\ blockheight' = blockheight
      /\ Tip' = Tip
  BY <1>1 DEF chainVars, Tip
<1>3. canGetHighestBlock => Tip \in blocks
  BY DEF CInv, canGetHighestBlock, Tip
<1>4. \A t \in TxHash : transactionVerify(t) => transactionVerify(t)'
  BY MiningStable DEF CInv, MiningNext, Mine
<1>5. /\ mempool \subseteq TxHash /\ blockheight \in Int
      /\ \A b \in blocks : BlockOf[b].BlockHeight \in Int
  BY DataAssumption DEF CInv, VInv, TypeOK, StorageTypeOK, Block
<1>6. CASE ReadTip
  BY <1>2, <1>3, <1>4, <1>6 DEF CInv, ReadTip, NoCandidate, AfterTip, AfterHeight
<1>7. CASE ReadHeight
  BY <1>2, <1>4, <1>5, <1>7 DEF CInv, ReadHeight, NoCandidate, AfterTip, AfterHeight
<1>8. CASE ReadDifficulty /\ ~Abandon
  BY <1>2, <1>4, <1>8 DEF CInv, ReadDifficulty, NoCandidate, AfterTip, AfterHeight
<1>9. CASE ReadMempool
  BY <1>2, <1>4, <1>5, <1>9 DEF CInv, ReadMempool, NoCandidate, AfterTip, AfterHeight
<1>10. CASE WalkMempool
  BY <1>2, <1>4, <1>10 DEF CInv, WalkMempool, minable, NoCandidate, AfterTip, AfterHeight
<1>11. CASE FinishCandidate
  BY <1>2, <1>4, <1>11 DEF CInv, FinishCandidate, NoCandidate, AfterTip, AfterHeight
<1>12. CASE Abandon
  BY <1>2, <1>12 DEF CInv, Abandon, NoCandidate, AfterTip, AfterHeight
<1>13. QED
  BY <1>6, <1>7, <1>8, <1>9, <1>10, <1>11, <1>12 DEF Build, Submit

\* Every step of the whole system keeps it.
LEMMA CInvInductive ==
  ASSUME CInv, [MiningNext]_miningVars
  PROVE  CInv'
<1>1. VInv /\ VInv'
  BY MiningVInvInductive DEF CInv
<1>2. \A t \in TxHash : transactionVerify(t) => transactionVerify(t)'
  BY <1>1, MiningStable
<1>3. CASE Build \/ Submit
  BY <1>1, <1>3, BuildKeepsCInv
<1>4. CASE UNCHANGED <<making, candidate, waiting, mixed>>
  BY <1>1, <1>2, <1>4, ListInMap DEF CInv
<1>5. QED
  BY <1>3, <1>4 DEF MiningNext, Mine, Handle, PutOwnBlock, miningVars, builderVars

\* A candidate carries a time that has been, and collects its fees.
PInv ==
  /\ CInv
  /\ making \in AfterTip => candidate.Time \in ClockTimes /\ candidate.Time <= clock
  /\ making = "block" => candidate.Coinbase = Amount

\* PInv is inductive.
LEMMA PInvInductive ==
  ASSUME PInv, [MiningNext]_miningVars
  PROVE  PInv'
<1>1. CInv /\ CInv' /\ VInv /\ TypeOK
  BY CInvInductive DEF PInv, CInv, VInv
<1>2. clock \in ClockTimes /\ ClockTimes \subseteq Int /\ clock' \in Int /\ clock <= clock'
  BY <1>1, MiningGrown, ClockAssumption DEF Grown, TypeOK
<1>3. ASSUME UNCHANGED <<making, candidate>>
      PROVE  PInv'
  BY <1>1, <1>2, <1>3 DEF PInv, Amount
<1>4. ASSUME Build \/ Submit, ~UNCHANGED <<making, candidate>>
      PROVE  PInv'
  <2>1. DOMAIN candidate = DOMAIN NoCandidate
    BY <1>1 DEF CInv
  <2>2. CASE ReadTip
    BY <1>1, <1>2, <2>2 DEF PInv, ReadTip, NoCandidate, AfterTip, Amount, vars
  <2>3. CASE ReadHeight \/ (ReadDifficulty /\ ~Abandon)
    BY <1>1, <1>2, <2>1, <2>3 DEF PInv, ReadHeight, ReadDifficulty, NoCandidate, AfterTip, Amount
  <2>4. CASE ReadMempool \/ WalkMempool
    BY <1>1, <1>2, <2>1, <2>4 DEF PInv, ReadMempool, WalkMempool, NoCandidate, AfterTip, Amount
  <2>5. CASE FinishCandidate
    <3>1. /\ candidate'.Coinbase = Amount /\ candidate'.Time = candidate.Time
          /\ candidate'.BlockHeight = candidate.BlockHeight
          /\ candidate'.Transactions = candidate.Transactions
      BY <2>1, <2>5 DEF FinishCandidate, NoCandidate
    <3>2. Amount' = Amount
      BY <3>1 DEF Amount
    <3>3. QED
      BY <1>1, <1>2, <2>5, <3>1, <3>2 DEF PInv, FinishCandidate, AfterTip
  <2>6. CASE Abandon
    BY <1>1, <2>6 DEF PInv, Abandon, AfterTip
  <2>7. QED
    BY <1>4, <2>2, <2>3, <2>4, <2>5, <2>6 DEF Build, Submit
<1>5. QED
  BY <1>3, <1>4 DEF MiningNext, Mine, Handle, PutOwnBlock, miningVars, builderVars

\* A candidate that CandidateVerifies is about.
Whole ==
  /\ making = "block" /\ ~mixed
  /\ candidate.Transactions # {}
  /\ CandidateSpendsOnce
  /\ CandidateFits

\* The block it becomes is among the blocks in play, with a coinbase that is
\* made as it should be, and what it collects fits into a long.
InPlay ==
  Whole =>
    /\ \E b \in BlockHash : IsCandidate(b) /\ verifyCoinbase(TxsOf(b)[1], candidate.BlockHeight)
    /\ calculateBlockReward(candidate.BlockHeight)
         + SumFunction([t \in candidate.Transactions |-> getFees(t)]) <= LongMax

\* The transactions of the block are those of the candidate, one by one.
LEMMA CandidateTransactions ==
  ASSUME NEW b \in BlockHash, IsCandidate(b)
  PROVE  /\ IsFiniteSet(candidate.Transactions)
         /\ TxsOf(b) \in Seq(TxHash) /\ Len(TxsOf(b)) \in Nat \ {0}
         /\ candidate.Transactions # {} => Len(TxsOf(b)) >= 2
         /\ candidate.Transactions = {TxsOf(b)[k] : k \in 2 .. Len(TxsOf(b))}
         /\ \A j, k \in 2 .. Len(TxsOf(b)) : TxsOf(b)[j] = TxsOf(b)[k] => j = k
<1> DEFINE txs == TxsOf(b)
           K == 2 .. Len(txs)
           at == [k \in K |-> txs[k]]
           C == candidate.Transactions
<1>1. txs \in Seq(TxHash) /\ Len(txs) \in Nat
  BY DataAssumption DEF TxsOf, Block
<1>2. C = {at[k] : k \in K} /\ Len(txs) = Cardinality(C) + 1
  BY DEF IsCandidate, TxsOf
<1>3. IsFiniteSet(K) /\ Cardinality(K) = IF 2 > Len(txs) THEN 0 ELSE Len(txs) - 2 + 1
  BY <1>1, FS_Interval
<1>4. at \in Surjection(K, C) /\ at \in [K -> {at[k] : k \in K}]
  BY <1>2 DEF Surjection
<1>5. \A k \in K : at[k] = txs[k]
  OBVIOUS
<1> HIDE DEF txs, K, at, C
<1>6. IsFiniteSet(C)
  BY <1>2, <1>3, <1>4, FiniteImage
<1>7. Cardinality(C) \in Nat /\ (C # {} => Cardinality(C) # 0)
  BY <1>6, FS_CardinalityType, FS_EmptySet
<1>8. Cardinality(K) = Cardinality(C)
  BY <1>1, <1>2, <1>3, <1>7
<1>9. at \in Injection(K, C)
  BY <1>3, <1>4, <1>6, <1>8, FS_SurjSameCardinalityImpliesInj
<1>10. \A j, k \in K : txs[j] = txs[k] => j = k
  BY <1>5, <1>9 DEF Injection, IsInjective
<1>11. C = {txs[k] : k \in K}
  BY <1>2, <1>5
<1>12. Len(txs) \in Nat \ {0} /\ (C # {} => Len(txs) >= 2)
  BY <1>1, <1>2, <1>7
<1>13. QED
  BY <1>1, <1>6, <1>10, <1>11, <1>12 DEF txs, K, C

\* Its header verifies.
LEMMA CandidateHeader ==
  ASSUME PInv, Whole, ClockTimes \subseteq 0 .. LongMax, TimeVarianceAllowedSeconds <= LongMax,
         NEW b \in BlockHash, IsCandidate(b)
  PROVE  headerVerify(b)
<1>1. candidate.Time \in 0 .. LongMax /\ candidate.Time <= clock /\ candidate.Time = BlockOf[b].Time
  BY DEF PInv, Whole, AfterTip, IsCandidate
<1>2. Wrap(candidate.Time - TimeVarianceAllowedSeconds) = candidate.Time - TimeVarianceAllowedSeconds
  BY <1>1, WrapSame, ParameterAssumption
<1>3. clock \in Int
  BY ClockAssumption DEF PInv, CInv, VInv, TypeOK
<1>4. Wrap(BlockOf[b].Time - TimeVarianceAllowedSeconds) <= clock
  BY <1>1, <1>2, <1>3, ParameterAssumption
<1>5. /\ BlockOf[b].HashPreviousBlock \in blocks
      /\ BlockOf[b].BlockHeight = BlockOf[BlockOf[b].HashPreviousBlock].BlockHeight + 1
      /\ BlockOf[b].DifficultyTarget =
           calculateDifficultyTarget(Wrap(BlockOf[b].Time - BlockOf[BlockOf[b].HashPreviousBlock].Time),
                                     BlockOf[BlockOf[b].HashPreviousBlock].DifficultyTarget)
  BY DEF PInv, CInv, Whole, AfterTip, AfterHeight, IsCandidate
<1>6. BlockOf[b].DifficultyTarget \in Int
  BY DataAssumption DEF Block
<1>7. QED
  BY <1>4, <1>5, <1>6 DEF headerVerify

\* Its transactions verify, the coinbase given.
LEMMA CandidateContents ==
  ASSUME PInv, Whole, NEW b \in BlockHash, IsCandidate(b),
         verifyCoinbase(TxsOf(b)[1], candidate.BlockHeight)
  PROVE  verifyTransactions(b)
<1> DEFINE txs == TxsOf(b)
<1>1. /\ Len(txs) >= 2 /\ candidate.Transactions = {txs[k] : k \in 2 .. Len(txs)}
      /\ \A j, k \in 2 .. Len(txs) : txs[j] = txs[k] => j = k
  BY CandidateTransactions DEF Whole
<1>2. SpendsOnce(txs)
  <2> SUFFICES ASSUME NEW j \in 2 .. Len(txs), NEW k \in 2 .. Len(txs),
                      NEW m \in DOMAIN InputsOf(txs[j]), NEW n \in DOMAIN InputsOf(txs[k]),
                      OutpointOf(InputsOf(txs[j])[m]) = OutpointOf(InputsOf(txs[k])[n])
               PROVE  j = k /\ m = n
    BY DEF SpendsOnce
  <2>1. txs[j] \in candidate.Transactions /\ txs[k] \in candidate.Transactions
    BY <1>1
  <2>2. txs[j] = txs[k] /\ m = n
    BY <2>1 DEF Whole, CandidateSpendsOnce
  <2>3. QED
    BY <1>1, <2>2
<1>3. \A k \in 2 .. Len(txs) : transactionVerify(txs[k])
  BY <1>1 DEF PInv, CInv
<1>4. BlockOf[b].BlockHeight = candidate.BlockHeight
  BY DEF IsCandidate
<1>5. QED
  BY <1>1, <1>2, <1>3, <1>4 DEF verifyTransactions

\* Its coinbase takes exactly what it may.
LEMMA CandidateReward ==
  ASSUME PInv, Whole, InPlay, NEW b \in BlockHash, IsCandidate(b),
         verifyCoinbase(TxsOf(b)[1], candidate.BlockHeight)
  PROVE  verifyBlockReward(b)
<1> DEFINE txs == TxsOf(b)
           D == DOMAIN txs
           K == 2 .. Len(txs)
           C == candidate.Transactions
           at == [k \in K |-> txs[k]]
           f == [t \in C |-> getFees(t)]
           fee == [k \in D |-> IF getFees(txs[k]) > 0 THEN getFees(txs[k]) ELSE 0]
           fees == SumFunctionOnSet(f, C)
           reward == calculateBlockReward(candidate.BlockHeight)
<1>1. /\ IsFiniteSet(C) /\ txs \in Seq(TxHash) /\ Len(txs) \in Nat \ {0}
      /\ C = {txs[k] : k \in K}
      /\ \A j, k \in K : txs[j] = txs[k] => j = k
  BY CandidateTransactions
<1>2. D = 1 .. Len(txs) /\ K \subseteq D /\ D \ {1} = K /\ 1 \in D /\ txs # << >>
      /\ txs[1] \in TxHash
  <2>1. \A n \in Nat \ {0} : 2 .. n \subseteq 1 .. n /\ (1 .. n) \ {1} = 2 .. n /\ 1 \in 1 .. n
    OBVIOUS
  <2>2. QED
    BY <1>1, <2>1
<1>3. IsFiniteSet(D) /\ IsFiniteSet(K)
  <2>1. D = 1 .. Len(txs) /\ Len(txs) \in Int
    BY <1>1, <1>2
  <2>2. IsFiniteSet(1 .. Len(txs)) /\ IsFiniteSet(2 .. Len(txs))
    BY <2>1, FS_Interval
  <2>3. QED
    BY <2>1, <2>2
<1>4. ASSUME NEW t \in C
      PROVE  f[t] \in Int /\ f[t] > 0 /\ f[t] = getFees(t)
  <2>1. transactionVerify(t) /\ t \in TxHash
    BY DEF PInv, CInv
  <2>2. QED
    BY <2>1, FeesType DEF transactionVerify
<1>5. Integral(f, C) /\ \A t \in C : f[t] >= 0
  BY <1>4 DEF Integral
<1>6. at \in [K -> C] /\ {at[k] : k \in K} = C /\ \A k \in K : fee[k] = f[at[k]]
  BY <1>1, <1>2, <1>4
<1>7. \A j, k \in K : at[j] = at[k] => j = k
  BY <1>1
<1>8. candidate.Coinbase = Wrap(reward + Wrap(fees)) /\ getOutputTotal(txs[1]) = candidate.Coinbase
  BY DEF PInv, Whole, Amount, Total, SumFunction, IsCandidate, TxsOf
<1>9. reward + fees <= LongMax
  BY DEF InPlay, SumFunction
<1>10. getBlockFees(b) = Wrap(SumFunctionOnSet(fee, D))
  BY DEF getBlockFees, Total, SumFunction
<1>11. candidate.BlockHeight \in Int /\ BlockOf[b].BlockHeight = candidate.BlockHeight
  BY DataAssumption DEF IsCandidate, Block
<1>12. reward \in Nat
  BY <1>11, RewardType
<1> HIDE DEF f, C, at
<1>13. fees \in Int /\ 0 <= fees
  BY <1>1, <1>5, SumSplit, SumSubset
<1> HIDE DEF fees, reward
<1>14. Wrap(fees) = fees /\ Wrap(reward + fees) = reward + fees
  BY <1>9, <1>12, <1>13, WrapSame, ParameterAssumption
<1>15. getOutputTotal(txs[1]) = reward + fees
  BY <1>8, <1>14
<1>16. fee[1] = 0
  <2>1. ~(getFees(txs[1]) > 0)
    BY <1>2, <1>9, <1>12, <1>13, <1>15, CoinbaseFees
  <2>2. QED
    BY <1>2, <2>1
<1> HIDE DEF fee, K, D, txs
<1>17. SumFunctionOnSet(fee, K) = fees
  <2>1. SumFunctionOnSet(fee, K) = SumFunctionOnSet(f, {at[k] : k \in K})
    BY <1>1, <1>3, <1>5, <1>6, <1>7, SumReindex
  <2>2. QED
    BY <1>6, <2>1 DEF fees
<1>18. SumFunctionOnSet(fee, D) = fees
  <2>1. Integral(fee, D)
    BY <1>2, <1>4, <1>6, <1>16 DEF Integral
  <2>2. SumFunctionOnSet(fee, D) = fee[1] + SumFunctionOnSet(fee, D \ {1})
    BY <1>2, <1>3, <2>1, SumSplit
  <2>3. SumFunctionOnSet(fee, D \ {1}) = fees
    BY <1>2, <1>17
  <2>4. QED
    BY <1>13, <1>16, <2>2, <2>3
<1>19. getBlockFees(b) = fees
  BY <1>10, <1>14, <1>18
<1>20. getOutputTotal(txs[1]) <= Wrap(reward + fees)
  BY <1>12, <1>13, <1>14, <1>15
<1>21. QED
  BY <1>2, <1>11, <1>13, <1>19, <1>20 DEF verifyBlockReward, reward, txs

\* With thread safe collections a candidate made of one tip, with a
\* transaction, no output twice and a size below the limit becomes a block that
\* verifies, for as long as a nonce is looked for and whatever the event loops
\* store meanwhile.
THEOREM MiningCandidateVerifies ==
  ASSUME ClockTimes \subseteq 0 .. LongMax, TimeVarianceAllowedSeconds <= LongMax
  PROVE  MiningSpec /\ []InPlay => []CandidateVerifies
<1>1. MiningInit => PInv
  BY TypeInductive
     DEF MiningInit, Init, StorageInit, PInv, CInv, VInv, AcceptedVerifies, NoCandidate, AfterTip,
         AfterHeight, Passed, Putting, Stored, TxPassed
<1>2. PInv /\ InPlay => CandidateVerifies
  <2> SUFFICES ASSUME PInv, InPlay, Whole
               PROVE  \E b \in BlockHash : IsCandidate(b) /\ blockVerify(b)
    BY DEF Whole, CandidateVerifies
  <2>1. PICK b \in BlockHash : IsCandidate(b) /\ verifyCoinbase(TxsOf(b)[1], candidate.BlockHeight)
    BY DEF InPlay
  <2>2. headerVerify(b)
    BY <2>1, CandidateHeader
  <2>3. verifyTransactions(b) /\ verifyBlockReward(b)
    BY <2>1, CandidateContents, CandidateReward
  <2>4. BlockOf[b].sealed
    BY <2>1 DEF IsCandidate, Whole, CandidateFits
  <2>5. QED
    BY <2>1, <2>2, <2>3, <2>4 DEF blockVerify
<1>3. QED
  BY <1>1, <1>2, PInvInductive, PTL DEF MiningSpec

-----------------------------------------------------------------------------
(* A single event loop implements Node                                     *)

NP == INSTANCE NodeProofs WITH
  SizeLimit <- 0,
  blocks <- SettledBlocks,
  blocksByHeight <- SettledList,
  blockHashesByTransaction <- SettledIndex,
  unspentTransactionOutputSet <- SettledUnspent,
  relays <- SettledRelays

\* What blocks and transactions are does not depend on the instance.
LEMMA NodeData ==
  /\ \A b : N!TxsOf(b) = TxsOf(b) /\ NP!TxsOf(b) = TxsOf(b)
  /\ \A t : N!InputsOf(t) = InputsOf(t) /\ NP!InputsOf(t) = InputsOf(t)
  /\ \A t : N!OutputsOf(t) = OutputsOf(t) /\ NP!OutputsOf(t) = OutputsOf(t)
  /\ \A i : N!OutpointOf(i) = OutpointOf(i) /\ NP!OutpointOf(i) = OutpointOf(i)
  /\ \A t : N!Spends(t) = Spends(t) /\ NP!Spends(t) = Spends(t)
  /\ \A t : N!Creates(t) = Creates(t) /\ NP!Creates(t) = Creates(t)
  /\ \A o : N!OutputExists(o) = OutputExists(o) /\ NP!OutputExists(o) = OutputExists(o)
  /\ \A txs : N!SpendsOnce(txs) = SpendsOnce(txs) /\ NP!SpendsOnce(txs) = SpendsOnce(txs)
  /\ \A t : N!verifyOutputs(t) = verifyOutputs(t) /\ NP!verifyOutputs(t) = verifyOutputs(t)
  /\ \A n : N!Wrap(n) = Wrap(n) /\ NP!Wrap(n) = Wrap(n)
<1> USE DEF TxsOf, InputsOf, OutputsOf, OutpointOf, Wrap
<1> USE DEF N!TxsOf, N!InputsOf, N!OutputsOf, N!OutpointOf, N!Wrap
<1> USE DEF NP!TxsOf, NP!InputsOf, NP!OutputsOf, NP!OutpointOf, NP!Wrap
<1>1. \A t : N!Spends(t) = Spends(t) /\ NP!Spends(t) = Spends(t)
  BY DEF Spends, N!Spends, NP!Spends
<1>2. \A t : N!Creates(t) = Creates(t) /\ NP!Creates(t) = Creates(t)
  BY DEF Creates, N!Creates, NP!Creates
<1>3. \A o : N!OutputExists(o) = OutputExists(o) /\ NP!OutputExists(o) = OutputExists(o)
  BY DEF OutputExists, N!OutputExists, NP!OutputExists
<1>4. \A txs : N!SpendsOnce(txs) = SpendsOnce(txs) /\ NP!SpendsOnce(txs) = SpendsOnce(txs)
  BY DEF SpendsOnce, N!SpendsOnce, NP!SpendsOnce
<1>5. \A t : N!verifyOutputs(t) = verifyOutputs(t) /\ NP!verifyOutputs(t) = verifyOutputs(t)
  BY DEF verifyOutputs, N!verifyOutputs, NP!verifyOutputs
<1>6. QED
  BY <1>1, <1>2, <1>3, <1>4, <1>5

\* Nor does what they are worth.
LEMMA NodeSums ==
  /\ \A t : N!getOutputTotal(t) = getOutputTotal(t) /\ NP!getOutputTotal(t) = getOutputTotal(t)
  /\ \A t : N!getInputTotal(t) = getInputTotal(t) /\ NP!getInputTotal(t) = getInputTotal(t)
  /\ \A t : N!getFees(t) = getFees(t) /\ NP!getFees(t) = getFees(t)
  /\ \A b : N!verifyBlockReward(b) = verifyBlockReward(b)
            /\ NP!verifyBlockReward(b) = verifyBlockReward(b)
<1>1. \A amounts : /\ N!SumFunction(amounts) = SumFunction(amounts)
                   /\ NP!SumFunction(amounts) = SumFunction(amounts)
  BY DEF SumFunction, SumFunctionOnSet, FoldFunctionOnSet, MapThenFoldSet,
         N!SumFunction, N!SumFunctionOnSet, N!FoldFunctionOnSet, N!MapThenFoldSet,
         NP!SumFunction, NP!SumFunctionOnSet, NP!FoldFunctionOnSet, NP!MapThenFoldSet
<1>2. \A amounts : N!Total(amounts) = Total(amounts) /\ NP!Total(amounts) = Total(amounts)
  BY <1>1, NodeData DEF Total, N!Total, NP!Total
<1>3. \A t : N!getOutputTotal(t) = getOutputTotal(t) /\ NP!getOutputTotal(t) = getOutputTotal(t)
  BY <1>2, NodeData DEF getOutputTotal, N!getOutputTotal, NP!getOutputTotal
<1>4. \A i : N!InputAmount(i) = InputAmount(i) /\ NP!InputAmount(i) = InputAmount(i)
  BY NodeData DEF InputAmount, N!InputAmount, NP!InputAmount
<1>5. \A t : N!getInputTotal(t) = getInputTotal(t) /\ NP!getInputTotal(t) = getInputTotal(t)
  BY <1>2, <1>4, NodeData DEF getInputTotal, N!getInputTotal, NP!getInputTotal
<1>6. \A t : N!getFees(t) = getFees(t) /\ NP!getFees(t) = getFees(t)
  BY <1>3, <1>5, NodeData DEF getFees, N!getFees, NP!getFees
<1>7. \A b : N!getBlockFees(b) = getBlockFees(b) /\ NP!getBlockFees(b) = getBlockFees(b)
  BY <1>2, <1>6, NodeData DEF getBlockFees, N!getBlockFees, NP!getBlockFees
<1>8. \A h : /\ N!calculateBlockReward(h) = calculateBlockReward(h)
             /\ NP!calculateBlockReward(h) = calculateBlockReward(h)
  BY DEF calculateBlockReward, N!calculateBlockReward, NP!calculateBlockReward
<1>9. \A b : N!verifyBlockReward(b) = verifyBlockReward(b)
             /\ NP!verifyBlockReward(b) = verifyBlockReward(b)
  BY <1>3, <1>7, <1>8, NodeData DEF verifyBlockReward, N!verifyBlockReward, NP!verifyBlockReward
<1>10. QED
  BY <1>3, <1>5, <1>6, <1>9

\* What is assumed of the data holds of it in the instance.
LEMMA NodeAssumptions ==
  /\ NP!DataAssumption
  /\ NP!ParameterAssumption
  /\ NP!ClockAssumption
<1>1. NP!Block = Block
  BY DEF NP!Block, Block
<1>2. NP!Transaction = Transaction
  BY DEF NP!Transaction, Transaction, NP!Input, Input, NP!Output, Output
<1>3. QED
  BY <1>1, <1>2, DataAssumption, ParameterAssumption, ClockAssumption
     DEF NP!DataAssumption, NP!ParameterAssumption, NP!ClockAssumption

\* Nothing is half stored.
Rested ==
  /\ SettledBlocks = blocks
  /\ SettledList = blocksByHeight
  /\ SettledIndex = blockHashesByTransaction
  /\ SettledUnspent = unspentTransactionOutputSet

\* Both instances verify alike, ...
LEMMA InstancesVerify ==
  /\ \A t : N!transactionVerify(t) <=> NP!transactionVerify(t)
  /\ \A t : N!verifyInputsUnspent(t) <=> NP!verifyInputsUnspent(t)
  /\ \A b : N!verifyTransactionsUnspent(b) <=> NP!verifyTransactionsUnspent(b)
  /\ \A b : N!blockVerify(b) <=> NP!blockVerify(b)
<1>1. \A t : N!canGetTransaction(t) <=> NP!canGetTransaction(t)
  BY DEF N!canGetTransaction, NP!canGetTransaction
<1>2. \A i : N!inputVerify(i) <=> NP!inputVerify(i)
  BY <1>1, NodeData DEF N!inputVerify, NP!inputVerify
<1>3. \A t : N!verifyInputs(t) <=> NP!verifyInputs(t)
  BY <1>2, NodeData DEF N!verifyInputs, NP!verifyInputs
<1>4. \A t : N!transactionVerify(t) <=> NP!transactionVerify(t)
  BY <1>3, NodeData, NodeSums DEF N!transactionVerify, NP!transactionVerify
<1>5. \A t : N!verifyInputsUnspent(t) <=> NP!verifyInputsUnspent(t)
  BY NodeData DEF N!verifyInputsUnspent, NP!verifyInputsUnspent,
     N!isTransactionOutputSpent, NP!isTransactionOutputSpent
<1>6. \A b : N!verifyTransactionsUnspent(b) <=> NP!verifyTransactionsUnspent(b)
  BY <1>5, NodeData DEF N!verifyTransactionsUnspent, NP!verifyTransactionsUnspent
<1>7. \A t, h : N!verifyCoinbase(t, h) <=> NP!verifyCoinbase(t, h)
  BY NodeData DEF N!verifyCoinbase, NP!verifyCoinbase
<1>8. \A b : N!verifyTransactions(b) <=> NP!verifyTransactions(b)
  BY <1>4, <1>7, NodeData DEF N!verifyTransactions, NP!verifyTransactions
<1>9. \A b : N!headerVerify(b) <=> NP!headerVerify(b)
  BY NodeData DEF N!headerVerify, NP!headerVerify,
     N!calculateDifficultyTarget, NP!calculateDifficultyTarget
<1>10. \A b : N!blockVerify(b) <=> NP!blockVerify(b)
  BY <1>8, <1>9, NodeSums DEF N!blockVerify, NP!blockVerify
<1>11. QED
  BY <1>4, <1>5, <1>6, <1>10

\* ... and where nothing is half stored, as the event loop does.
LEMMA RestedVerify ==
  ASSUME Rested
  PROVE  /\ \A t : N!transactionVerify(t) <=> transactionVerify(t)
         /\ \A t : N!verifyInputsUnspent(t) <=> verifyInputsUnspent(t)
         /\ \A b : N!verifyTransactionsUnspent(b) <=> verifyTransactionsUnspent(b)
         /\ \A b : N!blockVerify(b) <=> blockVerify(b)
<1>0. /\ SettledBlocks = blocks /\ SettledIndex = blockHashesByTransaction
      /\ SettledUnspent = unspentTransactionOutputSet
  BY DEF Rested
<1>1. \A t : N!canGetTransaction(t) <=> canGetTransaction(t)
  BY <1>0 DEF N!canGetTransaction, canGetTransaction
<1>2. \A i : N!inputVerify(i) <=> inputVerify(i)
  BY <1>1, NodeData DEF N!inputVerify, inputVerify
<1>3. \A t : N!verifyInputs(t) <=> verifyInputs(t)
  BY <1>2, NodeData DEF N!verifyInputs, verifyInputs
<1>4. \A t : N!transactionVerify(t) <=> transactionVerify(t)
  BY <1>3, NodeData, NodeSums DEF N!transactionVerify, transactionVerify
<1>5. \A t : N!verifyInputsUnspent(t) <=> verifyInputsUnspent(t)
  BY <1>0, NodeData DEF N!verifyInputsUnspent, verifyInputsUnspent,
     N!isTransactionOutputSpent, isTransactionOutputSpent
<1>6. \A b : N!verifyTransactionsUnspent(b) <=> verifyTransactionsUnspent(b)
  BY <1>5, NodeData DEF N!verifyTransactionsUnspent, verifyTransactionsUnspent
<1>7. \A t, h : N!verifyCoinbase(t, h) <=> verifyCoinbase(t, h)
  BY NodeData DEF N!verifyCoinbase, verifyCoinbase
<1>8. \A b : N!verifyTransactions(b) <=> verifyTransactions(b)
  BY <1>4, <1>7, NodeData DEF N!verifyTransactions, verifyTransactions
<1>9. \A b : N!headerVerify(b) <=> headerVerify(b)
  BY <1>0, NodeData DEF N!headerVerify, headerVerify,
     N!calculateDifficultyTarget, calculateDifficultyTarget
<1>10. \A b : N!blockVerify(b) <=> blockVerify(b)
  BY <1>8, <1>9, NodeSums DEF N!blockVerify, blockVerify
<1>11. QED
  BY <1>4, <1>5, <1>6, <1>10

\* What storing a block does to the collections.
LEMMA NodePut ==
  /\ \A list, b : N!AtHeight(list, b) = AtHeight(list, b)
                  /\ NP!AtHeight(list, b) = AtHeight(list, b)
  /\ \A index, b : N!Indexed(index, b) = Indexed(index, b)
                   /\ NP!Indexed(index, b) = Indexed(index, b)
  /\ \A unspent, txs : N!UnspentAfter(unspent, txs) = UnspentAfter(unspent, txs)
                       /\ NP!UnspentAfter(unspent, txs) = UnspentAfter(unspent, txs)
<1>1. \A list, b : N!AtHeight(list, b) = AtHeight(list, b)
                   /\ NP!AtHeight(list, b) = AtHeight(list, b)
  BY DEF AtHeight, N!AtHeight, NP!AtHeight
<1>2. \A index, b : N!Indexed(index, b) = Indexed(index, b)
                    /\ NP!Indexed(index, b) = Indexed(index, b)
  BY NodeData DEF Indexed, N!Indexed, NP!Indexed
<1>3. \A unspent, txs : N!UnspentAfter(unspent, txs) = UnspentAfter(unspent, txs)
                        /\ NP!UnspentAfter(unspent, txs) = UnspentAfter(unspent, txs)
  BY NodeData DEF UnspentAfter, N!UnspentAfter, NP!UnspentAfter
<1>4. QED
  BY <1>1, <1>2, <1>3

\* The steps of the two instances are the same.
LEMMA InstancesStep ==
  /\ N!Init <=> NP!Init
  /\ N!Next <=> NP!Next
  /\ N!nodeVars = NP!nodeVars
<1>1. N!Init <=> NP!Init
  BY DEF N!Init, NP!Init, N!StorageInit, NP!StorageInit, N!Relayable, NP!Relayable
<1>2. N!nodeVars = NP!nodeVars /\ N!storageVars = NP!storageVars /\ N!chainVars = NP!chainVars
  BY DEF N!nodeVars, NP!nodeVars, N!storageVars, NP!storageVars, N!chainVars, NP!chainVars
<1>3. \A b : N!putBlock(b) <=> NP!putBlock(b)
  BY NodePut, NodeData DEF N!putBlock, NP!putBlock
<1>4. \A i : N!Broadcast(i) <=> NP!Broadcast(i)
  BY DEF N!Broadcast, NP!Broadcast
<1> USE DEF N!nodeVars, NP!nodeVars, N!storageVars, NP!storageVars, N!chainVars, NP!chainVars
<1>5. \A b : N!ReceiveBlock(b) <=> NP!ReceiveBlock(b)
  <2>1. \A b : N!DiscardLowBlock(b) <=> NP!DiscardLowBlock(b)
    BY DEF N!DiscardLowBlock, NP!DiscardLowBlock, N!hasBlock, NP!hasBlock
  <2>2. \A b : N!DiscardInvalidBlock(b) <=> NP!DiscardInvalidBlock(b)
    BY InstancesVerify DEF N!DiscardInvalidBlock, NP!DiscardInvalidBlock
  <2>3. \A b : N!StoreBlock(b) <=> NP!StoreBlock(b)
    BY <1>3, <1>4, InstancesVerify DEF N!StoreBlock, NP!StoreBlock
  <2>4. QED
    BY <2>1, <2>2, <2>3 DEF N!ReceiveBlock, NP!ReceiveBlock
<1>6. \A t : N!acceptable(t) <=> NP!acceptable(t)
  BY InstancesVerify, NodeData DEF N!acceptable, NP!acceptable,
     N!doTransactionsContainTXO, NP!doTransactionsContainTXO
<1>7. \A t : N!ReceiveTransaction(t) <=> NP!ReceiveTransaction(t)
  <2>1. \A t : N!StoreTransaction(t) <=> NP!StoreTransaction(t)
    BY <1>4, <1>6 DEF N!StoreTransaction, NP!StoreTransaction,
       N!putMempoolTransaction, NP!putMempoolTransaction
  <2>2. \A t : N!DiscardTransaction(t) <=> NP!DiscardTransaction(t)
    BY <1>6 DEF N!DiscardTransaction, NP!DiscardTransaction
  <2>3. QED
    BY <2>1, <2>2 DEF N!ReceiveTransaction, NP!ReceiveTransaction
<1>8. N!AssembleCandidate <=> NP!AssembleCandidate
  <2>1. \A t : N!Minable(t) <=> NP!Minable(t)
    BY InstancesVerify DEF N!Minable, NP!Minable
  <2>2. {t \in mempool : ~N!Minable(t)} = {t \in mempool : ~NP!Minable(t)}
    BY <2>1
  <2>3. QED
    BY <2>1, <2>2 DEF N!AssembleCandidate, NP!AssembleCandidate
<1>9. N!Tick <=> NP!Tick
  BY DEF N!Tick, NP!Tick
<1>10. N!Next <=> NP!Next
  BY <1>2, <1>5, <1>7, <1>8, <1>9 DEF N!Next, NP!Next
<1>11. QED
  BY <1>1, <1>2, <1>10

-----------------------------------------------------------------------------
(* Halfway through putBlock                                               *)

\* The places where a block is half stored.
Halfway == Putting \ {"height"}

\* What the checks of a block found still holds.
BlockOnItsWay(e) ==
  /\ At(e, "low") => seenHeight[e] = blockheight /\ blockheight >= BlockOf[item[e]].BlockHeight
  /\ pc[e] \in {"verify", "unspent", "height"} => blockheight < BlockOf[item[e]].BlockHeight
  /\ pc[e] \in {"unspent", "height"} => blockVerify(item[e])
  /\ \A k \in 2 .. Len(TxsOf(item[e])) :
       At(e, "height") \/ (At(e, "unspent") /\ k < next[e]) => verifyInputsUnspent(TxsOf(item[e])[k])

\* What putBlock has done so far.
BlockHalfway(e) ==
  /\ pc[e] \in {"byHeight", "tx", "relay"} => item[e] \in blocks
  /\ pc[e] \in {"tx", "relay"} => blocksByHeight = AtHeight(blocksByHeight, item[e])
  /\ \A k \in DOMAIN TxsOf(item[e]) :
       At(e, "relay") \/ (At(e, "tx") /\ k < next[e])
         => blockHashesByTransaction[TxsOf(item[e])[k]] = item[e]

\* What the checks of a transaction found, still holds: nobody else is there.
TransactionOnItsWay(e) ==
  /\ pc[e] \in {"txUnspent", "txVerify", "txConflict", "txPut"} => item[e] \notin mempool
  /\ pc[e] \in {"txVerify", "txConflict", "txPut"} => verifyInputsUnspent(item[e])
  /\ pc[e] \in {"txConflict", "txPut"} => transactionVerify(item[e])
  /\ At(e, "txPut") => \A t \in mempool : Spends(t) \cap Spends(item[e]) = {}

\* One loop: all that, and what is known of a node.
OInv(e) ==
  /\ TypeOK
  /\ BlockOnItsWay(e)
  /\ BlockHalfway(e)
  /\ TransactionOnItsWay(e)
  /\ damaged = {}
  /\ NP!HInv

\* At rest, halfway, or with a relay to come: where the only loop is says it all.
LEMMA Places ==
  ASSUME NEW e, EventLoops = {e}
  PROVE  /\ AtRest <=> pc[e] \notin Halfway
         /\ Storing = IF pc[e] \in Halfway THEN e ELSE Storing
         /\ \A i : i \in Unrelayed <=> i = item[e] /\ pc[e] \in Halfway \cup {"txRelay"}
<1>1. AtRest <=> pc[e] \notin Halfway
  BY DEF AtRest, Halfway
<1>2. pc[e] \in Halfway => Storing = e
  BY DEF Storing, Halfway
<1>3. \A i : i \in Unrelayed <=> i = item[e] /\ pc[e] \in Halfway \cup {"txRelay"}
  BY DEF Unrelayed, Halfway
<1>4. QED
  BY <1>1, <1>2, <1>3

\* What stands for the collections at rest, ...
LEMMA AtRestSettled ==
  ASSUME NEW e, EventLoops = {e}, pc[e] \notin Halfway
  PROVE  Rested
BY Places DEF Rested, SettledBlocks, SettledList, SettledIndex, SettledUnspent

\* ... and what halfway, ...
LEMMA HalfwaySettled ==
  ASSUME NEW e, EventLoops = {e}, pc[e] \in Halfway
  PROVE  /\ SettledBlocks = blocks \cup {item[e]}
         /\ SettledList = AtHeight(blocksByHeight, item[e])
         /\ SettledIndex = Indexed(blockHashesByTransaction, item[e])
         /\ SettledUnspent = UnspentAfter(unspentTransactionOutputSet, Remaining(e))
BY Places DEF SettledBlocks, SettledList, SettledIndex, SettledUnspent

\* ... and for the relay counters.
LEMMA RelaysSettled ==
  ASSUME NEW e, EventLoops = {e}
  PROVE  SettledRelays = [i \in Relayable |-> relays[i]
           + (IF i = item[e] /\ pc[e] \in Halfway \cup {"txRelay"} THEN 1 ELSE 0)]
BY Places DEF SettledRelays

\* The same of the next state.
LEMMA PlacesNext ==
  ASSUME NEW e, EventLoops = {e}
  PROVE  /\ AtRest' <=> pc'[e] \notin Halfway
         /\ Storing' = IF pc'[e] \in Halfway THEN e ELSE Storing'
         /\ \A i : i \in Unrelayed' <=> i = item'[e] /\ pc'[e] \in Halfway \cup {"txRelay"}
<1>1. AtRest' <=> pc'[e] \notin Halfway
  BY DEF AtRest, Halfway
<1>2. pc'[e] \in Halfway => Storing' = e
  BY DEF Storing, Halfway
<1>3. \A i : i \in Unrelayed' <=> i = item'[e] /\ pc'[e] \in Halfway \cup {"txRelay"}
  BY DEF Unrelayed, Halfway
<1>4. QED
  BY <1>1, <1>2, <1>3

\* (AtRestSettled, of the next state.)
LEMMA AtRestSettledNext ==
  ASSUME NEW e, EventLoops = {e}, pc'[e] \notin Halfway
  PROVE  Rested'
BY PlacesNext DEF Rested, SettledBlocks, SettledList, SettledIndex, SettledUnspent

\* (HalfwaySettled, of the next state.)
LEMMA HalfwaySettledNext ==
  ASSUME NEW e, EventLoops = {e}, pc'[e] \in Halfway
  PROVE  /\ SettledBlocks' = blocks' \cup {item'[e]}
         /\ SettledList' = AtHeight(blocksByHeight', item'[e])
         /\ SettledIndex' = Indexed(blockHashesByTransaction', item'[e])
         /\ SettledUnspent' = UnspentAfter(unspentTransactionOutputSet', Remaining(e)')
BY PlacesNext DEF SettledBlocks, SettledList, SettledIndex, SettledUnspent

\* (RelaysSettled, of the next state.)
LEMMA RelaysSettledNext ==
  ASSUME NEW e, EventLoops = {e}
  PROVE  SettledRelays' = [i \in Relayable |-> relays'[i]
           + (IF i = item'[e] /\ pc'[e] \in Halfway \cup {"txRelay"} THEN 1 ELSE 0)]
BY PlacesNext DEF SettledRelays

-----------------------------------------------------------------------------
\* Putting a block at its height twice is putting it there once.
LEMMA AtHeightTwice ==
  ASSUME NEW list \in Seq(BlockHash \cup {NoBlock}), NEW b \in BlockHash
  PROVE  AtHeight(AtHeight(list, b), b) = AtHeight(list, b)
<1> DEFINE h == BlockOf[b].BlockHeight
           n == IF h + 1 > Len(list) THEN h + 1 ELSE Len(list)
           once == AtHeight(list, b)
<1>1. h \in Int /\ n \in Nat /\ n >= h + 1
  BY BlockTypes
<1>2. once = [i \in 1 .. n |-> CASE i = h + 1 -> b
                                 [] i \in DOMAIN list /\ i # h + 1 -> list[i]
                                 [] OTHER -> NoBlock]
  BY DEF AtHeight
<1>3. DOMAIN once = 1 .. n /\ Len(once) = n
  <2> HIDE DEF n
  <2>1. QED
    BY <1>1, <1>2
<1> HIDE DEF n, once
<1>4. AtHeight(once, b) = [i \in 1 .. n |-> CASE i = h + 1 -> b
                                 [] i \in DOMAIN once /\ i # h + 1 -> once[i]
                                 [] OTHER -> NoBlock]
  BY <1>1, <1>3 DEF AtHeight
<1>5. \A i \in 1 .. n : AtHeight(once, b)[i] = once[i]
  BY <1>2, <1>3, <1>4
<1>6. QED
  BY <1>2, <1>3, <1>4, <1>5 DEF once

\* Going over the first of the transactions that remain.
LEMMA UnspentAfterStep ==
  ASSUME NEW txs \in Seq(TxHash), NEW n \in 1 .. Len(txs), NEW unspent
  PROVE  UnspentAfter(unspent, SubSeq(txs, n, Len(txs)))
           = UnspentAfter((unspent \ Spends(txs[n])) \cup Creates(txs[n]),
                          SubSeq(txs, n + 1, Len(txs)))
<1> DEFINE m == Len(txs)
           before == SubSeq(txs, n, m)
           after == SubSeq(txs, n + 1, m)
<1>1. m \in Nat /\ n \in Nat
  OBVIOUS
<1>2. /\ DOMAIN before = 1 .. (m - n + 1)
      /\ \A k \in 1 .. (m - n + 1) : before[k] = txs[n + k - 1]
  OBVIOUS
<1>3. /\ DOMAIN after = 1 .. (m - n)
      /\ \A k \in 1 .. (m - n) : after[k] = txs[n + k]
  OBVIOUS
<1>4. /\ 1 \in DOMAIN before /\ before[1] = txs[n]
      /\ \A k \in DOMAIN after : k + 1 \in DOMAIN before /\ before[k + 1] = after[k]
      /\ \A k \in DOMAIN before : k # 1 => k - 1 \in DOMAIN after
      /\ \A k \in DOMAIN before : k \in Int
      /\ \A k \in DOMAIN after : k \in Int /\ k >= 1
  BY <1>1, <1>2, <1>3
<1> HIDE DEF before, after
<1>5. ASSUME NEW o
      PROVE  o \in UnspentAfter(unspent, before)
               <=> o \in UnspentAfter((unspent \ Spends(txs[n])) \cup Creates(txs[n]), after)
  <2> DEFINE Unspent(u, s) ==
        \/ o \in u /\ \A k \in DOMAIN s : o \notin Spends(s[k])
        \/ \E k \in DOMAIN s : /\ o \in Creates(s[k])
                               /\ \A j \in DOMAIN s : j > k => o \notin Spends(s[j])
  <2>1. \A u, s : o \in UnspentAfter(u, s) <=> Unspent(u, s)
    BY DEF UnspentAfter
  <2>2. (\A k \in DOMAIN before : o \notin Spends(before[k]))
          <=> o \notin Spends(txs[n]) /\ \A k \in DOMAIN after : o \notin Spends(after[k])
    BY <1>4
  <2>3. (\A j \in DOMAIN before : j > 1 => o \notin Spends(before[j]))
          <=> \A k \in DOMAIN after : o \notin Spends(after[k])
    BY <1>4
  <2>4. \A k \in DOMAIN after :
          (\A j \in DOMAIN before : j > k + 1 => o \notin Spends(before[j]))
            <=> \A j \in DOMAIN after : j > k => o \notin Spends(after[j])
    BY <1>4
  <2>5. (\E k \in DOMAIN before : /\ o \in Creates(before[k])
                                  /\ \A j \in DOMAIN before : j > k => o \notin Spends(before[j]))
          <=> \/ o \in Creates(txs[n]) /\ \A k \in DOMAIN after : o \notin Spends(after[k])
              \/ \E k \in DOMAIN after : /\ o \in Creates(after[k])
                                         /\ \A j \in DOMAIN after : j > k => o \notin Spends(after[j])
    <3>1. ASSUME NEW k \in DOMAIN before, k # 1, o \in Creates(before[k]),
                 \A j \in DOMAIN before : j > k => o \notin Spends(before[j])
          PROVE  \E i \in DOMAIN after : /\ o \in Creates(after[i])
                                         /\ \A j \in DOMAIN after : j > i => o \notin Spends(after[j])
      <4>1. k - 1 \in DOMAIN after /\ (k - 1) + 1 = k /\ before[k] = after[k - 1]
        BY <1>4, <3>1
      <4>2. \A j \in DOMAIN after : j > k - 1 => o \notin Spends(after[j])
        BY <2>4, <3>1, <4>1
      <4>3. QED
        BY <3>1, <4>1, <4>2
    <3>2. ASSUME NEW k \in DOMAIN after, o \in Creates(after[k]),
                 \A j \in DOMAIN after : j > k => o \notin Spends(after[j])
          PROVE  \E i \in DOMAIN before : /\ o \in Creates(before[i])
                                          /\ \A j \in DOMAIN before : j > i => o \notin Spends(before[j])
      <4>1. k + 1 \in DOMAIN before /\ before[k + 1] = after[k]
        BY <1>4
      <4>2. \A j \in DOMAIN before : j > k + 1 => o \notin Spends(before[j])
        BY <2>4, <3>2
      <4>3. QED
        BY <3>2, <4>1, <4>2
    <3>3. ASSUME o \in Creates(txs[n]), \A k \in DOMAIN after : o \notin Spends(after[k])
          PROVE  \E i \in DOMAIN before : /\ o \in Creates(before[i])
                                          /\ \A j \in DOMAIN before : j > i => o \notin Spends(before[j])
      <4>1. 1 \in DOMAIN before /\ before[1] = txs[n]
        BY <1>4
      <4>2. QED
        BY <2>3, <3>3, <4>1
    <3>4. ASSUME o \in Creates(before[1]), \A j \in DOMAIN before : j > 1 => o \notin Spends(before[j])
          PROVE  o \in Creates(txs[n]) /\ \A k \in DOMAIN after : o \notin Spends(after[k])
      BY <1>4, <2>3, <3>4
    <3>5. QED
      BY <3>1, <3>2, <3>3, <3>4
  <2>6. QED
    BY <2>1, <2>2, <2>5
<1>6. QED
  BY <1>5 DEF before, after

-----------------------------------------------------------------------------
(* Steps of the loop as steps of the node                                  *)

\* What a step of the loop has to do with the node, and to leave behind.
Implements == N!Next \/ UNCHANGED N!nodeVars

OnTheirWay(e) == BlockOnItsWay(e) /\ BlockHalfway(e) /\ TransactionOnItsWay(e)

\* The only loop, with the types of what it reads.
LEMMA OnlyLoop ==
  ASSUME NEW e, EventLoops = {e}, TypeOK
  PROVE  /\ e \in EventLoops
         /\ pc \in [EventLoops -> {"idle"} \cup Checking \cup Putting \cup TxPlaces]
         /\ item \in [EventLoops -> Relayable \cup {NoBlock}]
         /\ seenHeight \in [EventLoops -> Int] /\ next \in [EventLoops -> Nat]
         /\ pc[e] \in Checking \cup Putting => item[e] \in BlockHash
         /\ pc[e] \in TxPlaces => item[e] \in TxHash
BY DEF TypeOK

\* It is never wrong about a collection, and no change throws.
LEMMA OnlyLoopSure ==
  ASSUME NEW e, EventLoops = {e}, OInv(e)
  PROVE  \A places : ~Unsure(e, places)
BY DEF OInv, Unsure

LEMMA OnlyLoopChanges ==
  ASSUME NEW e, EventLoops = {e}, OInv(e), NEW place, NEW n, Change(e, place, n)
  PROVE  /\ Goto(e, place) /\ next' = [next EXCEPT ![e] = n]
         /\ UNCHANGED <<item, seenHeight, damaged>>
BY OnlyLoopSure DEF Change

\* A step between places of rest that changes nothing but the loop.
LEMMA QuietStep ==
  ASSUME NEW e, EventLoops = {e}, UNCHANGED <<storageVars, clock, relays, heightsTold>>,
         pc[e] \notin Halfway \cup {"txRelay"}, pc'[e] \notin Halfway \cup {"txRelay"}
  PROVE  UNCHANGED N!nodeVars
<1>1. Rested /\ Rested'
  BY AtRestSettled, AtRestSettledNext
<1>2. SettledRelays' = SettledRelays
  BY RelaysSettled, RelaysSettledNext
<1>3. QED
  BY <1>1, <1>2 DEF Rested, storageVars, chainVars, N!nodeVars, N!storageVars, N!chainVars

\* A handler that returns leaves nothing on its way.
LEMMA ReturnLeaves ==
  ASSUME NEW e, EventLoops = {e}, TypeOK, Return(e)
  PROVE  pc'[e] = "idle" /\ OnTheirWay(e)'
<1>1. pc'[e] = "idle"
  BY OnlyLoop DEF Return, Goto
<1>2. QED
  BY <1>1 DEF OnTheirWay, BlockOnItsWay, BlockHalfway, TransactionOnItsWay, At

\* The steps up to the first put of a block.
LEMMA CheckingImplements ==
  ASSUME NEW e, EventLoops = {e}, OInv(e),
         (\E b \in BlockHash : ReceiveBlock(e, b)) \/ VerifyBlock(e) \/ CheckUnspent(e)
  PROVE  Implements /\ OnTheirWay(e)'
<1> USE OnlyLoop
<1>1. TypeOK /\ OnTheirWay(e)
  BY DEF OInv, OnTheirWay
<1>2. /\ UNCHANGED <<storageVars, clock, relays, heightsTold>>
      /\ pc[e] \notin Halfway \cup {"txRelay"} /\ pc'[e] \notin Halfway \cup {"txRelay"}
  BY <1>1 DEF ReceiveBlock, VerifyBlock, CheckUnspent, At, Goto, Return, Halfway, Putting
<1>3. Implements
  BY <1>2, QuietStep DEF Implements
<1>4. ASSUME NEW b \in BlockHash, ReceiveBlock(e, b)
      PROVE  OnTheirWay(e)'
  <2>1. item'[e] = b
    BY <1>1, <1>4 DEF ReceiveBlock
  <2>2. blockheight \in Int /\ BlockOf[b].BlockHeight \in Int
    BY <1>1, BlockTypes DEF TypeOK, StorageTypeOK
  <2>3. CASE blockheight >= BlockOf[b].BlockHeight
    <3>1. pc'[e] = "low" /\ seenHeight'[e] = blockheight /\ blockheight' = blockheight
      BY <1>1, <1>4, <2>3 DEF ReceiveBlock, Goto, storageVars, chainVars
    <3>2. QED
      BY <2>1, <2>3, <3>1 DEF OnTheirWay, BlockOnItsWay, BlockHalfway, TransactionOnItsWay, At
  <2>4. CASE ~(blockheight >= BlockOf[b].BlockHeight)
    <3>1. pc'[e] = "verify" /\ blockheight' = blockheight
      BY <1>1, <1>4, <2>4 DEF ReceiveBlock, Goto, storageVars, chainVars
    <3>2. QED
      BY <2>1, <2>2, <2>4, <3>1 DEF OnTheirWay, BlockOnItsWay, BlockHalfway, TransactionOnItsWay, At
  <2>5. QED
    BY <2>3, <2>4
<1>5. UNCHANGED <<blockheight, blocks, blockHashesByTransaction, unspentTransactionOutputSet, clock>>
  BY <1>2 DEF storageVars, chainVars
<1>6. \A b : blockVerify(b)' = blockVerify(b)
  BY <1>5 DEF blockVerify, headerVerify, verifyTransactions, verifyCoinbase, transactionVerify,
     verifyInputs, inputVerify, canGetTransaction, verifyOutputs, verifyBlockReward,
     getBlockFees, getFees, getInputTotal, InputAmount
<1>7. \A t : verifyInputsUnspent(t)' = verifyInputsUnspent(t)
  BY <1>5 DEF verifyInputsUnspent, isTransactionOutputSpent
<1>8. ASSUME VerifyBlock(e)
      PROVE  OnTheirWay(e)'
  <2>1. CASE Return(e)
    BY <1>1, <2>1, ReturnLeaves
  <2>2. CASE ~Return(e)
    <3>1. /\ pc[e] = "verify" /\ pc'[e] = "unspent" /\ item'[e] = item[e] /\ next'[e] = 2
          /\ blockVerify(item[e])
      BY <1>1, <1>8, <2>2 DEF VerifyBlock, At, Goto
    <3>2. QED
      BY <1>1, <1>5, <1>6, <3>1 DEF OnTheirWay, BlockOnItsWay, BlockHalfway, TransactionOnItsWay, At
  <2>3. QED
    BY <2>1, <2>2
<1>9. ASSUME CheckUnspent(e)
      PROVE  OnTheirWay(e)'
  <2>1. CASE Return(e)
    BY <1>1, <2>1, ReturnLeaves
  <2>2. CASE ~Return(e) /\ next[e] > Len(TxsOf(item[e]))
    <3>1. pc[e] = "unspent" /\ pc'[e] = "height" /\ item'[e] = item[e]
      BY <1>1, <1>9, <2>2 DEF CheckUnspent, At, Goto
    <3>2. \A k \in 2 .. Len(TxsOf(item[e])) : k < next[e]
      BY <1>1, <2>2
    <3>3. QED
      BY <1>1, <1>5, <1>6, <1>7, <3>1, <3>2
         DEF OnTheirWay, BlockOnItsWay, BlockHalfway, TransactionOnItsWay, At
  <2>3. CASE ~Return(e) /\ ~(next[e] > Len(TxsOf(item[e])))
    <3>1. /\ pc[e] = "unspent" /\ pc'[e] = "unspent" /\ item'[e] = item[e]
          /\ next'[e] = next[e] + 1 /\ verifyInputsUnspent(TxsOf(item[e])[next[e]])
      BY <1>1, <1>9, <2>3 DEF CheckUnspent, At, Goto
    <3>2. \A k \in 2 .. Len(TxsOf(item[e])) : k < next[e] + 1 => k < next[e] \/ k = next[e]
      BY <1>1
    <3>3. QED
      BY <1>1, <1>5, <1>6, <1>7, <3>1, <3>2
         DEF OnTheirWay, BlockOnItsWay, BlockHalfway, TransactionOnItsWay, At
  <2>4. QED
    BY <2>1, <2>2, <2>3
<1>10. QED
  BY <1>3, <1>4, <1>8, <1>9

\* The steps up to the put of a transaction.
LEMMA TransactionImplements ==
  ASSUME NEW e, EventLoops = {e}, OInv(e),
         \/ \E t \in TxHash : ReceiveTransaction(e, t)
         \/ TransactionUnspent(e) \/ TransactionVerify(e) \/ TransactionConflict(e)
  PROVE  Implements /\ OnTheirWay(e)'
<1> USE OnlyLoop
<1>1. TypeOK /\ OnTheirWay(e)
  BY DEF OInv, OnTheirWay
<1>2. /\ UNCHANGED <<storageVars, clock, relays, heightsTold>>
      /\ pc[e] \notin Halfway \cup {"txRelay"} /\ pc'[e] \notin Halfway \cup {"txRelay"}
  BY <1>1 DEF ReceiveTransaction, TransactionUnspent, TransactionVerify, TransactionConflict,
     CheckTransaction, At, Goto, Return, Halfway, Putting
<1>3. Implements
  BY <1>2, QuietStep DEF Implements
<1>5. UNCHANGED <<blocks, blockHashesByTransaction, unspentTransactionOutputSet, mempool, clock>>
  BY <1>2 DEF storageVars, chainVars
<1>6. \A t : transactionVerify(t)' = transactionVerify(t)
  BY <1>5 DEF transactionVerify, verifyInputs, inputVerify, canGetTransaction, verifyOutputs,
     getFees, getInputTotal, InputAmount
<1>7. \A t : verifyInputsUnspent(t)' = verifyInputsUnspent(t)
  BY <1>5 DEF verifyInputsUnspent, isTransactionOutputSpent
<1>8. CASE Return(e)
  BY <1>1, <1>3, <1>8, ReturnLeaves
<1>9. CASE ~Return(e)
  <2>1. \/ pc'[e] = "txUnspent" /\ item'[e] \notin mempool
        \/ /\ item'[e] = item[e]
           /\ \/ pc[e] = "txUnspent" /\ pc'[e] = "txVerify" /\ verifyInputsUnspent(item[e])
              \/ pc[e] = "txVerify" /\ pc'[e] = "txConflict" /\ transactionVerify(item[e])
              \/ /\ pc[e] = "txConflict" /\ pc'[e] = "txPut"
                 /\ \A t \in mempool : Spends(t) \cap Spends(item[e]) = {}
    BY <1>1, <1>9, OnlyLoopSure DEF ReceiveTransaction, TransactionUnspent, TransactionVerify,
       TransactionConflict, CheckTransaction, At, Goto
  <2>2. QED
    BY <1>1, <1>3, <1>5, <1>6, <1>7, <2>1
       DEF OnTheirWay, BlockOnItsWay, BlockHalfway, TransactionOnItsWay, At
<1>10. QED
  BY <1>8, <1>9

\* A block on a shorter chain is answered as the node does.
LEMMA DiscardImplements ==
  ASSUME NEW e, EventLoops = {e}, MaxRelays > 0, OInv(e), DiscardLowBlock(e)
  PROVE  Implements /\ OnTheirWay(e)'
<1> USE OnlyLoop
<1>1. TypeOK /\ OnTheirWay(e)
  BY DEF OInv, OnTheirWay
<1>2. /\ pc[e] = "low" /\ pc'[e] = "idle" /\ Return(e) /\ item[e] \in BlockHash
      /\ UNCHANGED <<storageVars, clock, relays>>
      /\ heightsTold' = IF hasBlock(item[e]) THEN heightsTold ELSE heightsTold \cup {seenHeight[e]}
  BY <1>1, OnlyLoopSure DEF DiscardLowBlock, Tell, Return, Goto, At, Checking
<1>3. seenHeight[e] = blockheight /\ blockheight >= BlockOf[item[e]].BlockHeight
  BY <1>1, <1>2 DEF OnTheirWay, BlockOnItsWay, At
<1>4. Rested /\ Rested'
  BY <1>2, AtRestSettled, AtRestSettledNext DEF Halfway, Putting
<1>5. SettledRelays' = SettledRelays
  BY <1>2, RelaysSettled, RelaysSettledNext DEF Halfway, Putting
<1>6. N!hasBlock(item[e]) <=> hasBlock(item[e])
  BY <1>4 DEF Rested, N!hasBlock, hasBlock
<1>7. UNCHANGED <<N!storageVars, clock, SettledRelays>>
  BY <1>2, <1>4, <1>5 DEF Rested, storageVars, chainVars, N!storageVars, N!chainVars
<1>8. N!DiscardLowBlock(item[e])
  BY <1>2, <1>3, <1>6, <1>7 DEF N!DiscardLowBlock
<1>9. Implements
  BY <1>2, <1>8 DEF Implements, N!Next, N!ReceiveBlock
<1>10. QED
  BY <1>1, <1>2, <1>9, ReturnLeaves

\* The first put commits to the block: here the node stores it.
LEMMA PutHeightImplements ==
  ASSUME NEW e, EventLoops = {e}, OInv(e), PutHeight(e)
  PROVE  Implements /\ OnTheirWay(e)'
<1> USE OnlyLoop
<1>1. TypeOK /\ OnTheirWay(e)
  BY DEF OInv, OnTheirWay
<1> DEFINE b == item[e]
<1>2. /\ pc[e] = "height" /\ pc'[e] = "hash" /\ b \in BlockHash /\ item'[e] = b
      /\ blockheight' = BlockOf[b].BlockHeight
      /\ UNCHANGED <<blocks, blocksByHeight, blockHashesByTransaction,
                     unspentTransactionOutputSet, mempool, clock, item, relays, heightsTold>>
  BY <1>1 DEF PutHeight, Goto, At, Putting
<1>3. /\ blockheight < BlockOf[b].BlockHeight /\ blockVerify(b)
      /\ verifyTransactionsUnspent(b)
  BY <1>1, <1>2 DEF OnTheirWay, BlockOnItsWay, At, verifyTransactionsUnspent
<1>4. Rested
  BY <1>2, AtRestSettled DEF Halfway, Putting
<1>5. N!blockVerify(b) /\ N!verifyTransactionsUnspent(b)
  BY <1>3, <1>4, RestedVerify
<1>6. pc'[e] \in Halfway /\ Remaining(e)' = TxsOf(b)
  BY <1>2 DEF Halfway, Putting, Remaining
<1>7. /\ SettledBlocks' = SettledBlocks \cup {b}
      /\ SettledList' = AtHeight(SettledList, b)
      /\ SettledIndex' = Indexed(SettledIndex, b)
      /\ SettledUnspent' = UnspentAfter(SettledUnspent, TxsOf(b))
  BY <1>2, <1>4, <1>6, HalfwaySettledNext DEF Rested
<1>8. N!putBlock(b)
  BY <1>2, <1>7, NodePut, NodeData DEF N!putBlock
<1>9. N!Broadcast(b)
  <2>1. SettledRelays = [i \in Relayable |-> relays[i] + 0]
    BY <1>2, RelaysSettled DEF Halfway, Putting
  <2>2. SettledRelays' = [i \in Relayable |-> relays[i] + (IF i = b THEN 1 ELSE 0)]
    BY <1>2, <1>6, RelaysSettledNext
  <2>3. \A i \in Relayable : relays[i] \in Int
    BY <1>1, LoopAssumption DEF TypeOK
  <2>4. SettledRelays = [i \in Relayable |-> relays[i]]
    BY <2>1, <2>3
  <2>5. b \in Relayable
    BY <1>2 DEF Relayable
  <2>6. [SettledRelays EXCEPT ![b] = @ + 1]
          = [i \in Relayable |-> relays[i] + (IF i = b THEN 1 ELSE 0)]
    <3> HIDE DEF b
    <3>1. QED
      BY <2>3, <2>4, <2>5
  <2>7. QED
    BY <2>2, <2>6 DEF N!Broadcast
<1>10. N!StoreBlock(b)
  BY <1>2, <1>3, <1>5, <1>8, <1>9 DEF N!StoreBlock
<1>11. Implements
  BY <1>2, <1>10 DEF Implements, N!Next, N!ReceiveBlock
<1>12. OnTheirWay(e)'
  BY <1>2 DEF OnTheirWay, BlockOnItsWay, BlockHalfway, TransactionOnItsWay, At
<1>13. QED
  BY <1>11, <1>12

\* The other puts, and the relay, only catch up with what the node did.
LEMMA HalfwayQuiet ==
  ASSUME NEW e, EventLoops = {e}, pc[e] \in Halfway, pc'[e] \in Halfway,
         UNCHANGED <<blockheight, mempool, clock, item, relays, heightsTold>>,
         blocks' \cup {item[e]} = blocks \cup {item[e]},
         AtHeight(blocksByHeight', item[e]) = AtHeight(blocksByHeight, item[e]),
         Indexed(blockHashesByTransaction', item[e]) = Indexed(blockHashesByTransaction, item[e]),
         UnspentAfter(unspentTransactionOutputSet', Remaining(e)')
           = UnspentAfter(unspentTransactionOutputSet, Remaining(e))
  PROVE  Implements
<1>1. UNCHANGED <<SettledBlocks, SettledList, SettledIndex, SettledUnspent>>
  BY HalfwaySettled, HalfwaySettledNext
<1>2. SettledRelays' = SettledRelays
  BY RelaysSettled, RelaysSettledNext
<1>3. QED
  BY <1>1, <1>2 DEF Implements, N!nodeVars, N!storageVars, N!chainVars

\* The map of blocks.
LEMMA PutHashImplements ==
  ASSUME NEW e, EventLoops = {e}, OInv(e), PutHash(e)
  PROVE  Implements /\ OnTheirWay(e)'
<1> USE OnlyLoop
<1>1. TypeOK
  BY DEF OInv
<1>2. /\ pc[e] = "hash" /\ pc'[e] = "byHeight" /\ item' = item
      /\ blocks' = blocks \cup {item[e]}
      /\ UNCHANGED <<blockheight, blocksByHeight, blockHashesByTransaction,
                     unspentTransactionOutputSet, mempool, clock, item, relays, heightsTold>>
  BY <1>1, OnlyLoopChanges DEF PutHash, Goto, At
<1>3. Remaining(e)' = Remaining(e)
  BY <1>2 DEF Remaining
<1>4. Implements
  BY <1>2, <1>3, HalfwayQuiet DEF Halfway, Putting
<1>5. OnTheirWay(e)'
  BY <1>2 DEF OnTheirWay, BlockOnItsWay, BlockHalfway, TransactionOnItsWay, At
<1>6. QED
  BY <1>4, <1>5

\* The list by height.
LEMMA PutByHeightImplements ==
  ASSUME NEW e, EventLoops = {e}, OInv(e), PutByHeight(e)
  PROVE  Implements /\ OnTheirWay(e)'
<1> USE OnlyLoop
<1>1. TypeOK /\ OnTheirWay(e)
  BY DEF OInv, OnTheirWay
<1> DEFINE b == item[e]
<1>2. /\ pc[e] = "byHeight" /\ item' = item /\ b \in BlockHash /\ next'[e] = 1
      /\ pc'[e] = IF TxsOf(b) = << >> THEN "relay" ELSE "tx"
      /\ blocksByHeight' = AtHeight(blocksByHeight, b)
      /\ UNCHANGED <<blockheight, blocks, blockHashesByTransaction,
                     unspentTransactionOutputSet, mempool, clock, item, relays, heightsTold>>
  BY <1>1, OnlyLoopChanges DEF PutByHeight, Goto, At, Putting
<1>3. AtHeight(blocksByHeight', b) = AtHeight(blocksByHeight, b)
  BY <1>1, <1>2, AtHeightTwice DEF TypeOK, StorageTypeOK
<1>4. TxsOf(b) \in Seq(TxHash)
  BY <1>2, BlockTypes
<1>5. Remaining(e)' = TxsOf(b) /\ Remaining(e) = TxsOf(b)
  <2>1. CASE TxsOf(b) = << >>
    BY <1>2, <2>1 DEF Remaining
  <2>2. CASE TxsOf(b) # << >>
    <3>1. SubSeq(TxsOf(b), 1, Len(TxsOf(b))) = TxsOf(b)
      BY <1>4
    <3>2. pc'[e] = "tx" /\ item'[e] = b
      BY <1>2, <2>2
    <3>3. Remaining(e)' = SubSeq(TxsOf(b), 1, Len(TxsOf(b)))
      BY <1>2, <3>2 DEF Remaining
    <3>4. QED
      BY <1>2, <3>1, <3>3 DEF Remaining
  <2>3. QED
    BY <2>1, <2>2
<1>6. Implements
  BY <1>2, <1>3, <1>5, HalfwayQuiet DEF Halfway, Putting
<1>7. OnTheirWay(e)'
  <2>1. b \in blocks
    BY <1>1, <1>2 DEF OnTheirWay, BlockHalfway
  <2>2. \A k \in DOMAIN TxsOf(b) : k \in Int /\ k >= 1
    BY <1>4
  <2>3. TxsOf(b) = << >> => DOMAIN TxsOf(b) = {}
    OBVIOUS
  <2>4. BlockHalfway(e)'
    <3>1. ASSUME NEW k \in DOMAIN TxsOf(b)
          PROVE  pc'[e] = "tx" /\ ~(k < next'[e])
      BY <1>2, <2>2, <2>3
    <3>2. item'[e] = b /\ blocks' = blocks
      BY <1>2
    <3>3. blocksByHeight' = AtHeight(blocksByHeight', b)
      BY <1>2, <1>3
    <3>4. QED
      BY <2>1, <3>1, <3>2, <3>3 DEF BlockHalfway, At
  <2>5. BlockOnItsWay(e)' /\ TransactionOnItsWay(e)'
    BY <1>2 DEF BlockOnItsWay, TransactionOnItsWay, At
  <2>6. QED
    BY <2>4, <2>5 DEF OnTheirWay
<1>8. QED
  BY <1>6, <1>7

\* The index and the UTXO set, for the next transaction.
LEMMA PutTransactionImplements ==
  ASSUME NEW e, EventLoops = {e}, OInv(e), PutTransaction(e)
  PROVE  Implements /\ OnTheirWay(e)'
<1> USE OnlyLoop
<1>1. TypeOK /\ OnTheirWay(e)
  BY DEF OInv, OnTheirWay
<1> DEFINE b == item[e]
           txs == TxsOf(b)
           n == next[e]
           t == txs[n]
<1>2. /\ pc[e] = "tx" /\ item' = item /\ b \in BlockHash /\ next'[e] = n + 1
      /\ pc'[e] = IF n = Len(txs) THEN "relay" ELSE "tx"
      /\ blockHashesByTransaction' =
           [u \in TxHash |-> IF u \in {t} THEN b ELSE blockHashesByTransaction[u]]
      /\ unspentTransactionOutputSet' = (unspentTransactionOutputSet \ Spends(t)) \cup Creates(t)
      /\ UNCHANGED <<blockheight, blocks, blocksByHeight, mempool, clock, item, relays, heightsTold>>
  <2>1. ~Unsure(e, {"tx"})
    BY OnlyLoopSure
  <2>2. PutTransaction(e)
    OBVIOUS
  <2>3. /\ Goto(e, IF n = Len(txs) THEN "relay" ELSE "tx")
        /\ next' = [next EXCEPT ![e] = n + 1] /\ UNCHANGED item
    BY <2>2, OnlyLoopChanges DEF PutTransaction
  <2>4. pc[e] = "tx" /\ b \in BlockHash
    BY <1>1, <2>2 DEF PutTransaction, At, Putting
  <2>5. blockHashesByTransaction' =
          [u \in TxHash |-> IF u \in {t} THEN b ELSE blockHashesByTransaction[u]]
    BY <1>1, <2>2 DEF PutTransaction, TypeOK, StorageTypeOK
  <2>6. /\ unspentTransactionOutputSet' = (unspentTransactionOutputSet \ Spends(t)) \cup Creates(t)
        /\ UNCHANGED <<blockheight, blocks, blocksByHeight, mempool, clock, relays, heightsTold>>
    BY <2>1, <2>2 DEF PutTransaction
  <2>7. QED
    BY <1>1, <2>3, <2>4, <2>5, <2>6 DEF Goto
<1>3. txs \in Seq(TxHash) /\ n \in DOMAIN txs /\ n \in 1 .. Len(txs) /\ t \in TxHash
  <2>1. txs \in Seq(TxHash)
    BY <1>2, BlockTypes
  <2>2. n \in DOMAIN txs
    BY <1>1, <1>2 DEF TypeOK
  <2> HIDE DEF txs, n
  <2>3. QED
    BY <2>1, <2>2
<1>4. Indexed(blockHashesByTransaction', b) = Indexed(blockHashesByTransaction, b)
  <2> HIDE DEF n
  <2>1. QED
    BY <1>2, <1>3 DEF Indexed
<1>5. Remaining(e) = SubSeq(txs, n, Len(txs))
  BY <1>2 DEF Remaining
<1>6. Remaining(e)' = SubSeq(txs, n + 1, Len(txs))
  <2>1. CASE n = Len(txs)
    <3>1. SubSeq(txs, n + 1, Len(txs)) = << >>
      <4> HIDE DEF txs
      <4>1. QED
        BY <1>3, <2>1
    <3>2. pc'[e] = "relay"
      BY <1>2, <2>1
    <3>3. QED
      BY <3>1, <3>2 DEF Remaining
  <2>2. CASE n # Len(txs)
    <3>1. pc'[e] = "tx" /\ item'[e] = b
      BY <1>2, <2>2
    <3>2. QED
      BY <1>2, <3>1 DEF Remaining
  <2>3. QED
    BY <2>1, <2>2
<1>7. UnspentAfter(unspentTransactionOutputSet', Remaining(e)')
        = UnspentAfter(unspentTransactionOutputSet, Remaining(e))
  <2> HIDE DEF txs, n
  <2>1. QED
    BY <1>2, <1>3, <1>5, <1>6, UnspentAfterStep
<1>8. Implements
  <2>1. pc[e] \in Halfway /\ pc'[e] \in Halfway
    BY <1>2 DEF Halfway, Putting
  <2>2. QED
    BY <1>2, <1>4, <1>7, <2>1, HalfwayQuiet
<1>9. BlockHalfway(e)'
  <2>1. b \in blocks /\ blocksByHeight = AtHeight(blocksByHeight, b)
    BY <1>1, <1>2 DEF OnTheirWay, BlockHalfway
  <2>2. \A k \in DOMAIN txs : k < n => blockHashesByTransaction[txs[k]] = b
    BY <1>1, <1>2 DEF OnTheirWay, BlockHalfway, At
  <2>3. ASSUME NEW k \in DOMAIN txs, k < n + 1 \/ n = Len(txs)
        PROVE  blockHashesByTransaction'[txs[k]] = b
    <3> HIDE DEF txs, n, b
    <3>1. k \in 1 .. Len(txs) /\ txs[k] \in TxHash /\ (k < n \/ k = n)
      BY <1>3, <2>3
    <3>2. CASE k = n
      BY <1>2, <1>3, <3>2
    <3>3. CASE k < n
      BY <1>2, <2>2, <3>1, <3>3
    <3>4. QED
      BY <3>1, <3>2, <3>3
  <2>4. item'[e] = b /\ blocks' = blocks /\ blocksByHeight' = blocksByHeight
    BY <1>2
  <2>5. QED
    BY <1>2, <2>1, <2>3, <2>4 DEF BlockHalfway, At
<1>10. BlockOnItsWay(e)' /\ TransactionOnItsWay(e)'
  <2>1. pc'[e] \in {"tx", "relay"}
    BY <1>2
  <2>2. QED
    BY <2>1 DEF BlockOnItsWay, TransactionOnItsWay, At
<1>11. QED
  BY <1>8, <1>9, <1>10 DEF OnTheirWay

\* A relay that is done is one the node did before, and it was the first of
\* its item: the counter is not at its bound.
LEMMA RelayedOnceSettled ==
  ASSUME NEW e, EventLoops = {e}, MaxRelays > 0, OInv(e), item[e] \in Relayable,
         pc[e] \in Halfway \cup {"txRelay"}, pc'[e] \notin Halfway \cup {"txRelay"}, Relay(item[e])
  PROVE  SettledRelays' = SettledRelays
<1> DEFINE i == item[e]
<1>1. relays \in [Relayable -> 0 .. MaxRelays] /\ MaxRelays \in Nat
  BY LoopAssumption DEF OInv, TypeOK
<1>2. SettledRelays = [j \in Relayable |-> relays[j] + (IF j = i THEN 1 ELSE 0)]
  BY RelaysSettled
<1>3. SettledRelays' = [j \in Relayable |-> relays'[j] + 0]
  BY RelaysSettledNext
<1>4. SettledRelays[i] <= 1
  <2>1. NP!RelayedOnce
    BY DEF OInv, NP!HInv
  <2>2. QED
    BY <2>1 DEF NP!RelayedOnce, NP!Relayable, Relayable
<1> HIDE DEF i
<1>5. i \in Relayable /\ relays' = [relays EXCEPT ![i] = IF @ < MaxRelays THEN @ + 1 ELSE @]
  BY DEF Relay, i
<1>6. relays[i] = 0
  BY <1>1, <1>2, <1>4, <1>5
<1>7. relays' = [relays EXCEPT ![i] = 1]
  BY <1>1, <1>5, <1>6
<1>8. QED
  BY <1>1, <1>2, <1>3, <1>5, <1>6, <1>7

\* When the block is relayed, its put is done, and nothing is left to map.
LEMMA RelayBlockImplements ==
  ASSUME NEW e, EventLoops = {e}, MaxRelays > 0, OInv(e), RelayBlock(e)
  PROVE  Implements /\ OnTheirWay(e)'
<1> USE OnlyLoop
<1>1. TypeOK /\ OnTheirWay(e)
  BY DEF OInv, OnTheirWay
<1> DEFINE b == item[e]
<1>2. /\ pc[e] = "relay" /\ b \in BlockHash /\ Return(e) /\ Relay(b) /\ pc'[e] = "idle"
      /\ UNCHANGED <<storageVars, clock, heightsTold>>
  BY <1>1 DEF RelayBlock, Return, Goto, At, Putting
<1>3. Remaining(e) = << >>
  BY <1>2 DEF Remaining
<1>4. UnspentAfter(unspentTransactionOutputSet, << >>) = unspentTransactionOutputSet
  BY DEF UnspentAfter
<1>5. /\ b \in blocks /\ blocksByHeight = AtHeight(blocksByHeight, b)
      /\ \A k \in DOMAIN TxsOf(b) : blockHashesByTransaction[TxsOf(b)[k]] = b
  BY <1>1, <1>2 DEF OnTheirWay, BlockHalfway, At
<1>6. Indexed(blockHashesByTransaction, b) = blockHashesByTransaction
  <2>1. blockHashesByTransaction \in [TxHash -> BlockHash \cup {NoBlock}]
    BY <1>1 DEF TypeOK, StorageTypeOK
  <2>2. QED
    BY <1>5, <2>1 DEF Indexed
<1>7. Rested
  <2>1. pc[e] \in Halfway
    BY <1>2 DEF Halfway, Putting
  <2>2. blocks \cup {b} = blocks
    BY <1>5
  <2>3. QED
    BY <1>3, <1>4, <1>5, <1>6, <2>1, <2>2, HalfwaySettled DEF Rested
<1>8. Rested'
  BY <1>2, AtRestSettledNext DEF Halfway, Putting
<1>9. SettledRelays' = SettledRelays
  BY <1>2, RelayedOnceSettled DEF Halfway, Putting, Relayable
<1>10. UNCHANGED N!nodeVars
  BY <1>2, <1>7, <1>8, <1>9
     DEF Rested, storageVars, chainVars, N!nodeVars, N!storageVars, N!chainVars
<1>11. QED
  BY <1>1, <1>2, <1>10, ReturnLeaves DEF Implements

\* Putting a transaction into the mempool is where the node stores it.
LEMMA PutInMempoolImplements ==
  ASSUME NEW e, EventLoops = {e}, OInv(e), PutTransactionInMempool(e)
  PROVE  Implements /\ OnTheirWay(e)'
<1> USE OnlyLoop
<1>1. TypeOK /\ OnTheirWay(e)
  BY DEF OInv, OnTheirWay
<1> DEFINE t == item[e]
<1>2. /\ pc[e] = "txPut" /\ pc'[e] = "txRelay" /\ t \in TxHash /\ item'[e] = t
      /\ mempool' = mempool \cup {t}
      /\ UNCHANGED <<chainVars, clock, item, relays, heightsTold>>
  BY <1>1, OnlyLoopChanges DEF PutTransactionInMempool, Goto, At, TxPlaces
<1>3. /\ t \notin mempool /\ verifyInputsUnspent(t) /\ transactionVerify(t)
      /\ \A u \in mempool : Spends(u) \cap Spends(t) = {}
  BY <1>1, <1>2 DEF OnTheirWay, TransactionOnItsWay, At
<1>4. Rested /\ Rested'
  BY <1>2, AtRestSettled, AtRestSettledNext DEF Halfway, Putting
<1>5. N!verifyInputsUnspent(t) /\ N!transactionVerify(t)
  BY <1>3, <1>4, RestedVerify
<1>6. N!acceptable(t)
  BY <1>3, <1>5, NodeData DEF N!acceptable, N!doTransactionsContainTXO
<1>7. N!putMempoolTransaction(t)
  BY <1>2, <1>4 DEF Rested, chainVars, N!putMempoolTransaction, N!chainVars
<1>8. N!Broadcast(t)
  <2>1. SettledRelays = [i \in Relayable |-> relays[i] + 0]
    BY <1>2, RelaysSettled DEF Halfway, Putting
  <2>2. SettledRelays' = [i \in Relayable |-> relays[i] + (IF i = t THEN 1 ELSE 0)]
    BY <1>2, RelaysSettledNext
  <2>3. \A i \in Relayable : relays[i] \in Int
    BY <1>1, LoopAssumption DEF TypeOK
  <2>4. SettledRelays = [i \in Relayable |-> relays[i]]
    BY <2>1, <2>3
  <2>5. t \in Relayable
    BY <1>2 DEF Relayable
  <2>6. [SettledRelays EXCEPT ![t] = @ + 1]
          = [i \in Relayable |-> relays[i] + (IF i = t THEN 1 ELSE 0)]
    <3> HIDE DEF t
    <3>1. QED
      BY <2>3, <2>4, <2>5
  <2>7. QED
    BY <2>2, <2>6 DEF N!Broadcast
<1>9. N!StoreTransaction(t)
  BY <1>2, <1>6, <1>7, <1>8 DEF N!StoreTransaction
<1>10. Implements
  BY <1>2, <1>9 DEF Implements, N!Next, N!ReceiveTransaction
<1>11. OnTheirWay(e)'
  BY <1>2 DEF OnTheirWay, BlockOnItsWay, BlockHalfway, TransactionOnItsWay, At
<1>12. QED
  BY <1>10, <1>11

\* The relay of a transaction.
LEMMA RelayTransactionImplements ==
  ASSUME NEW e, EventLoops = {e}, MaxRelays > 0, OInv(e), RelayTransaction(e)
  PROVE  Implements /\ OnTheirWay(e)'
<1> USE OnlyLoop
<1>1. TypeOK /\ OnTheirWay(e)
  BY DEF OInv, OnTheirWay
<1>2. /\ pc[e] = "txRelay" /\ item[e] \in TxHash /\ Return(e) /\ Relay(item[e]) /\ pc'[e] = "idle"
      /\ UNCHANGED <<storageVars, clock, heightsTold>>
  BY <1>1 DEF RelayTransaction, Return, Goto, At, TxPlaces
<1>3. Rested /\ Rested'
  BY <1>2, AtRestSettled, AtRestSettledNext DEF Halfway, Putting
<1>4. SettledRelays' = SettledRelays
  BY <1>2, RelayedOnceSettled DEF Halfway, Putting, Relayable
<1>5. UNCHANGED N!nodeVars
  BY <1>2, <1>3, <1>4
     DEF Rested, storageVars, chainVars, N!nodeVars, N!storageVars, N!chainVars
<1>6. QED
  BY <1>1, <1>2, <1>5, ReturnLeaves DEF Implements

\* The clock, or nobody: what the loop verified goes on verifying.
LEMMA ClockImplements ==
  ASSUME NEW e, EventLoops = {e}, OInv(e), UNCHANGED <<storageVars, loopVars, relays, heightsTold>>,
         Tick \/ UNCHANGED clock
  PROVE  Implements /\ OnTheirWay(e)'
<1>1. TypeOK /\ OnTheirWay(e)
  BY DEF OInv, OnTheirWay
<1>2. UNCHANGED <<SettledBlocks, SettledList, SettledIndex, SettledUnspent, SettledRelays>>
  BY DEF storageVars, chainVars, loopVars, SettledBlocks, SettledList, SettledIndex,
     SettledUnspent, SettledRelays, AtRest, Storing, Remaining, Unrelayed
<1>3. Implements
  BY <1>2 DEF Implements, N!Next, N!Tick, Tick, storageVars, chainVars, N!nodeVars,
     N!storageVars, N!chainVars
<1>4. Grown
  BY <1>1, ClockAssumption DEF Grown, canGetTransaction, Tick, TypeOK, storageVars, chainVars
<1>5. /\ \A b \in BlockHash : blockVerify(b) => blockVerify(b)'
      /\ \A t \in TxHash : transactionVerify(t) => transactionVerify(t)'
  BY <1>4, BlockStable, TransactionStable
<1>6. \A t : verifyInputsUnspent(t)' = verifyInputsUnspent(t)
  BY DEF verifyInputsUnspent, isTransactionOutputSpent, storageVars, chainVars
<1>7. /\ pc[e] \in Checking \cup Putting => item[e] \in BlockHash
      /\ pc[e] \in TxPlaces => item[e] \in TxHash
  BY <1>1 DEF TypeOK
<1>8. UNCHANGED <<blockheight, blocks, blocksByHeight, blockHashesByTransaction, mempool,
                  pc, item, seenHeight, next>>
  BY DEF storageVars, chainVars, loopVars
<1>9. BlockOnItsWay(e)' /\ TransactionOnItsWay(e)'
  BY <1>1, <1>5, <1>6, <1>7, <1>8
     DEF OnTheirWay, BlockOnItsWay, TransactionOnItsWay, At, Checking, Putting, TxPlaces
<1>10. BlockHalfway(e)'
  BY <1>1, <1>8 DEF OnTheirWay, BlockHalfway, At
<1>11. QED
  BY <1>3, <1>9, <1>10 DEF OnTheirWay

\* Nothing is ever damaged.
LEMMA OnlyLoopSpares ==
  ASSUME NEW e, EventLoops = {e}, OInv(e), [Next]_vars
  PROVE  damaged' = {}
<1>1. damaged = {} /\ ~Unsure(e, {pc[e]})
  BY OnlyLoopSure DEF OInv
<1>2. CASE HandleBlock(e)
  BY <1>1, <1>2 DEF HandleBlock, ReceiveBlock, DiscardLowBlock, VerifyBlock, CheckUnspent,
     PutHeight, PutHash, PutByHeight, PutTransaction, RelayBlock, Change
<1>3. CASE HandleTransaction(e)
  BY <1>1, <1>3 DEF HandleTransaction, ReceiveTransaction, TransactionUnspent,
     TransactionVerify, TransactionConflict, CheckTransaction, PutTransactionInMempool,
     RelayTransaction, Change
<1>4. CASE UNCHANGED loopVars
  BY <1>1, <1>4 DEF loopVars
<1>5. QED
  BY <1>2, <1>3, <1>4 DEF Next, vars

\* Every step of the only loop is one of the node, or none.
LEMMA LoopImplements ==
  ASSUME NEW e, EventLoops = {e}, MaxRelays > 0, OInv(e), [Next]_vars
  PROVE  Implements /\ OInv(e)'
<1>1. Implements /\ OnTheirWay(e)'
  <2>1. CASE HandleBlock(e)
    BY <2>1, CheckingImplements, DiscardImplements, PutHeightImplements, PutHashImplements,
       PutByHeightImplements, PutTransactionImplements, RelayBlockImplements DEF HandleBlock
  <2>2. CASE HandleTransaction(e)
    BY <2>2, TransactionImplements, PutInMempoolImplements, RelayTransactionImplements
       DEF HandleTransaction
  <2>3. CASE UNCHANGED <<storageVars, loopVars, relays, heightsTold>> /\ (Tick \/ UNCHANGED clock)
    BY <2>3, ClockImplements
  <2>4. QED
    BY <2>1, <2>2, <2>3 DEF Next, vars
<1>2. TypeOK'
  BY TypeInductive DEF OInv
<1>3. NP!HInv'
  <2>1. [NP!Next]_(NP!nodeVars)
    BY <1>1, InstancesStep DEF Implements, N!nodeVars, NP!nodeVars, N!storageVars,
       NP!storageVars, N!chainVars, NP!chainVars
  <2>2. QED
    BY <2>1, NP!HInvStep, NodeAssumptions DEF OInv
<1>4. QED
  BY <1>1, <1>2, <1>3, OnlyLoopSpares DEF OInv, OnTheirWay

\* A node with a single event loop implements one whose handlers are atomic:
\* cutting them where they touch the storage loses and adds nothing, racing
\* collections or not, and what is proved of Node holds of it.
THEOREM EventLoopsImplementNode ==
  ASSUME NEW e, EventLoops = {e}, MaxRelays > 0
  PROVE  Spec => ImplementsNode
<1>1. Init => N!Init /\ OInv(e)
  <2> SUFFICES ASSUME Init
               PROVE  N!Init /\ OInv(e)
    OBVIOUS
  <2>1. TypeOK /\ pc[e] = "idle" /\ damaged = {}
    BY TypeInductive DEF Init
  <2>2. OnTheirWay(e)
    BY <2>1 DEF OnTheirWay, BlockOnItsWay, BlockHalfway, TransactionOnItsWay, At
  <2>3. Rested
    BY <2>1, AtRestSettled DEF Halfway, Putting
  <2>4. SettledRelays = [i \in Relayable |-> 0]
    BY <2>1, RelaysSettled DEF Init, Halfway, Putting
  <2>5. N!Init
    BY <2>3, <2>4 DEF Rested, Init, StorageInit, N!Init, N!StorageInit, N!Relayable, Relayable
  <2>6. NP!HInv
    BY <2>5, InstancesStep, NP!HInvFirst, NodeAssumptions
  <2>7. QED
    BY <2>1, <2>2, <2>5, <2>6 DEF OInv, OnTheirWay
<1>2. OInv(e) /\ [Next]_vars => [N!Next]_(N!nodeVars) /\ OInv(e)'
  BY LoopImplements DEF Implements
<1>3. QED
  BY <1>1, <1>2, PTL DEF Spec, ImplementsNode, N!Spec
=============================================================================
