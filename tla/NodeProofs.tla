----------------------------- MODULE NodeProofs -----------------------------
(* A node that handles one message at a time implements the ledger, for    *)
(* every set of blocks and transactions and every order of messages.       *)
EXTENDS Node, ValidationProofs, SequenceTheorems

\* The storage invariant: the views of the chain agree, the UTXO set is exact
\* and the chain has the shape extensions give it.
IInv ==
  /\ TypeOK
  /\ blocksByHeight \in Seq(BlockHash)
  /\ ViewsAgree
  /\ UtxoExact
  /\ Linked(blocksByHeight)
  /\ Shaped(blocksByHeight)
  /\ SpentOnceIn(blocksByHeight)

\* What a handler that does not store a block leaves the invariant.
LEMMA ChainUnchanged ==
  ASSUME IInv, UNCHANGED chainVars, TypeOK'
  PROVE  IInv'
BY DEF IInv, chainVars, ViewsAgree, UtxoExact

-----------------------------------------------------------------------------
(* A block that is stored extends the chain                                *)

\* The counter says how long the chain is, so a higher block whose
\* predecessor is stored can only be the next one.
LEMMA StoredLinks ==
  ASSUME IInv, NEW b \in BlockHash, blockheight < BlockOf[b].BlockHeight, headerVerify(b)
  PROVE  LinksTo(blocksByHeight, b)
<1> DEFINE chain == blocksByHeight
           height == BlockOf[b].BlockHeight
           previous == BlockOf[b].HashPreviousBlock
<1>1. /\ chain \in Seq(BlockHash) /\ height \in Int
      /\ blockheight = Len(chain) - 1
      /\ blocks = {chain[i] : i \in DOMAIN chain}
      /\ Linked(chain)
  BY BlockTypes DEF IInv, ViewsAgree
<1>2. CASE height > 0
  <2>1. previous \in blocks /\ height = BlockOf[previous].BlockHeight + 1
    BY <1>2 DEF headerVerify
  <2>2. PICK i \in DOMAIN chain : previous = chain[i]
    BY <1>1, <2>1
  <2>3. height = i
    BY <1>1, <2>1, <2>2 DEF Linked
  <2>4. i = Len(chain)
    BY <1>1, <2>3
  <2>5. QED
    BY <2>2, <2>3, <2>4 DEF LinksTo
<1>3. CASE ~(height > 0)
  <2>1. height = 0 /\ Len(chain) = 0
    BY <1>1, <1>3
  <2>2. chain = << >>
    BY <1>1, <2>1
  <2>3. QED
    BY <2>1, <2>2 DEF LinksTo
<1>4. QED
  BY <1>2, <1>3

\* Block.verify and verifyTransactionsUnspent together are CanExtend.
LEMMA StoredExtends ==
  ASSUME IInv, NEW b \in BlockHash, blockheight < BlockOf[b].BlockHeight,
         blockVerify(b), verifyTransactionsUnspent(b)
  PROVE  CanExtend(blocksByHeight, b)
<1>1. LinksTo(blocksByHeight, b)
  BY StoredLinks DEF blockVerify
<1>2. CoinbaseAt(Len(blocksByHeight), TxsOf(b))
  BY <1>1 DEF LinksTo, CoinbaseAt, blockVerify, verifyTransactions, verifyCoinbase,
              verifyBlockReward
<1>3. ASSUME NEW k \in 2 .. Len(TxsOf(b))
      PROVE  /\ InputsOf(TxsOf(b)[k]) # << >>
             /\ Spends(TxsOf(b)[k]) \subseteq Created(blocksByHeight) \ Spent(blocksByHeight)
  <2>1. transactionVerify(TxsOf(b)[k])
    BY DEF blockVerify, verifyTransactions
  <2>2. verifyInputsUnspent(TxsOf(b)[k])
    BY DEF verifyTransactionsUnspent
  <2>3. QED
    BY <2>1, <2>2 DEF transactionVerify, verifyInputsUnspent, isTransactionOutputSpent,
                      IInv, UtxoExact
<1>4. SpendsOnce(TxsOf(b))
  BY DEF blockVerify, verifyTransactions
<1>5. QED
  BY <1>1, <1>2, <1>3, <1>4 DEF CanExtend, SpendsUnspentOf

\* A block that extends the list by height is put at its end: putBlock has
\* nothing to pad and nothing to overwrite.
LEMMA AtHeightAppends ==
  ASSUME NEW chain \in Seq(BlockHash), NEW b \in BlockHash, LinksTo(chain, b)
  PROVE  AtHeight(chain, b) = Append(chain, b)
<1>1. BlockOf[b].BlockHeight = Len(chain) /\ Len(chain) \in Nat
  BY DEF LinksTo
<1>2. AtHeight(chain, b) =
        [i \in 1 .. (Len(chain) + 1) |->
           CASE i = Len(chain) + 1 -> b
             [] i \in DOMAIN chain /\ i # Len(chain) + 1 -> chain[i]
             [] OTHER -> NoBlock]
  BY <1>1 DEF AtHeight
<1>3. \A i \in 1 .. (Len(chain) + 1) : AtHeight(chain, b)[i] = Append(chain, b)[i]
  BY <1>1, <1>2
<1>4. /\ Append(chain, b) \in [1 .. (Len(chain) + 1) -> BlockHash]
      /\ AtHeight(chain, b) \in [1 .. (Len(chain) + 1) -> BlockHash]
  <2>1. Append(chain, b) \in [1 .. (Len(chain) + 1) -> BlockHash]
    BY AppendBlock, LenProperties
  <2>2. QED
    BY <1>2, <1>3, <2>1
<1>5. QED
  BY <1>3, <1>4

\* When no transaction spends what the block creates, the order putBlock goes
\* through the transactions in does not matter.
LEMMA UnspentAfterBlock ==
  ASSUME NEW unspent, NEW b \in BlockHash, CreatedBy(b) \cap SpentBy(b) = {}
  PROVE  UnspentAfter(unspent, TxsOf(b)) = (unspent \ SpentBy(b)) \cup CreatedBy(b)
<1> DEFINE txs == TxsOf(b)
<1>1. {o \in unspent : \A k \in DOMAIN txs : o \notin Spends(txs[k])} = unspent \ SpentBy(b)
  BY DEF SpentBy
<1>2. \A k \in DOMAIN txs :
        {o \in Creates(txs[k]) : \A j \in DOMAIN txs : j > k => o \notin Spends(txs[j])}
          = Creates(txs[k])
  BY DEF SpentBy, CreatedBy
<1>3. QED
  BY <1>1, <1>2 DEF UnspentAfter, CreatedBy

\* What a chain leaves unspent, and a block more.
LEMMA ExtendUtxo ==
  ASSUME NEW chain \in Seq(BlockHash), NEW b \in BlockHash,
         Shaped(chain), SpentOnceIn(chain), CanExtend(chain, b)
  PROVE  UnspentAfter(Created(chain) \ Spent(chain), TxsOf(b))
           = Created(Append(chain, b)) \ Spent(Append(chain, b))
<1>1. CreatedBy(b) \cap (Spent(chain) \cup SpentBy(b)) = {}
  BY ExtendCreatesFresh
<1>2. UnspentAfter(Created(chain) \ Spent(chain), TxsOf(b))
        = ((Created(chain) \ Spent(chain)) \ SpentBy(b)) \cup CreatedBy(b)
  BY <1>1, UnspentAfterBlock
<1>3. /\ Created(Append(chain, b)) = Created(chain) \cup CreatedBy(b)
      /\ Spent(Append(chain, b)) = Spent(chain) \cup SpentBy(b)
  BY AppendCreatedSpent
<1>4. QED
  BY <1>1, <1>2, <1>3

-----------------------------------------------------------------------------
(* Storing a block keeps the storage invariant                             *)

\* The UTXO set stays exact.
LEMMA StoredUtxo ==
  ASSUME IInv, NEW b \in BlockHash, CanExtend(blocksByHeight, b)
  PROVE  UnspentAfter(unspentTransactionOutputSet, TxsOf(b))
           = Created(Append(blocksByHeight, b)) \ Spent(Append(blocksByHeight, b))
BY ExtendUtxo DEF IInv, UtxoExact

\* The views keep agreeing: no transaction of the block was indexed before.
LEMMA StoredViews ==
  ASSUME IInv, NEW b \in BlockHash, CanExtend(blocksByHeight, b), putBlock(b)
  PROVE  ViewsAgree'
<1> DEFINE new == Append(blocksByHeight, b)
<1>1. blocksByHeight \in Seq(BlockHash) /\ LinksTo(blocksByHeight, b)
  BY DEF IInv, CanExtend
<1>2. blocksByHeight' = new
  BY <1>1, AtHeightAppends DEF putBlock
<1>3. /\ new \in Seq(BlockHash) /\ Len(new) = Len(blocksByHeight) + 1
      /\ DOMAIN new = DOMAIN blocksByHeight \cup {Len(new)}
      /\ \A i \in DOMAIN blocksByHeight : new[i] = blocksByHeight[i]
      /\ new[Len(new)] = b
  BY <1>1, AppendBlock
<1>4. TransactionsOnceIn(new)
  BY <1>3, ExtendShaped, ExtendSpentOnce, SpentOnceTransactionsOnce DEF IInv
<1> HIDE DEF new
<1>5. blockheight' = Len(blocksByHeight') - 1
  BY <1>1, <1>2, <1>3 DEF putBlock, LinksTo
<1>6. blocks' = {new[i] : i \in DOMAIN new}
  <2>1. blocks = {blocksByHeight[i] : i \in DOMAIN blocksByHeight}
    BY DEF IInv, ViewsAgree
  <2>2. QED
    BY <1>3, <2>1 DEF putBlock
<1>7. ASSUME NEW t \in TxHash, NEW c \in BlockHash
      PROVE  blockHashesByTransaction'[t] = c
               <=> c \in blocks' /\ \E k \in DOMAIN TxsOf(c) : TxsOf(c)[k] = t
  <2>1. blockHashesByTransaction[t] = c
          <=> c \in blocks /\ \E k \in DOMAIN TxsOf(c) : TxsOf(c)[k] = t
    BY DEF IInv, ViewsAgree
  <2>2. blocks' = blocks \cup {b}
    BY DEF putBlock
  <2>3. CASE \E k \in DOMAIN TxsOf(b) : TxsOf(b)[k] = t
    <3>1. blockHashesByTransaction'[t] = b
      BY <2>3 DEF putBlock, Indexed
    <3>2. ASSUME c \in blocks', NEW k \in DOMAIN TxsOf(c), TxsOf(c)[k] = t
          PROVE  c = b
      <4>1. PICK i \in DOMAIN new : c = new[i]
        BY <1>6, <3>2
      <4>2. PICK l \in DOMAIN TxsOf(b) : TxsOf(b)[l] = t
        BY <2>3
      <4>3. Len(new) \in DOMAIN new
        BY <1>3
      <4>4. i = Len(new)
        <5>1. TxsOf(new[i])[k] = TxsOf(new[Len(new)])[l]
          BY <1>3, <3>2, <4>1, <4>2
        <5>2. k \in DOMAIN TxsOf(new[i]) /\ l \in DOMAIN TxsOf(new[Len(new)])
          BY <1>3, <4>1
        <5>3. QED
          BY <1>4, <4>3, <5>1, <5>2 DEF TransactionsOnceIn
      <4>5. QED
        BY <1>3, <4>1, <4>4
    <3>3. QED
      BY <2>2, <2>3, <3>1, <3>2
  <2>4. CASE ~(\E k \in DOMAIN TxsOf(b) : TxsOf(b)[k] = t)
    <3>1. blockHashesByTransaction'[t] = blockHashesByTransaction[t]
      BY <2>4 DEF putBlock, Indexed
    <3>2. QED
      BY <2>1, <2>2, <2>4, <3>1
  <2>5. QED
    BY <2>3, <2>4
<1>8. QED
  BY <1>2, <1>5, <1>6, <1>7 DEF ViewsAgree

\* Storing a block extends the chain and keeps the invariant.
LEMMA StoreKeepsIInv ==
  ASSUME IInv, NEW b \in BlockHash, StoreBlock(b)
  PROVE  IInv' /\ CanExtend(blocksByHeight, b) /\ blocksByHeight' = Append(blocksByHeight, b)
<1>1. CanExtend(blocksByHeight, b) /\ putBlock(b)
  BY StoredExtends DEF StoreBlock
<1>2. blocksByHeight \in Seq(BlockHash)
  BY DEF IInv
<1>3. blocksByHeight' = Append(blocksByHeight, b)
  BY <1>1, <1>2, AtHeightAppends DEF putBlock, CanExtend
<1>4. blocksByHeight' \in Seq(BlockHash)
  BY <1>2, <1>3, AppendBlock
<1>5. ViewsAgree'
  BY <1>1, StoredViews
<1>6. UtxoExact'
  BY <1>1, <1>3, StoredUtxo DEF UtxoExact, putBlock
<1>7. Linked(blocksByHeight') /\ Shaped(blocksByHeight') /\ SpentOnceIn(blocksByHeight')
  BY <1>1, <1>2, <1>3, ExtendLinked, ExtendShaped, ExtendSpentOnce DEF IInv
<1>8. TypeOK'
  <2>1. blockheight' \in Int /\ blocks' \subseteq BlockHash
    BY <1>1, BlockTypes DEF putBlock, IInv, TypeOK, StorageTypeOK
  <2>2. blocksByHeight' \in Seq(BlockHash \cup {NoBlock})
    BY <1>4, SeqMonotonic
  <2>3. blockHashesByTransaction' \in [TxHash -> BlockHash \cup {NoBlock}]
    BY <1>1 DEF putBlock, Indexed, IInv, TypeOK, StorageTypeOK
  <2>4. unspentTransactionOutputSet' \subseteq TransactionOutputIdentifier
    <3>1. unspentTransactionOutputSet' \subseteq Created(blocksByHeight')
      BY <1>6 DEF UtxoExact
    <3>2. Created(blocksByHeight') \subseteq TxHash \X Int
      BY <1>4, CreatedType
    <3>3. QED
      BY <3>1, <3>2 DEF TransactionOutputIdentifier
  <2>5. relays' \in [Relayable -> Nat]
    BY DEF StoreBlock, Broadcast, IInv, TypeOK, Relayable
  <2>6. mempool' \subseteq TxHash /\ clock' \in ClockTimes /\ heightsTold' \subseteq Int
    BY <1>1 DEF StoreBlock, putBlock, IInv, TypeOK, StorageTypeOK
  <2>7. QED
    BY <2>1, <2>2, <2>3, <2>4, <2>5, <2>6 DEF TypeOK, StorageTypeOK
<1>9. QED
  BY <1>1, <1>3, <1>4, <1>5, <1>6, <1>7, <1>8 DEF IInv

-----------------------------------------------------------------------------
(* Every step                                                              *)

\* The other steps leave the chain alone.
LEMMA OthersLeaveChain ==
  ASSUME IInv, [Next]_nodeVars, ~\E b \in BlockHash : StoreBlock(b)
  PROVE  IInv' /\ UNCHANGED chainVars
<1>1. /\ StorageTypeOK /\ clock \in ClockTimes
      /\ relays \in [Relayable -> Nat] /\ heightsTold \subseteq Int
  BY DEF IInv, TypeOK
<1>2. ASSUME NEW b \in BlockHash, DiscardLowBlock(b)
      PROVE  TypeOK' /\ UNCHANGED chainVars
  BY <1>1, <1>2 DEF DiscardLowBlock, TypeOK, StorageTypeOK, storageVars, chainVars
<1>3. ASSUME NEW b \in BlockHash, DiscardInvalidBlock(b)
      PROVE  TypeOK' /\ UNCHANGED chainVars
  BY <1>1, <1>3 DEF DiscardInvalidBlock, TypeOK, StorageTypeOK, nodeVars, storageVars, chainVars
<1>4. ASSUME NEW t \in TxHash, ReceiveTransaction(t)
      PROVE  TypeOK' /\ UNCHANGED chainVars
  <2>1. CASE StoreTransaction(t)
    BY <1>1, <2>1 DEF StoreTransaction, putMempoolTransaction, Broadcast, Relayable,
                      TypeOK, StorageTypeOK, chainVars
  <2>2. CASE DiscardTransaction(t)
    BY <1>1, <2>2 DEF DiscardTransaction, TypeOK, StorageTypeOK, nodeVars, storageVars, chainVars
  <2>3. QED
    BY <1>4, <2>1, <2>2 DEF ReceiveTransaction
<1>5. ASSUME AssembleCandidate
      PROVE  TypeOK' /\ UNCHANGED chainVars
  BY <1>1, <1>5 DEF AssembleCandidate, TypeOK, StorageTypeOK, chainVars
<1>6. ASSUME Tick, UNCHANGED <<storageVars, relays, heightsTold>>
      PROVE  TypeOK' /\ UNCHANGED chainVars
  BY <1>1, <1>6 DEF Tick, TypeOK, StorageTypeOK, storageVars, chainVars
<1>7. ASSUME UNCHANGED nodeVars
      PROVE  TypeOK' /\ UNCHANGED chainVars
  BY <1>1, <1>7 DEF TypeOK, StorageTypeOK, nodeVars, storageVars, chainVars
<1>8. TypeOK' /\ UNCHANGED chainVars
  BY <1>2, <1>3, <1>4, <1>5, <1>6, <1>7 DEF Next, ReceiveBlock
<1>9. QED
  BY <1>8, ChainUnchanged

\* The storage invariant holds of every reachable state.
LEMMA IInvInductive ==
  /\ Init => IInv
  /\ IInv /\ [Next]_nodeVars => IInv'
<1>1. Init => IInv
  <2> SUFFICES ASSUME Init
               PROVE  IInv
    OBVIOUS
  <2>1. TypeOK
    BY DEF Init, TypeOK, StorageInit, StorageTypeOK, Relayable
  <2>2. blocksByHeight = << >> /\ blocksByHeight \in Seq(BlockHash)
    BY DEF Init, StorageInit
  <2>3. ViewsAgree
    BY <2>2, DataAssumption DEF Init, StorageInit, ViewsAgree
  <2>4. UtxoExact
    BY <2>2 DEF Init, StorageInit, UtxoExact, Created
  <2>5. Linked(blocksByHeight) /\ Shaped(blocksByHeight) /\ SpentOnceIn(blocksByHeight)
    BY <2>2 DEF Linked, Shaped, SpentOnceIn
  <2>6. QED
    BY <2>1, <2>2, <2>3, <2>4, <2>5 DEF IInv
<1>2. IInv /\ [Next]_nodeVars => IInv'
  BY StoreKeepsIInv, OthersLeaveChain
<1>3. QED
  BY <1>1, <1>2

\* The ledger's operators are the ones the node's lemmas are about.
LEMMA LedgerOperators ==
  ASSUME NEW list
  PROVE  /\ \A b : L!CanExtend(list, b) <=> CanExtend(list, b)
         /\ L!Linked(list) <=> Linked(list)
         /\ L!SpentOnceIn(list) <=> SpentOnceIn(list)
         /\ L!TransactionsOnceIn(list) <=> TransactionsOnceIn(list)
<1> USE DEF L!TxsOf, TxsOf, L!InputsOf, InputsOf, L!OutputsOf, OutputsOf,
            L!OutpointOf, OutpointOf
<1>1. \A t : L!Spends(t) = Spends(t) /\ L!Creates(t) = Creates(t)
  BY DEF L!Spends, Spends, L!Creates, Creates
<1>2. L!Created(list) = Created(list) /\ L!Spent(list) = Spent(list)
  BY <1>1 DEF L!Created, Created, L!CreatedBy, CreatedBy, L!Spent, Spent, L!SpentBy, SpentBy
<1>3. \A b : L!CanExtend(list, b) <=> CanExtend(list, b)
  <2>1. \A txs : L!SpendsOnce(txs) <=> SpendsOnce(txs)
    BY DEF L!SpendsOnce, SpendsOnce
  <2>2. QED
    BY <1>1, <1>2, <2>1 DEF L!CanExtend, CanExtend, L!LinksTo, LinksTo,
       L!CoinbaseAt, CoinbaseAt, L!SpendsUnspentOf, SpendsUnspentOf
<1>4. L!Linked(list) <=> Linked(list)
  BY DEF L!Linked, Linked
<1>5. L!SpentOnceIn(list) <=> SpentOnceIn(list)
  BY DEF L!SpentOnceIn, SpentOnceIn, L!OutpointAt, OutpointAt
<1>6. L!TransactionsOnceIn(list) <=> TransactionsOnceIn(list)
  BY DEF L!TransactionsOnceIn, TransactionsOnceIn
<1>7. QED
  BY <1>3, <1>4, <1>5, <1>6

\* Whatever blocks are offered, the ledger's chain is linked, spends every
\* output at most once and holds every transaction once. What it takes to stay
\* so is the shape of its blocks.
THEOREM LedgerSound == L!Spec => []L!Sound
<1> DEFINE LInv == /\ blocksByHeight \in Seq(BlockHash) /\ Linked(blocksByHeight)
                   /\ Shaped(blocksByHeight) /\ SpentOnceIn(blocksByHeight)
<1>1. L!Init => LInv
  BY DEF L!Init, Linked, Shaped, SpentOnceIn
<1>2. LInv /\ [L!Next]_blocksByHeight => LInv'
  <2>1. ASSUME LInv, NEW b \in BlockHash, L!Extend(b)
        PROVE  LInv'
    <3>1. CanExtend(blocksByHeight, b) /\ blocksByHeight' = Append(blocksByHeight, b)
      BY <2>1, LedgerOperators DEF L!Extend
    <3>2. QED
      BY <2>1, <3>1, AppendBlock, ExtendLinked, ExtendShaped, ExtendSpentOnce
  <2>2. QED
    BY <2>1 DEF L!Next
<1>3. LInv => L!Sound
  BY SpentOnceTransactionsOnce, LedgerOperators DEF L!Sound
<1> HIDE DEF LInv
<1>4. QED
  BY <1>1, <1>2, <1>3, PTL DEF L!Spec

\* Every value keeps its type: the four views, the UTXO set, the mempool.
THEOREM NodeTypeOK == Spec => []TypeOK
<1>1. IInv => TypeOK
  BY DEF IInv
<1>2. QED
  BY <1>1, IInvInductive, PTL DEF Spec

\* The counter, the list by height, the map by hash and the index by
\* transaction always describe one chain.
THEOREM NodeViewsAgree == Spec => []ViewsAgree
<1>1. IInv => ViewsAgree
  BY DEF IInv
<1>2. QED
  BY <1>1, IInvInductive, PTL DEF Spec

\* The UTXO set that putBlock maintains is what the chain leaves unspent.
THEOREM NodeUtxoExact == Spec => []UtxoExact
<1>1. IInv => UtxoExact
  BY DEF IInv
<1>2. QED
  BY <1>1, IInvInductive, PTL DEF Spec

\* Whatever peers send and in whatever order, no output is spent twice on the
\* stored chain and no transaction stands on it twice.
THEOREM NodeChainSound == Spec => []ChainSound
<1>1. IInv => ChainSound
  BY SpentOnceTransactionsOnce, LedgerOperators DEF IInv, ChainSound, L!Sound
<1>2. QED
  BY <1>1, IInvInductive, PTL DEF Spec

\* The node implements the ledger: each of its steps extends the chain as the
\* ledger allows or leaves it alone.
THEOREM NodeImplementsLedger == Spec => ImplementsLedger
<1>1. Init => L!Init
  BY DEF Init, StorageInit, L!Init
<1>2. IInv /\ [Next]_nodeVars => [L!Next]_blocksByHeight
  <2> SUFFICES ASSUME IInv, [Next]_nodeVars
               PROVE  L!Next \/ UNCHANGED blocksByHeight
    OBVIOUS
  <2>1. ASSUME NEW b \in BlockHash, StoreBlock(b)
        PROVE  L!Next
    BY <2>1, StoreKeepsIInv, LedgerOperators DEF L!Next, L!Extend
  <2>2. QED
    BY <2>1, OthersLeaveChain DEF chainVars
<1>3. QED
  BY <1>1, <1>2, IInvInductive, PTL DEF Spec, ImplementsLedger, L!Spec

-----------------------------------------------------------------------------
(* What a node accepted it never has to take back: stored blocks and       *)
(* pending transactions keep verifying, the mempool stays free of          *)
(* conflicts and nothing is relayed a second time.                         *)

\* A relayed transaction is pending or lost an input to the chain; either
\* keeps the node from accepting it again.
RelayedSettled ==
  \A t \in TxHash :
    relays[t] > 0 => t \in mempool \/ Spends(t) \cap Spent(blocksByHeight) # {}

HInv ==
  /\ IInv
  /\ \A b \in blocks : blockVerify(b)
  /\ MempoolVerifies
  /\ MempoolConflictFree
  /\ RelayedStored
  /\ RelayedOnce
  /\ RelayedSettled
  /\ HeightsServable

-----------------------------------------------------------------------------
\* Every step lets what verification reads only grow.
LEMMA StepGrown ==
  ASSUME IInv, [Next]_nodeVars
  PROVE  Grown
<1>1. clock \in Int /\ clock' \in Int /\ clock <= clock'
  <2>1. clock \in Int
    BY ClockAssumption DEF IInv, TypeOK
  <2>2. clock' = clock \/ Tick
    BY DEF Next, ReceiveBlock, DiscardLowBlock, DiscardInvalidBlock, StoreBlock,
           ReceiveTransaction, StoreTransaction, DiscardTransaction, AssembleCandidate, nodeVars
  <2>3. QED
    BY <2>1, <2>2, ClockAssumption DEF Tick
<1>2. CASE \E b \in BlockHash : StoreBlock(b)
  <2>1. PICK b \in BlockHash : putBlock(b)
    BY <1>2 DEF StoreBlock
  <2>2. blocks' = blocks \cup {b}
    BY <2>1 DEF putBlock
  <2>3. ASSUME NEW t \in TxHash, canGetTransaction(t)
        PROVE  canGetTransaction(t)'
    <3>1. blockHashesByTransaction'[t] \in {b, blockHashesByTransaction[t]}
      BY <2>1 DEF putBlock, Indexed
    <3>2. QED
      BY <2>2, <2>3, <3>1 DEF canGetTransaction
  <2>4. QED
    BY <1>1, <2>2, <2>3 DEF Grown
<1>3. CASE ~\E b \in BlockHash : StoreBlock(b)
  <2>1. UNCHANGED chainVars
    BY <1>3, OthersLeaveChain
  <2>2. QED
    BY <1>1, <2>1 DEF Grown, canGetTransaction, chainVars
<1>4. QED
  BY <1>2, <1>3

\* An outpoint that a verified transaction spends was created by the chain.
LEMMA VerifiedSpendsCreated ==
  ASSUME IInv, NEW t \in TxHash, transactionVerify(t), NEW o \in Spends(t)
  PROVE  o \in Created(blocksByHeight)
<1>1. PICK i \in DOMAIN InputsOf(t) : o = OutpointOf(InputsOf(t)[i])
  BY DEF Spends
<1>2. InputsOf(t)[i] \in Input
  BY TransactionTypes
<1>3. inputVerify(InputsOf(t)[i])
  BY <1>1 DEF transactionVerify, verifyInputs
<1>4. PICK u \in TxHash : o[1] = u /\ blockHashesByTransaction[u] \in blocks
  BY <1>1, <1>3 DEF inputVerify, canGetTransaction, OutpointOf
<1>5. PICK b \in BlockHash : b \in blocks /\ \E k \in DOMAIN TxsOf(b) : TxsOf(b)[k] = u
  BY <1>4 DEF IInv, ViewsAgree, TypeOK, StorageTypeOK
<1>6. o = <<u, o[2]>> /\ o[2] \in Int
  BY <1>1, <1>2, <1>4 DEF OutpointOf, Input
<1>7. o \in Creates(u)
  <2>1. o[2] + 1 \in DOMAIN OutputsOf(u)
    BY <1>1, <1>3, <1>4 DEF inputVerify, OutputExists
  <2>2. o = <<u, (o[2] + 1) - 1>>
    BY <1>6
  <2>3. QED
    BY <2>1, <2>2 DEF Creates
<1>8. o \in CreatedBy(b)
  BY <1>5, <1>7 DEF CreatedBy
<1>9. QED
  BY <1>5, <1>8 DEF IInv, ViewsAgree, Created

\* A stored block's own inputs keep the invariants of the relays: it is new.
LEMMA StoreBlockHistory ==
  ASSUME HInv, NEW b \in BlockHash, StoreBlock(b)
  PROVE  HInv'
<1>1. /\ IInv' /\ blocksByHeight' = Append(blocksByHeight, b)
      /\ blocksByHeight \in Seq(BlockHash) /\ CanExtend(blocksByHeight, b)
  BY StoreKeepsIInv DEF HInv, IInv
<1>2. Grown
  BY StepGrown DEF HInv, Next, ReceiveBlock
<1>3. blocks' = blocks \cup {b} /\ mempool' = mempool /\ blockVerify(b)
  BY DEF StoreBlock, putBlock
<1>4. blocks \subseteq BlockHash /\ mempool \subseteq TxHash /\ relays \in [Relayable -> Nat]
  BY DEF HInv, IInv, TypeOK, StorageTypeOK
<1>5. relays' = [relays EXCEPT ![b] = @ + 1] /\ b \in Relayable
  BY DEF StoreBlock, Broadcast, Relayable
<1>6. \A c \in blocks' : blockVerify(c)'
  BY <1>2, <1>3, <1>4, BlockStable DEF HInv
<1>7. MempoolVerifies'
  BY <1>2, <1>3, <1>4, TransactionStable DEF HInv, MempoolVerifies
<1>8. MempoolConflictFree'
  BY <1>3 DEF HInv, MempoolConflictFree
<1>9. b \notin blocks
  <2> SUFFICES ASSUME b \in blocks
               PROVE  FALSE
    OBVIOUS
  <2>1. PICK i \in DOMAIN blocksByHeight : b = blocksByHeight[i]
    BY DEF HInv, IInv, ViewsAgree
  <2>2. BlockOf[b].BlockHeight = i - 1 /\ i \in 1 .. Len(blocksByHeight)
    BY <1>1, <2>1 DEF HInv, IInv, Linked
  <2>3. QED
    BY <1>1, <2>2 DEF CanExtend, LinksTo
<1>10. relays[b] = 0
  BY <1>4, <1>5, <1>9 DEF HInv, RelayedStored
<1>11. RelayedStored'
  BY <1>3, <1>4, <1>5, <1>10 DEF HInv, RelayedStored, Relayable
<1>12. RelayedOnce'
  BY <1>4, <1>5, <1>10 DEF HInv, RelayedOnce
<1>13. RelayedSettled'
  <2>1. \A t \in TxHash : relays'[t] = relays[t]
    BY <1>4, <1>5, DataAssumption DEF Relayable
  <2>2. Spent(blocksByHeight) \subseteq Spent(blocksByHeight')
    BY <1>1, AppendCreatedSpent
  <2>3. QED
    BY <1>3, <2>1, <2>2 DEF HInv, RelayedSettled
<1>14. HeightsServable'
  <2>1. blockheight' \in Int /\ blockheight \in Int /\ blockheight < blockheight'
    BY BlockTypes DEF StoreBlock, putBlock, HInv, IInv, TypeOK, StorageTypeOK
  <2>2. heightsTold' = heightsTold /\ heightsTold \subseteq Int
    BY DEF StoreBlock, HInv, IInv, TypeOK
  <2>3. QED
    BY <2>1, <2>2 DEF HInv, HeightsServable
<1>15. QED
  BY <1>1, <1>6, <1>7, <1>8, <1>11, <1>12, <1>13, <1>14 DEF HInv

\* What only depends on the chain survives a step that leaves it alone.
LEMMA ChainHistory ==
  ASSUME HInv, [Next]_nodeVars, ~\E b \in BlockHash : StoreBlock(b)
  PROVE  /\ IInv' /\ UNCHANGED chainVars
         /\ \A b \in blocks' : blockVerify(b)'
         /\ \A t \in mempool : transactionVerify(t)'
<1>1. IInv' /\ UNCHANGED chainVars
  BY OthersLeaveChain DEF HInv
<1>2. Grown
  BY StepGrown DEF HInv
<1>3. blocks \subseteq BlockHash /\ blocks' = blocks /\ mempool \subseteq TxHash
  BY <1>1 DEF HInv, IInv, TypeOK, StorageTypeOK, chainVars
<1>4. QED
  BY <1>1, <1>2, <1>3, BlockStable, TransactionStable DEF HInv, MempoolVerifies

\* A transaction enters the mempool for the first time: had it been relayed
\* before, it would be pending or one of its inputs spent.
LEMMA StoreTransactionHistory ==
  ASSUME HInv, NEW t \in TxHash, StoreTransaction(t), ~\E b \in BlockHash : StoreBlock(b)
  PROVE  HInv'
<1>1. [Next]_nodeVars
  BY DEF Next, ReceiveTransaction
<1>2. IInv' /\ UNCHANGED chainVars /\ (\A b \in blocks' : blockVerify(b)')
      /\ \A u \in mempool : transactionVerify(u)'
  BY <1>1, ChainHistory
<1>3. /\ mempool' = mempool \cup {t} /\ acceptable(t)
      /\ relays' = [relays EXCEPT ![t] = @ + 1] /\ t \in Relayable
      /\ heightsTold' = heightsTold
  BY DEF StoreTransaction, putMempoolTransaction, Broadcast, Relayable
<1>4. relays \in [Relayable -> Nat]
  BY DEF HInv, IInv, TypeOK
<1>5. transactionVerify(t)'
  BY <1>1, <1>3, StepGrown, TransactionStable DEF HInv, acceptable
<1>6. MempoolVerifies'
  BY <1>2, <1>3, <1>5 DEF MempoolVerifies
<1>7. MempoolConflictFree'
  BY <1>3 DEF HInv, MempoolConflictFree, acceptable, doTransactionsContainTXO
<1>8. relays[t] = 0
  <2>1. t \notin mempool /\ Spends(t) \subseteq unspentTransactionOutputSet
    BY <1>3 DEF acceptable, verifyInputsUnspent, isTransactionOutputSpent
  <2>2. Spends(t) \cap Spent(blocksByHeight) = {}
    BY <2>1 DEF HInv, IInv, UtxoExact
  <2>3. QED
    BY <1>3, <1>4, <2>1, <2>2 DEF HInv, RelayedSettled
<1>9. RelayedStored'
  BY <1>2, <1>3, <1>4, DataAssumption DEF HInv, RelayedStored, Relayable, chainVars
<1>10. RelayedOnce'
  BY <1>3, <1>4, <1>8 DEF HInv, RelayedOnce
<1>11. RelayedSettled'
  BY <1>2, <1>3, <1>4 DEF HInv, RelayedSettled, Relayable, chainVars
<1>12. HeightsServable'
  BY <1>2, <1>3 DEF HInv, HeightsServable, chainVars
<1>13. QED
  BY <1>2, <1>6, <1>7, <1>9, <1>10, <1>11, <1>12 DEF HInv

\* What the mempool loses while a candidate is assembled has an input spent.
LEMMA AssembleHistory ==
  ASSUME HInv, AssembleCandidate, ~\E b \in BlockHash : StoreBlock(b)
  PROVE  HInv'
<1>1. [Next]_nodeVars
  BY DEF Next
<1>2. IInv' /\ UNCHANGED chainVars /\ (\A b \in blocks' : blockVerify(b)')
      /\ \A u \in mempool : transactionVerify(u)'
  BY <1>1, ChainHistory
<1>3. PICK removed \in SUBSET {t \in mempool : ~Minable(t)} : mempool' = mempool \ removed
  BY DEF AssembleCandidate
<1>4. relays' = relays /\ heightsTold' = heightsTold
  BY DEF AssembleCandidate
<1>5. ASSUME NEW t \in TxHash, t \in removed
      PROVE  Spends(t) \cap Spent(blocksByHeight) # {}
  <2>1. t \in mempool /\ transactionVerify(t)
    BY <1>5 DEF HInv, MempoolVerifies
  <2>2. PICK o \in Spends(t) : o \notin unspentTransactionOutputSet
    BY <1>5, <2>1 DEF Minable, verifyInputsUnspent, isTransactionOutputSpent
  <2>3. o \in Created(blocksByHeight)
    BY <2>1, VerifiedSpendsCreated DEF HInv
  <2>4. QED
    BY <2>2, <2>3 DEF HInv, IInv, UtxoExact
<1>6. RelayedSettled'
  BY <1>2, <1>3, <1>4, <1>5 DEF HInv, RelayedSettled, chainVars
<1>7. MempoolVerifies' /\ MempoolConflictFree'
  BY <1>2, <1>3 DEF HInv, MempoolVerifies, MempoolConflictFree
<1>8. RelayedStored' /\ RelayedOnce' /\ HeightsServable'
  BY <1>2, <1>4 DEF HInv, RelayedStored, RelayedOnce, HeightsServable, chainVars
<1>9. QED
  BY <1>2, <1>6, <1>7, <1>8 DEF HInv

\* A step that leaves chain, mempool and relays alone.
LEMMA QuietHistory ==
  ASSUME HInv, [Next]_nodeVars, ~\E b \in BlockHash : StoreBlock(b),
         UNCHANGED <<mempool, relays>>, HeightsServable'
  PROVE  HInv'
<1>1. IInv' /\ UNCHANGED chainVars /\ (\A b \in blocks' : blockVerify(b)')
      /\ \A u \in mempool : transactionVerify(u)'
  BY ChainHistory
<1>2. MempoolVerifies' /\ MempoolConflictFree'
  BY <1>1 DEF HInv, MempoolVerifies, MempoolConflictFree
<1>3. RelayedStored' /\ RelayedOnce' /\ RelayedSettled'
  BY <1>1 DEF HInv, RelayedStored, RelayedOnce, RelayedSettled, chainVars
<1>4. QED
  BY <1>1, <1>2, <1>3 DEF HInv

\* HInv holds of every first state, ...
LEMMA HInvFirst ==
  ASSUME Init
  PROVE  HInv
BY IInvInductive DEF Init, StorageInit, HInv, MempoolVerifies, MempoolConflictFree,
   RelayedStored, RelayedOnce, RelayedSettled, HeightsServable, Relayable

\* ... every step keeps it, ...
LEMMA HInvStep ==
  ASSUME HInv, [Next]_nodeVars
  PROVE  HInv'
<1>1. CASE \E b \in BlockHash : StoreBlock(b)
  BY <1>1, StoreBlockHistory
<1>2. CASE ~\E b \in BlockHash : StoreBlock(b)
  <2>1. UNCHANGED chainVars
    BY <1>2, ChainHistory
  <2>2. ASSUME NEW b \in BlockHash, DiscardLowBlock(b)
        PROVE  HInv'
    <3>1. blockheight \in 0 .. blockheight \/ blockheight = -1
      BY DEF HInv, IInv, ViewsAgree
    <3>2. HeightsServable'
      BY <2>1, <2>2, <3>1 DEF DiscardLowBlock, HInv, HeightsServable, chainVars
    <3>3. UNCHANGED <<mempool, relays>>
      BY <2>2 DEF DiscardLowBlock, storageVars
    <3>4. QED
      BY <1>2, <3>2, <3>3, QuietHistory
  <2>3. ASSUME NEW t \in TxHash, StoreTransaction(t)
        PROVE  HInv'
    BY <1>2, <2>3, StoreTransactionHistory
  <2>4. ASSUME AssembleCandidate
        PROVE  HInv'
    BY <1>2, <2>4, AssembleHistory
  <2>5. ASSUME UNCHANGED <<storageVars, relays, heightsTold>>
        PROVE  HInv'
    <3>1. UNCHANGED <<mempool, relays>>
      BY <2>5 DEF storageVars
    <3>2. HeightsServable'
      BY <2>1, <2>5 DEF HInv, HeightsServable, chainVars
    <3>3. QED
      BY <1>2, <3>1, <3>2, QuietHistory
  <2>6. QED
    BY <1>2, <2>2, <2>3, <2>4, <2>5 DEF Next, ReceiveBlock, DiscardInvalidBlock,
       ReceiveTransaction, DiscardTransaction, nodeVars
<1>3. QED
  BY <1>1, <1>2

\* ... and so every state has it.
LEMMA HInvInductive ==
  /\ Init => HInv
  /\ HInv /\ [Next]_nodeVars => HInv'
BY HInvFirst, HInvStep

\* BlockchainStorage.verify of a node's chain never turns false.
THEOREM NodeChainKeepsVerifying == Spec => []ChainKeepsVerifying
<1>1. HInv => ChainKeepsVerifying
  <2> SUFFICES ASSUME HInv, NEW i \in DOMAIN blocksByHeight
               PROVE  blocksByHeight[i] # NoBlock /\ blockVerify(blocksByHeight[i])
    BY DEF ChainKeepsVerifying, storageVerify
  <2>1. blocksByHeight[i] \in BlockHash /\ blocksByHeight[i] \in blocks
    BY DEF HInv, IInv, ViewsAgree
  <2>2. QED
    BY <2>1, DataAssumption DEF HInv
<1>2. QED
  BY <1>1, HInvInductive, PTL DEF Spec

\* No two pending transactions spend one output.
THEOREM NodeMempoolConflictFree == Spec => []MempoolConflictFree
<1>1. HInv => MempoolConflictFree
  BY DEF HInv
<1>2. QED
  BY <1>1, HInvInductive, PTL DEF Spec

\* A pending transaction keeps verifying: Transaction.verify reads nothing that
\* is ever taken back, and does not look at the UTXO set.
THEOREM NodeMempoolVerifies == Spec => []MempoolVerifies
<1>1. HInv => MempoolVerifies
  BY DEF HInv
<1>2. QED
  BY <1>1, HInvInductive, PTL DEF Spec

\* A node relays a block or a transaction once at most, however often peers
\* send it and although the mempool forgets.
THEOREM NodeRelayedOnce == Spec => []RelayedOnce
<1>1. HInv => RelayedOnce
  BY DEF HInv
<1>2. QED
  BY <1>1, HInvInductive, PTL DEF Spec

\* The heights a node told its peers stay below the height of its chain.
THEOREM NodeHeightsServable == Spec => []HeightsServable
<1>1. HInv => HeightsServable
  BY DEF HInv
<1>2. QED
  BY <1>1, HInvInductive, PTL DEF Spec

-----------------------------------------------------------------------------
(* Value: fees move it, rewards create it                                  *)

\* The unspent outputs are coins and what the blocks minted covers them.
VInv ==
  /\ HInv
  /\ Coins(unspentTransactionOutputSet)
  /\ Worth(unspentTransactionOutputSet) <= Minted(blocksByHeight)

\* What the block at place i of a chain mints, for a fixed chain.
Mints(chain) == [i \in DOMAIN chain |-> calculateBlockReward(i - 1) + OverflowIn(chain[i])]

LEMMA MintsType ==
  ASSUME NEW chain \in Seq(BlockHash)
  PROVE  /\ IsFiniteSet(DOMAIN chain) /\ Integral(Mints(chain), DOMAIN chain)
         /\ Minted(chain) = SumFunctionOnSet(Mints(chain), DOMAIN chain)
<1>1. DOMAIN chain = 1 .. Len(chain) /\ Len(chain) \in Int
  OBVIOUS
<1>2. IsFiniteSet(DOMAIN chain)
  <2>1. IsFiniteSet(1 .. Len(chain))
    BY <1>1, FS_Interval
  <2>2. QED
    BY <1>1, <2>1
<1>3. ASSUME NEW i \in DOMAIN chain
      PROVE  Mints(chain)[i] \in Int
  <2>1. i - 1 \in Int /\ chain[i] \in BlockHash
    BY <1>1
  <2>2. calculateBlockReward(i - 1) \in Nat /\ OverflowIn(chain[i]) \in Int
    BY <2>1, RewardType, OverflowInType
  <2>3. QED
    BY <2>2 DEF Mints
<1>4. Minted(chain) = SumFunctionOnSet(Mints(chain), DOMAIN chain)
  BY DEF Minted, Mints, SumFunction
<1>5. QED
  BY <1>2, <1>3, <1>4 DEF Integral

\* What one block more mints.
LEMMA MintedStep ==
  ASSUME NEW chain \in Seq(BlockHash), NEW b \in BlockHash
  PROVE  /\ Minted(<< >>) = 0 /\ Minted(chain) \in Int
         /\ Minted(Append(chain, b))
              = Minted(chain) + calculateBlockReward(Len(chain)) + OverflowIn(b)
<1> DEFINE new == Append(chain, b)
           D == DOMAIN chain
           n == Len(chain) + 1
           f == Mints(chain)
           g == Mints(new)
<1>1. /\ new \in Seq(BlockHash) /\ DOMAIN new = D \cup {n} /\ n \notin D
      /\ \A i \in D : new[i] = chain[i]
      /\ new[n] = b /\ n - 1 = Len(chain)
  BY AppendBlock
<1>2. g[n] = calculateBlockReward(Len(chain)) + OverflowIn(b)
  BY <1>1 DEF Mints
<1>3. \A i \in D : f[i] = g[i]
  BY <1>1 DEF Mints
<1>4. << >> \in Seq(BlockHash) /\ DOMAIN << >> = {}
  OBVIOUS
<1>5. calculateBlockReward(Len(chain)) \in Int /\ OverflowIn(b) \in Int
  <2>1. Len(chain) \in Int
    OBVIOUS
  <2>2. QED
    BY <2>1, RewardType, OverflowInType
<1> HIDE DEF f, g, new, D, n
<1>6. /\ IsFiniteSet(D) /\ Integral(f, D) /\ Minted(chain) = SumFunctionOnSet(f, D)
      /\ IsFiniteSet(D \cup {n}) /\ Integral(g, D \cup {n})
      /\ Minted(new) = SumFunctionOnSet(g, D \cup {n})
  <2>1. /\ IsFiniteSet(D) /\ Integral(f, D) /\ Minted(chain) = SumFunctionOnSet(f, D)
    BY MintsType DEF f, D
  <2>2. /\ IsFiniteSet(DOMAIN new) /\ Integral(g, DOMAIN new)
        /\ Minted(new) = SumFunctionOnSet(g, DOMAIN new)
    BY <1>1, MintsType DEF g
  <2>3. QED
    BY <1>1, <2>1, <2>2
<1>7. Minted(<< >>) = 0
  BY <1>4, MintsType, SumSplit
<1>8. SumFunctionOnSet(g, D \cup {n}) = g[n] + SumFunctionOnSet(g, D)
  <2>1. D \in SUBSET (D \cup {n}) /\ n \in (D \cup {n}) \ D
    BY <1>1
  <2>2. QED
    BY <1>6, <2>1, SumAdd
<1>9. SumFunctionOnSet(f, D) = SumFunctionOnSet(g, D) /\ SumFunctionOnSet(f, D) \in Int
  BY <1>3, <1>6, SumSame, SumSplit
<1>10. QED
  BY <1>2, <1>5, <1>6, <1>7, <1>8, <1>9 DEF new

\* The sum that ValueConserved compares.
LEMMA ValueSums ==
  ASSUME Coins(unspentTransactionOutputSet)
  PROVE  ValueConserved
           <=> Worth(unspentTransactionOutputSet) <= Minted(blocksByHeight)
<1> DEFINE U == unspentTransactionOutputSet
           f == [o \in U |-> OutputsOf(o[1])[o[2] + 1].Amount]
<1>1. SumFunctionOnSet(f, U) = Worth(U)
  <2>1. IsFiniteSet(U) /\ Integral(Amounts, U)
    BY CoinsParts DEF Coins
  <2>2. \A o \in U : Amounts[o] = f[o]
    BY DEF Amounts, Coins
  <2> HIDE DEF f
  <2>3. QED
    BY <2>1, <2>2, SumSame DEF Worth
<1>2. SumFunction(f) = SumFunctionOnSet(f, U)
  BY DEF SumFunction
<1>3. ValueConserved <=> SumFunction(f) <= Minted(blocksByHeight)
  BY DEF ValueConserved
<1> HIDE DEF f
<1>4. QED
  BY <1>1, <1>2, <1>3

\* A block adds its reward: what it takes in, the UTXO set gives.
LEMMA StoreKeepsValue ==
  ASSUME VInv, NEW b \in BlockHash, StoreBlock(b)
  PROVE  VInv'
<1> DEFINE U == unspentTransactionOutputSet
           n == Len(blocksByHeight)
           new == Append(blocksByHeight, b)
<1>1. /\ HInv' /\ CanExtend(blocksByHeight, b) /\ blocksByHeight' = new
      /\ blocksByHeight \in Seq(BlockHash)
  BY StoreBlockHistory, StoreKeepsIInv DEF VInv, HInv, IInv
<1>2. /\ n \in Nat /\ BlockOf[b].BlockHeight = n /\ Len(new) = n + 1
      /\ n + 1 \in DOMAIN new /\ new[n + 1] = b
  BY <1>1, AppendBlock DEF CanExtend, LinksTo
<1>3. U' = (U \ SpentBy(b)) \cup CreatedBy(b)
  <2>1. CreatedBy(b) \cap SpentBy(b) = {}
    BY <1>1, ExtendCreatesFresh DEF VInv, HInv, IInv
  <2>2. U' = UnspentAfter(U, TxsOf(b))
    BY DEF StoreBlock, putBlock
  <2>3. QED
    BY <2>1, <2>2, UnspentAfterBlock
<1>4. Distinct(TxsOf(b))
  <2>1. TransactionsOnceIn(new)
    BY <1>1, SpentOnceTransactionsOnce DEF HInv, IInv
  <2> HIDE DEF new
  <2>2. QED
    BY <1>2, <2>1 DEF TransactionsOnceIn, Distinct
<1>5. blockVerify(b)
  BY DEF StoreBlock
<1>6. SpentByOthers(b) \subseteq U
  BY DEF StoreBlock, verifyTransactionsUnspent, verifyInputsUnspent, isTransactionOutputSpent,
         SpentByOthers
<1>7. /\ Minted(blocksByHeight) \in Int /\ calculateBlockReward(n) \in Nat
      /\ Minted(new) = Minted(blocksByHeight) + calculateBlockReward(n) + OverflowIn(b)
  <2>1. n \in Int
    BY <1>2
  <2> HIDE DEF n
  <2>2. calculateBlockReward(n) \in Nat
    BY <2>1, RewardType
  <2>3. QED
    BY <1>1, <2>2, MintedStep DEF n
<1>8. Coins(U) /\ Worth(U) \in Nat /\ Worth(U) <= Minted(blocksByHeight)
  BY CoinsParts DEF VInv
<1>9. Coins(U') /\ Worth(U') \in Int
  <2>2. Coins(CreatedBy(b))
    BY <1>5, BlockCreatesCoins
  <2>3. Coins(U \ SpentBy(b))
    BY <1>8, CoinsParts
  <2>4. Coins(U')
    BY <1>3, <2>2, <2>3, CoinsCover
  <2>5. \A S : Coins(S) => Worth(S) \in Nat
    BY CoinsParts
  <2>6. QED
    BY <2>4, <2>5
<1>10. Worth(U') <= Worth(U) + calculateBlockReward(n) + OverflowIn(b) /\ OverflowIn(b) \in Int
  <2> HIDE DEF U, n
  <2>1. /\ OverflowIn(b) \in Int
        /\ Worth((U \ SpentBy(b)) \cup CreatedBy(b))
             <= Worth(U) + calculateBlockReward(BlockOf[b].BlockHeight) + OverflowIn(b)
    BY <1>4, <1>5, <1>6, <1>8, BlockWorth
  <2>2. QED
    BY <1>2, <1>3, <2>1
<1>11. Worth(U') <= Minted(new)
  BY <1>7, <1>8, <1>9, <1>10
<1>12. QED
  BY <1>1, <1>9, <1>11 DEF VInv, Worth, Minted, Mints, Coins, Amounts

\* The worth of the UTXO set stays covered.
LEMMA VInvInductive ==
  /\ Init => VInv
  /\ VInv /\ [Next]_nodeVars => VInv'
<1>1. Init => VInv
  <2> SUFFICES ASSUME Init
               PROVE  VInv
    OBVIOUS
  <2>1. HInv
    BY HInvInductive
  <2>2. unspentTransactionOutputSet = {}
    BY DEF Init, StorageInit
  <2>3. Coins({})
    BY FS_EmptySet DEF Coins
  <2>4. Worth({}) = 0
    <3>1. IsFiniteSet({}) /\ Integral(Amounts, {})
      BY <2>3 DEF Coins, Integral
    <3>2. QED
      BY <3>1, SumSplit DEF Worth
  <2>5. Minted(<< >>) = 0 /\ blocksByHeight = << >>
    <3>1. << >> \in Seq(BlockHash) /\ DOMAIN << >> = {}
      OBVIOUS
    <3>2. Minted(<< >>) = 0
      BY <3>1, MintsType, SumSplit
    <3>3. QED
      BY <3>2 DEF Init, StorageInit
  <2>6. QED
    BY <2>1, <2>2, <2>3, <2>4, <2>5 DEF VInv
<1>2. VInv /\ [Next]_nodeVars => VInv'
  <2> SUFFICES ASSUME VInv, [Next]_nodeVars
               PROVE  VInv'
    OBVIOUS
  <2>1. CASE \E b \in BlockHash : StoreBlock(b)
    BY <2>1, StoreKeepsValue
  <2>2. CASE ~\E b \in BlockHash : StoreBlock(b)
    <3>1. HInv'
      BY HInvInductive DEF VInv
    <3>2. UNCHANGED chainVars
      BY <2>2, OthersLeaveChain DEF VInv, HInv
    <3>3. QED
      BY <3>1, <3>2 DEF VInv, chainVars
  <2>3. QED
    BY <2>1, <2>2
<1>3. QED
  BY <1>1, <1>2

\* The unspent outputs of a node are never worth more than the rewards of its
\* blocks and what wrapping totals of outputs hide: fees move value, they do not
\* create it, and no other unchecked sum does.
THEOREM NodeValueConserved == Spec => []ValueConserved
<1>1. VInv => ValueConserved
  BY ValueSums DEF VInv
<1>2. QED
  BY <1>1, VInvInductive, PTL DEF Spec
=============================================================================
