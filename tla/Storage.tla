------------------------------ MODULE Storage -------------------------------
(***************************************************************************)
(* BlockchainStorageInMemory: the collections a node keeps its chain in,   *)
(* and the operations of the BlockchainStorage interface that change or    *)
(* decide something. Java's maps and sets become sets and functions;       *)
(* blocksByHeight stays a sequence because putBlock pads it with nulls.    *)
(***************************************************************************)
EXTENDS Chains, SequencesExt

VARIABLES
  blockheight,                   \* AtomicInteger, -1 while the chain is empty
  blocks,                        \* the keys of the map from hash to block
  blocksByHeight,                \* the list of blocks, height h at h + 1
  blockHashesByTransaction,      \* transaction hash -> hash of its block
  unspentTransactionOutputSet,   \* the UTXO set
  mempool                        \* the keys of the mempool map

chainVars == <<blockheight, blocks, blocksByHeight, blockHashesByTransaction,
               unspentTransactionOutputSet>>

storageVars == <<chainVars, mempool>>

StorageInit ==
  /\ blockheight = -1
  /\ blocks = {}
  /\ blocksByHeight = << >>
  /\ blockHashesByTransaction = [t \in TxHash |-> NoBlock]
  /\ unspentTransactionOutputSet = {}
  /\ mempool = {}

StorageTypeOK ==
  /\ blockheight \in Int
  /\ blocks \subseteq BlockHash
  /\ blocksByHeight \in Seq(BlockHash \cup {NoBlock})
  /\ blockHashesByTransaction \in [TxHash -> BlockHash \cup {NoBlock}]
  /\ unspentTransactionOutputSet \subseteq TransactionOutputIdentifier
  /\ mempool \subseteq TxHash

-----------------------------------------------------------------------------
(* Reading                                                                 *)

hasBlock(b) == b \in blocks

\* getTransaction returns, instead of throwing NoSuchTransactionException or
\* NoSuchBlockException.
canGetTransaction(t) ==
  /\ t \in TxHash
  /\ blockHashesByTransaction[t] \in blocks

isTransactionOutputSpent(o) == o \notin unspentTransactionOutputSet

\* getHighestBlock and getHighestBlockHash return a block: no exception and no
\* null.
canGetHighestBlock ==
  /\ blockheight + 1 \in DOMAIN blocksByHeight
  /\ blocksByHeight[blockheight + 1] # NoBlock

-----------------------------------------------------------------------------
(* Writing                                                                 *)

\* blocksByHeight once b stands at its height, padded with nulls up to it.
AtHeight(list, b) ==
  LET h == BlockOf[b].BlockHeight
  IN  [i \in 1 .. (IF h + 1 > Len(list) THEN h + 1 ELSE Len(list)) |->
         CASE i = h + 1     -> b
           [] i \in DOMAIN list /\ i # h + 1 -> list[i]
           [] OTHER         -> NoBlock]

\* Slip: what was spent stays in the set.
UnspentAfterKeeping(unspent, txs) == unspent \cup UNION {Creates(txs[k]) : k \in DOMAIN txs}

\* The UTXO set after the transactions txs, in order: each removes what it
\* spends and then adds what it creates, so the last of them that touches an
\* outpoint decides.
UnspentAfter(unspent, txs) ==
  {o \in unspent : \A k \in DOMAIN txs : o \notin Spends(txs[k])}
  \cup
  UNION {{o \in Creates(txs[k]) :
            \A j \in DOMAIN txs : j > k => o \notin Spends(txs[j])}
         : k \in DOMAIN txs}

\* Slip: the coinbase is left out of the index.
IndexedWithoutCoinbase(index, b) ==
  [t \in TxHash |-> IF \E k \in 2 .. Len(TxsOf(b)) : TxsOf(b)[k] = t
                    THEN b ELSE index[t]]

\* Slip: indexed under the hash of the previous block.
IndexedUnderPrevious(index, b) ==
  [t \in TxHash |-> IF \E k \in DOMAIN TxsOf(b) : TxsOf(b)[k] = t
                    THEN BlockOf[b].HashPreviousBlock ELSE index[t]]

Indexed(index, b) ==
  [t \in TxHash |-> IF \E k \in DOMAIN TxsOf(b) : TxsOf(b)[k] = t
                    THEN b ELSE index[t]]

\* putBlock checks nothing and leaves the mempool alone.
putBlock(b) ==
  /\ blockheight' = BlockOf[b].BlockHeight
  /\ blocks' = blocks \cup {b}
  /\ blocksByHeight' = AtHeight(blocksByHeight, b)
  /\ blockHashesByTransaction' = Indexed(blockHashesByTransaction, b)
  /\ unspentTransactionOutputSet' =
       UnspentAfter(unspentTransactionOutputSet, TxsOf(b))
  /\ UNCHANGED mempool

putMempoolTransaction(t) ==
  /\ mempool' = mempool \cup {t}
  /\ UNCHANGED chainVars

\* The UTXO set computed from scratch, block after block.
buildUnspentTransactionOutputSet ==
  FoldLeft(LAMBDA unspent, b : UnspentAfter(unspent, TxsOf(b)),
           {}, blocksByHeight)
=============================================================================
