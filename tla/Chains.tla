------------------------------- MODULE Chains -------------------------------
(***************************************************************************)
(* What it takes for a block to extend a chain of blocks, and what makes a *)
(* chain sound: facts about sequences of block hashes, no state.           *)
(***************************************************************************)
EXTENDS Blocks

\* What a block, and a sequence of blocks, creates and spends.
CreatedBy(b) == UNION {Creates(TxsOf(b)[k]) : k \in DOMAIN TxsOf(b)}
SpentBy(b)   == UNION {Spends(TxsOf(b)[k]) : k \in DOMAIN TxsOf(b)}

\* What the outputs of a transaction, and of all in a block, are worth beyond what
\* getOutputTotal says: nothing, unless they add up past a long and it wraps.
Overflow(t) ==
  SumFunction([i \in DOMAIN OutputsOf(t) |-> OutputsOf(t)[i].Amount]) - getOutputTotal(t)

OverflowIn(b) == SumFunction([k \in DOMAIN TxsOf(b) |-> Overflow(TxsOf(b)[k])])

\* The reward of every block of a chain, and what the totals of its outputs hide.
Minted(chain) ==
  SumFunction([i \in DOMAIN chain |-> calculateBlockReward(i - 1) + OverflowIn(chain[i])])

Created(chain) == UNION {CreatedBy(chain[i]) : i \in DOMAIN chain}
Spent(chain)   == UNION {SpentBy(chain[i]) : i \in DOMAIN chain}

\* Slip: the set of inputs seen starts anew with every transaction.
SpendsOnceWithin(txs) ==
  \A k \in 2 .. Len(txs) : \A m, n \in DOMAIN InputsOf(txs[k]) :
    OutpointOf(InputsOf(txs[k])[m]) = OutpointOf(InputsOf(txs[k])[n]) => m = n

\* No outpoint is an input twice, be it of two transactions or of one. The
\* coinbase is not looked at.
SpendsOnce(txs) ==
  \A j, k \in 2 .. Len(txs) :
    \A m \in DOMAIN InputsOf(txs[j]), n \in DOMAIN InputsOf(txs[k]) :
      OutpointOf(InputsOf(txs[j])[m]) = OutpointOf(InputsOf(txs[k])[n])
        => j = k /\ m = n

-----------------------------------------------------------------------------
(* Extending a chain                                                       *)

LinksTo(chain, b) ==
  /\ BlockOf[b].BlockHeight = Len(chain)
  /\ chain # << >> => BlockOf[b].HashPreviousBlock = chain[Len(chain)]

\* The first transaction is the coinbase: its one input holds the height.
CoinbaseAt(height, txs) ==
  /\ txs # << >>
  /\ Len(InputsOf(txs[1])) = 1
  /\ OutpointOf(InputsOf(txs[1])[1]) = <<ZeroHash, height>>

\* The others spend what the chain has left unspent, each outpoint once.
SpendsUnspentOf(chain, txs) ==
  /\ \A k \in 2 .. Len(txs) :
       /\ InputsOf(txs[k]) # << >>
       /\ Spends(txs[k]) \subseteq Created(chain) \ Spent(chain)
  /\ SpendsOnce(txs)

CanExtend(chain, b) ==
  /\ LinksTo(chain, b)
  /\ CoinbaseAt(Len(chain), TxsOf(b))
  /\ SpendsUnspentOf(chain, TxsOf(b))

-----------------------------------------------------------------------------
(* Sound chains                                                            *)

\* Heights count the blocks and every block names the one before it.
Linked(chain) ==
  \A i \in DOMAIN chain :
    /\ BlockOf[chain[i]].BlockHeight = i - 1
    /\ i > 1 => BlockOf[chain[i]].HashPreviousBlock = chain[i - 1]

\* The outpoint at input m of transaction k of block i.
OutpointAt(chain, i, k, m) == OutpointOf(InputsOf(TxsOf(chain[i])[k])[m])

\* No outpoint is the input of two places of the chain.
SpentOnceIn(chain) ==
  \A i, j \in DOMAIN chain :
    \A k \in DOMAIN TxsOf(chain[i]), l \in DOMAIN TxsOf(chain[j]) :
      \A m \in DOMAIN InputsOf(TxsOf(chain[i])[k]),
         n \in DOMAIN InputsOf(TxsOf(chain[j])[l]) :
        OutpointAt(chain, i, k, m) = OutpointAt(chain, j, l, n)
          => i = j /\ k = l /\ m = n

\* A transaction stands at one place of the chain, so the index of blocks by
\* transaction and the outpoints <<transaction, index>> are unambiguous.
TransactionsOnceIn(chain) ==
  \A i, j \in DOMAIN chain :
    \A k \in DOMAIN TxsOf(chain[i]), l \in DOMAIN TxsOf(chain[j]) :
      TxsOf(chain[i])[k] = TxsOf(chain[j])[l] => i = j /\ k = l
=============================================================================
