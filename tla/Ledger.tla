------------------------------- MODULE Ledger -------------------------------
(***************************************************************************)
(* What a UISCoin node promises about its chain, whatever peers send it:   *)
(* one growing sequence of linked blocks in which every block spends only  *)
(* what earlier blocks created and nobody has spent yet. The storage, the  *)
(* event loops and the network are implementations of this module.         *)
(***************************************************************************)
EXTENDS Chains

VARIABLE chain   \* the blocks, genesis first

Init == chain = << >>

Extend(b) ==
  /\ CanExtend(chain, b)
  /\ chain' = Append(chain, b)

Next == \E b \in BlockHash : Extend(b)

Spec == Init /\ [][Next]_chain

-----------------------------------------------------------------------------
TypeOK == chain \in Seq(BlockHash)

\* The chain is sound: linked, no output spent twice, no transaction at two
\* places. Block.verify looks for a double spend within one block and
\* verifyTransactionsUnspent against the UTXO set; only together do they give
\* it for the chain.
Sound ==
  /\ Linked(chain)
  /\ SpentOnceIn(chain)
  /\ TransactionsOnceIn(chain)
=============================================================================
