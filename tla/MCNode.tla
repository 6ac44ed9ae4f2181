------------------------------- MODULE MCNode -------------------------------
(* The node over the blocks and transactions of Universe.                  *)
EXTENDS Node, Universe

MCBlockHash  == DOMAIN UniverseBlockOf
MCTxHash     == DOMAIN UniverseTxOf
MCClockTimes == {0, 300, 700}
=============================================================================
