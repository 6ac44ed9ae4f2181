---------------------------- MODULE MCSingleFile ----------------------------
(* The lives of a node over a chain of two blocks and a fork.              *)
EXTENDS SingleFile, Universe

MCBlockHash  == {"g", "a1", "b1", "a2"}
MCTxHash     == {"cg", "ca", "cb", "ca2", "t1", "u1", "t2"}
MCBlockOf    == [b \in MCBlockHash |-> UniverseBlockOf[b]]
MCTxOf       == [t \in MCTxHash |-> UniverseTxOf[t]]
MCClockTimes == {300, 700}
=============================================================================
