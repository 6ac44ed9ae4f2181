---------------------------- MODULE MCEventLoops ----------------------------
(* Event loops over the part of Universe that verifies, and one block that *)
(* spends an output again.                                                 *)
EXTENDS EventLoops, Universe, TLC

MCBlockHash  == {"g", "a1", "b1", "a2", "a2x"}
MCTxHash     == {"cg", "ca", "cb", "ca2", "t1", "u1", "t2"}
MCBlockOf    == [b \in MCBlockHash |-> UniverseBlockOf[b]]
MCTxOf       == [t \in MCTxHash |-> UniverseTxOf[t]]
MCClockTimes == {300, 700}

\* The chain that is two blocks long.
MCLongBlockHash  == {"g", "a1", "a2"}
MCLongTxHash     == {"cg", "ca", "ca2", "t1", "t2"}
MCLongBlockOf    == [b \in MCLongBlockHash |-> UniverseBlockOf[b]]
MCLongTxOf       == [t \in MCLongTxHash |-> UniverseTxOf[t]]
MCLastClockTimes == {700}

\* A block that spends nothing of its predecessor, so that one could do without it.
MCSideBlockHash == {"g", "a1", "k2"}
MCSideTxHash    == {"cg", "ca", "ca2", "t1", "s1"}
MCSideBlockOf   == [b \in MCSideBlockHash |-> UniverseBlockOf[b]]
MCSideTxOf      == [t \in MCSideTxHash |-> UniverseTxOf[t]]

MCSymmetry   == Permutations(EventLoops)
=============================================================================
