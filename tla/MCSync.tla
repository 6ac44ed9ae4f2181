------------------------------- MODULE MCSync -------------------------------
(* Two nodes, and the shortest chains that show what they do.              *)
EXTENDS Sync, Universe

CONSTANTS n1, n2

MCPair       == {n1, n2}
MCPairLinks  == {{n1, n2}}

MCFirst      == {"g"}
MCFork       == {"g", "a1", "b1", "k2"}
MCTxHash     == {"cg", "ca", "cb", "ca2", "t1", "u1", "t2", "s1"}
MCFirstOf    == [b \in MCFirst |-> UniverseBlockOf[b]]
MCForkOf     == [b \in MCFork |-> UniverseBlockOf[b]]
MCTxOf       == [t \in MCTxHash |-> UniverseTxOf[t]]
=============================================================================
