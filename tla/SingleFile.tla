----------------------------- MODULE SingleFile -----------------------------
(***************************************************************************)
(* A node whose chain is kept by BlockchainStorageSingleFile, through its  *)
(* lives: the application constructs the storage, opens it, runs a node on *)
(* it and closes it, and the process may die at any moment. The chain is   *)
(* written by close alone, in one call that first empties the file; the    *)
(* mempool is never written.                                               *)
(***************************************************************************)
EXTENDS Node

CONSTANT AppOpens   \* whether the application calls open before it runs a node

ASSUME LifeAssumption == AppOpens \in BOOLEAN

VARIABLES
  phase,         \* what the process is doing with the storage
  file,          \* what is on the disk
  saved,         \* the chain the last successful close wrote
  diskFailed     \* whether reading or writing the file ever failed

lifeVars == <<phase, file, saved, diskFailed>>
vars == <<nodeVars, lifeVars>>

Missing      == [kind |-> "missing"]
Torn         == [kind |-> "torn"]        \* emptied and not yet written again
Whole(chain) == [kind |-> "whole", chain |-> chain]

Phases == {"off", "constructed", "opened", "running", "closing", "closed"}

LifeTypeOK ==
  /\ TypeOK
  /\ phase \in Phases
  /\ \/ file \in {Missing, Torn}
     \/ file.kind = "whole" /\ file.chain \in Seq(BlockHash)
  /\ saved \in Seq(BlockHash)
  /\ diskFailed \in BOOLEAN

LifeInit ==
  /\ Init
  /\ phase = "off"
  /\ file = Missing
  /\ saved = << >>
  /\ diskFailed = FALSE

-----------------------------------------------------------------------------
\* The process is gone, and with it everything that was only in memory.
Forget ==
  /\ phase' = "off"
  /\ blockheight' = -1
  /\ blocks' = {}
  /\ blocksByHeight' = << >>
  /\ blockHashesByTransaction' = [t \in TxHash |-> NoBlock]
  /\ unspentTransactionOutputSet' = {}
  /\ mempool' = {}
  /\ relays' = [item \in Relayable |-> 0]
  /\ heightsTold' = {}
  /\ UNCHANGED clock

\* The constructor only remembers the path.
Construct ==
  /\ phase = "off"
  /\ phase' = "constructed"
  /\ UNCHANGED <<nodeVars, file, saved, diskFailed>>

-----------------------------------------------------------------------------
(* open                                                                    *)

\* Slip: the UTXO set is not kept up while the file is read.
LoadWithoutUnspent(chain) ==
  /\ blockheight' = FoldLeft(LAMBDA height, b : BlockOf[b].BlockHeight, blockheight, chain)
  /\ blocks' = blocks \cup {chain[i] : i \in DOMAIN chain}
  /\ blocksByHeight' = FoldLeft(AtHeight, blocksByHeight, chain)
  /\ blockHashesByTransaction' = FoldLeft(Indexed, blockHashesByTransaction, chain)
  /\ UNCHANGED <<unspentTransactionOutputSet, mempool>>

Load(chain) ==
  /\ blockheight' = FoldLeft(LAMBDA height, b : BlockOf[b].BlockHeight, blockheight, chain)
  /\ blocks' = blocks \cup {chain[i] : i \in DOMAIN chain}
  /\ blocksByHeight' = FoldLeft(AtHeight, blocksByHeight, chain)
  /\ blockHashesByTransaction' = FoldLeft(Indexed, blockHashesByTransaction, chain)
  /\ unspentTransactionOutputSet' =
       FoldLeft(LAMBDA unspent, b : UnspentAfter(unspent, TxsOf(b)),
                unspentTransactionOutputSet, chain)
  /\ UNCHANGED mempool

\* Slip: a file that is there is not read.
OpenEmptyAlways ==
  /\ phase' = "opened"
  /\ UNCHANGED <<nodeVars, diskFailed>>

\* An IOException is printed and forgotten: open has nothing and returns true.
OpenEmpty ==
  /\ phase' = "opened"
  /\ diskFailed' = (diskFailed \/ file # Missing)
  /\ UNCHANGED nodeVars

OpenWhole ==
  /\ file.kind = "whole"
  /\ Load(file.chain)
  /\ phase' = "opened"
  /\ UNCHANGED <<clock, relays, heightsTold, diskFailed>>

\* Reading past the end of a torn file throws what open does not catch.
OpenTorn == file = Torn /\ Forget /\ UNCHANGED diskFailed

Open ==
  /\ AppOpens
  /\ phase = "constructed"
  /\ OpenEmpty \/ OpenWhole \/ OpenTorn
  /\ UNCHANGED <<file, saved>>

-----------------------------------------------------------------------------
(* Running and closing                                                     *)

\* The constructor of UISCoinNode would open a storage that is not
\* operational, but this one says it always is.
StartNode ==
  /\ phase = IF AppOpens THEN "opened" ELSE "constructed"
  /\ phase' = "running"
  /\ UNCHANGED <<nodeVars, file, saved, diskFailed>>

Run ==
  /\ phase = "running"
  /\ Next
  /\ UNCHANGED lifeVars

CloseTruncate ==
  /\ phase = "running"
  /\ phase' = "closing"
  /\ file' = Torn
  /\ UNCHANGED <<nodeVars, saved, diskFailed>>

\* Files.write without success: the exception is printed, close returns true.
CloseFails ==
  /\ phase \in {"running", "closing"}
  /\ phase' = "closed"
  /\ diskFailed' = TRUE
  /\ UNCHANGED <<nodeVars, file, saved>>

\* Slips: the height after the last is written too; the last block is left out.
CloseWritePastEnd ==
  /\ phase = "closing"
  /\ phase' = "closed"
  /\ file' = Whole(Append(blocksByHeight, NoBlock))
  /\ saved' = blocksByHeight
  /\ UNCHANGED <<nodeVars, diskFailed>>

CloseWriteShort ==
  /\ phase = "closing"
  /\ phase' = "closed"
  /\ file' = Whole(SubSeq(blocksByHeight, 1, blockheight))
  /\ saved' = blocksByHeight
  /\ UNCHANGED <<nodeVars, diskFailed>>

CloseWrite ==
  /\ phase = "closing"
  /\ phase' = "closed"
  /\ file' = Whole(blocksByHeight)
  /\ saved' = blocksByHeight
  /\ UNCHANGED <<nodeVars, diskFailed>>

\* The process ends, in order or not.
Die ==
  /\ phase # "off"
  /\ Forget
  /\ UNCHANGED <<file, saved, diskFailed>>

LifeNext ==
  Construct \/ Open \/ StartNode \/ Run \/ CloseTruncate \/ CloseWrite \/ CloseFails \/ Die

LifeSpec == LifeInit /\ [][LifeNext]_vars

-----------------------------------------------------------------------------
\* What open restores is as good as what was received: the views agree, the
\* UTXO set is exact and what a rebuild would make it, no output is spent twice,
\* and every block still verifies.
RestoredWell ==
  /\ ViewsAgree /\ UtxoExact /\ UtxoMatchesRebuild
  /\ ChainSound /\ ChainKeepsVerifying

\* What was once saved is never replaced by something that does not extend it,
\* through any number of restarts and crashes, as long as the disk never fails.
\* A crash inside close leaves a torn file, which no longer holds a chain and
\* which open refuses.
SavedSurvives == file.kind = "whole" /\ ~diskFailed => IsPrefix(saved, file.chain)

\* What successive closes write only grows: a life that starts from the file
\* never saves less than it read.
SavedOnlyGrows == [][diskFailed' \/ IsPrefix(saved, saved')]_vars
=============================================================================
