-------------------------------- MODULE Sync --------------------------------
(***************************************************************************)
(* The peer protocol by which the chains of several nodes grow together:   *)
(* blocks are broadcast when they are stored, heights are asked for and    *)
(* told, and a node that hears of a larger height asks for what it lacks.  *)
(*                                                                         *)
(* A node is its chain (a Ledger, which Node is shown to implement): it    *)
(* stores exactly the blocks that extend its chain. A connection is two    *)
(* FIFO channels. Each message is handled in one step, except that the     *)
(* highest seen height is read in one step and set in another: event loops *)
(* of other connections of the same node come in between.                  *)
(***************************************************************************)
EXTENDS Chains, SequencesExt

CONSTANTS
  Nodes,
  Links,       \* the pairs of nodes that know of each other
  Askers,      \* the nodes whose application asks its peers
  MaxAsks,     \* how often the applications ask
  MaxDrops     \* how often the network takes a connection down

ASSUME PeerAssumption ==
  /\ Links \subseteq SUBSET Nodes
  /\ \A l \in Links : \E n, m \in Nodes : n # m /\ l = {n, m}
  /\ Askers \subseteq Nodes
  /\ {MaxAsks, MaxDrops} \subseteq Nat

VARIABLES
  chain,         \* of each node
  highestSeen,   \* HighestSeenBlockHeight of each node
  up,            \* the links that are connected
  channel,       \* the messages on their way, by sender and receiver
  comparing,     \* the height a connection has compared and not yet set
  asks,
  drops,
  lost           \* whether a connection was ever lost or closed

vars == <<chain, highestSeen, up, channel, comparing, asks, drops, lost>>

Directions == {d \in Nodes \X Nodes : {d[1], d[2]} \in Links}

height(n) == Len(chain[n]) - 1

Peers(n) == {m \in Nodes : {n, m} \in up}

BLOCK(b)    == [type |-> "BLOCK", block |-> b]
REQUEST(b)  == [type |-> "REQUEST", block |-> b]
HEIGHT(h)   == [type |-> "HEIGHT", height |-> h]
SYNC(h)     == [type |-> "SYNC", height |-> h]
HEIGHTQUERY == [type |-> "HEIGHTQUERY"]

Messages ==
  [type : {"BLOCK", "REQUEST"}, block : BlockHash]
  \cup [type : {"HEIGHT", "SYNC"}, height : Int]
  \cup {HEIGHTQUERY}

None == -2    \* no height is being compared

TypeOK ==
  /\ chain \in [Nodes -> Seq(BlockHash)]
  /\ highestSeen \in [Nodes -> Int]
  /\ up \subseteq Links
  /\ DOMAIN channel = Directions
  /\ \A d \in Directions : channel[d] \in Seq(Messages)
  /\ comparing \in [Directions -> Int]
  /\ asks \in 0 .. MaxAsks
  /\ drops \in 0 .. MaxDrops
  /\ lost \in BOOLEAN

Init ==
  /\ chain = [n \in Nodes |-> << >>]
  /\ highestSeen = [n \in Nodes |-> -1]
  /\ up = {}
  /\ channel = [d \in Directions |-> << >>]
  /\ comparing = [d \in Directions |-> None]
  /\ asks = 0
  /\ drops = 0
  /\ lost = FALSE

-----------------------------------------------------------------------------
(* Sending and receiving                                                   *)

\* Node n sends messages to those of the nodes it is connected to.
Send(n, nodes, messages) ==
  channel' = [d \in Directions |->
    IF d[1] = n /\ d[2] \in nodes \cap Peers(n) THEN channel[d] \o messages ELSE channel[d]]

\* Node n has handled the first message of m and sends messages to nodes.
HandleAndSend(n, m, nodes, messages) ==
  channel' = [d \in Directions |->
    (IF d = <<m, n>> THEN Tail(channel[d]) ELSE channel[d])
    \o (IF d[1] = n /\ d[2] \in nodes \cap Peers(n) THEN messages ELSE << >>)]

HandleSilently(n, m) == channel' = [channel EXCEPT ![<<m, n>>] = Tail(@)]

\* The next message n reads from m.
Reads(n, m, type) ==
  /\ comparing[<<m, n>>] = None
  /\ channel[<<m, n>>] # << >>
  /\ Head(channel[<<m, n>>]).type = type

\* What is left of a channel once its connection went down.
Cut(messages) == {SubSeq(messages, 1, k) : k \in 0 .. Len(messages)}

\* exceptionCaught: node n closes the connection on the first message of m. Of the
\* others it still handles what it has read already, and m what got through.
Close(n, m) ==
  /\ up' = up \ {{n, m}}
  /\ lost' = TRUE
  /\ \E read \in Cut(Tail(channel[<<m, n>>])), sent \in Cut(channel[<<n, m>>]) :
       channel' = [channel EXCEPT ![<<m, n>>] = read, ![<<n, m>>] = sent]

-----------------------------------------------------------------------------
(* NodeP2PReceiveBlockHandler                                              *)

\* Slip: a block that is known already is relayed again.
ReceiveLowBlockRelaying(n, m) ==
  /\ Reads(n, m, "BLOCK")
  /\ LET b == Head(channel[<<m, n>>]).block
     IN  /\ height(n) >= BlockOf[b].BlockHeight
         /\ IF b \in {chain[n][i] : i \in DOMAIN chain[n]}
            THEN HandleAndSend(n, m, Peers(n), <<BLOCK(b)>>)
            ELSE HandleAndSend(n, m, {m}, <<HEIGHT(height(n))>>)
  /\ UNCHANGED <<chain, highestSeen, up, comparing, asks, drops, lost>>

\* The sender of a block of a shorter chain is told the height of this one.
ReceiveLowBlock(n, m) ==
  /\ Reads(n, m, "BLOCK")
  /\ LET b == Head(channel[<<m, n>>]).block
     IN  /\ height(n) >= BlockOf[b].BlockHeight
         /\ IF b \in {chain[n][i] : i \in DOMAIN chain[n]}
            THEN HandleSilently(n, m)
            ELSE HandleAndSend(n, m, {m}, <<HEIGHT(height(n))>>)
  /\ UNCHANGED <<chain, highestSeen, up, comparing, asks, drops, lost>>

\* Slip: a block is stored if its height is the next one.
ReceiveNextHeight(n, m) ==
  /\ Reads(n, m, "BLOCK")
  /\ LET b == Head(channel[<<m, n>>]).block
     IN  /\ height(n) < BlockOf[b].BlockHeight
         /\ IF BlockOf[b].BlockHeight = height(n) + 1
            THEN /\ chain' = [chain EXCEPT ![n] = Append(@, b)]
                 /\ HandleAndSend(n, m, Peers(n), <<BLOCK(b)>>)
            ELSE HandleSilently(n, m) /\ UNCHANGED chain
  /\ UNCHANGED <<highestSeen, up, comparing, asks, drops, lost>>

\* Block b spends an output that no block of the chain creates, spent or not.
SpendsUnknown(c, b) ==
  \E k \in DOMAIN TxsOf(b) : \E o \in Spends(TxsOf(b)[k]) :
    o[1] # ZeroHash /\ o \notin Created(c)

\* A block that does not extend the chain is dropped. For the log, debugVerify adds
\* up its fees once more: the exception of an unknown input, which verify caught, is
\* caught by no one now, and the connection is closed.
ReceiveNewBlock(n, m) ==
  /\ Reads(n, m, "BLOCK")
  /\ LET b == Head(channel[<<m, n>>]).block
     IN  /\ height(n) < BlockOf[b].BlockHeight
         /\ \/ /\ CanExtend(chain[n], b)
               /\ chain' = [chain EXCEPT ![n] = Append(@, b)]
               /\ HandleAndSend(n, m, Peers(n), <<BLOCK(b)>>)
               /\ UNCHANGED <<up, lost>>
            \/ /\ ~CanExtend(chain[n], b) /\ ~SpendsUnknown(chain[n], b)
               /\ HandleSilently(n, m)
               /\ UNCHANGED <<chain, up, lost>>
            \/ /\ SpendsUnknown(chain[n], b)
               /\ Close(n, m)
               /\ UNCHANGED chain
  /\ UNCHANGED <<highestSeen, comparing, asks, drops>>

-----------------------------------------------------------------------------
(* NodeP2PMessageDecoder                                                   *)

\* HEIGHT: the height is compared ...
CompareHeight(n, m) ==
  /\ Reads(n, m, "HEIGHT")
  /\ LET h == Head(channel[<<m, n>>]).height
     IN  comparing' = [comparing EXCEPT ![<<m, n>>] = IF h > highestSeen[n] THEN h ELSE None]
  /\ HandleSilently(n, m)
  /\ UNCHANGED <<chain, highestSeen, up, asks, drops, lost>>

\* ... and, if it was larger, set and the blocks above this chain asked for.
RaiseHighest(n, m) ==
  /\ comparing[<<m, n>>] # None
  /\ comparing' = [comparing EXCEPT ![<<m, n>>] = None]
  /\ highestSeen' = [highestSeen EXCEPT ![n] = comparing[<<m, n>>]]
  /\ Send(n, {m}, <<SYNC(Len(chain[n]))>>)
  /\ UNCHANGED <<chain, up, asks, drops, lost>>

BlocksFrom(n, h) == [i \in 1 .. Len(chain[n]) - h |-> BLOCK(chain[n][h + i])]

\* Slips: the answer ends one block late; it starts one block late.
ServeSyncPastEnd(n, m) ==
  /\ Reads(n, m, "SYNC")
  /\ LET h == Head(channel[<<m, n>>]).height
     IN  /\ h \in 0 .. height(n)
         /\ HandleAndSend(n, m, {m}, Append(BlocksFrom(n, h), BLOCK(NoBlock)))
  /\ UNCHANGED <<chain, highestSeen, up, comparing, asks, drops, lost>>

ServeSyncLate(n, m) ==
  /\ Reads(n, m, "SYNC")
  /\ LET h == Head(channel[<<m, n>>]).height
     IN  /\ h \in 0 .. height(n)
         /\ HandleAndSend(n, m, {m}, BlocksFrom(n, h + 1))
  /\ UNCHANGED <<chain, highestSeen, up, comparing, asks, drops, lost>>

ServeSync(n, m) ==
  /\ Reads(n, m, "SYNC")
  /\ LET h == Head(channel[<<m, n>>]).height
     IN  /\ h \in 0 .. height(n)
         /\ HandleAndSend(n, m, {m}, BlocksFrom(n, h))
  /\ UNCHANGED <<chain, highestSeen, up, comparing, asks, drops, lost>>

\* A height beyond the tip is not served: getBlockchainRange throws, and the
\* next handler's exceptionCaught closes the connection.
RefuseSync(n, m) ==
  /\ Reads(n, m, "SYNC")
  /\ Head(channel[<<m, n>>]).height \notin 0 .. height(n)
  /\ Close(n, m)
  /\ UNCHANGED <<chain, highestSeen, comparing, asks, drops>>

TellHeight(n, m) ==
  /\ Reads(n, m, "HEIGHTQUERY")
  /\ HandleAndSend(n, m, {m}, <<HEIGHT(height(n))>>)
  /\ UNCHANGED <<chain, highestSeen, up, comparing, asks, drops, lost>>

\* NodeP2PReceiveBlockRequestHandler.
ServeRequest(n, m) ==
  /\ Reads(n, m, "REQUEST")
  /\ LET b == Head(channel[<<m, n>>]).block
     IN  IF b \in {chain[n][i] : i \in DOMAIN chain[n]}
         THEN HandleAndSend(n, m, {m}, <<BLOCK(b)>>)
         ELSE HandleSilently(n, m)
  /\ UNCHANGED <<chain, highestSeen, up, comparing, asks, drops, lost>>

Receive(n, m) ==
  \/ ReceiveLowBlock(n, m) \/ ReceiveNewBlock(n, m)
  \/ CompareHeight(n, m) \/ RaiseHighest(n, m)
  \/ ServeSync(n, m) \/ RefuseSync(n, m)
  \/ TellHeight(n, m) \/ ServeRequest(n, m)

-----------------------------------------------------------------------------
(* The applications and the network                                        *)

\* The application of n found a block, stored it and broadcasts it.
Mine(n, b) ==
  /\ CanExtend(chain[n], b)
  /\ chain' = [chain EXCEPT ![n] = Append(@, b)]
  /\ Send(n, Peers(n), <<BLOCK(b)>>)
  /\ UNCHANGED <<highestSeen, up, comparing, asks, drops, lost>>

\* requestBlockHeightFromPeers, requestBlockChainFromPeers from the next block
\* or from the first, requestBlockFromPeers.
Ask(n, question) ==
  /\ n \in Askers
  /\ asks < MaxAsks
  /\ asks' = asks + 1
  /\ Send(n, Peers(n), <<question>>)
  /\ UNCHANGED <<chain, highestSeen, up, comparing, drops, lost>>

Questions(n) ==
  {HEIGHTQUERY, SYNC(0), SYNC(Len(chain[n]))} \cup {REQUEST(b) : b \in BlockHash}

\* A connection goes down, and what was on its way arrives or not.
Drop(n, m) ==
  /\ {n, m} \in up
  /\ drops < MaxDrops
  /\ drops' = drops + 1
  /\ lost' = TRUE
  /\ up' = up \ {{n, m}}
  /\ \E there \in Cut(channel[<<n, m>>]), back \in Cut(channel[<<m, n>>]) :
       channel' = [channel EXCEPT ![<<n, m>>] = there, ![<<m, n>>] = back]
  /\ UNCHANGED <<chain, highestSeen, comparing, asks>>

\* connectToPeer, or retryPeers once all of the old connection was handled.
Connect(n, m) ==
  /\ {n, m} \in Links \ up
  /\ channel[<<n, m>>] = << >> /\ channel[<<m, n>>] = << >>
  /\ comparing[<<n, m>>] = None /\ comparing[<<m, n>>] = None
  /\ up' = up \cup {{n, m}}
  /\ UNCHANGED <<chain, highestSeen, channel, comparing, asks, drops, lost>>

Next ==
  \/ \E d \in Directions : Receive(d[1], d[2])
  \/ \E n \in Nodes : \E b \in BlockHash : Mine(n, b)
  \/ \E n \in Nodes : \E question \in Questions(n) : Ask(n, question)
  \/ \E d \in Directions : Drop(d[1], d[2]) \/ Connect(d[1], d[2])

\* A connection's event loop goes on reading: netty neither loses a message
\* of a connection that is up nor leaves one unread. Nothing makes the
\* applications mine, ask or connect.
Fairness == \A d \in Directions : WF_vars(Receive(d[1], d[2]))

Spec == Init /\ [][Next]_vars /\ Fairness

-----------------------------------------------------------------------------
\* Two nodes that hold the same block hold the same blocks below it, however
\* each of them came by it: broadcast, request or synchronisation.
SharedBlockSharedHistory ==
  \A n, m \in Nodes : \A i \in DOMAIN chain[n], j \in DOMAIN chain[m] :
    chain[n][i] = chain[m][j] =>
      i = j /\ SubSeq(chain[n], 1, i) = SubSeq(chain[m], 1, j)

\* The network falls silent: no exchange of blocks, heights and requests
\* between nodes goes on by itself.
FallsSilent == <>[](\A d \in Directions : channel[d] = << >>)

\* A node that noted a height reaches it, unless chains fork or a connection is
\* lost or closed: what it asked for arrives, in an order it can store. (A node that
\* hears of a new block before it has caught up closes the connection itself.)
Forked ==
  \E n, m \in Nodes : \E i \in DOMAIN chain[n] \cap DOMAIN chain[m] : chain[n][i] # chain[m][i]

SyncsUnlessLost ==
  \A n \in Nodes : \A h \in 0 .. 2 :
    highestSeen[n] >= h ~> height(n) >= h \/ lost \/ Forked

\* "This is a longer chain! Syncing...", without that condition: a node closes
\* the connection it waits on when it is asked for more than it has.
SyncsToHighestSeen ==
  \A n \in Nodes : \A h \in 0 .. 2 : highestSeen[n] >= h ~> height(n) >= h
=============================================================================
