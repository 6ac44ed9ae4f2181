------------------------------ MODULE Discovery ------------------------------
(***************************************************************************)
(* How nodes come to know of each other: connectToPeer and retryPeers of   *)
(* UISCoinNode, the greeting a caller sends, and the addresses gossiped by *)
(* NodeP2PMessageDecoder and NodeP2PReceivePeerHandler.                    *)
(*                                                                         *)
(* A node listens at one address, which stands for the node. A connection  *)
(* is a port: the address from which its caller calls and at which nobody  *)
(* listens. It has two sockets, <<port, 1>> at the caller and <<port, 2>>  *)
(* at the node that was called; channel[s] holds what socket s has still   *)
(* to read.                                                                *)
(***************************************************************************)
EXTENDS Naturals, Sequences

CONSTANTS
  Nodes,
  Ports,         \* as many connections as can ever be made
  Bootstrap,     \* <<n, m>>: the application of n makes n connect to m
  ProtocolVersion,   \* of each node
  LoopbackAddresses,
  MaxDials,      \* the bound of unanswered calls of one node to one other
  MaxDrops,      \* how often the network or the idle timeout ends a connection
  MaxRetries     \* how often applications call retryPeers

ASSUME DiscoveryAssumption ==
  /\ Nodes \cap Ports = {}
  /\ Bootstrap \subseteq Nodes \X Nodes
  /\ DOMAIN ProtocolVersion = Nodes
  /\ LoopbackAddresses \subseteq Nodes \cup Ports
  /\ {MaxDials, MaxDrops, MaxRetries} \subseteq Nat
  /\ MaxDials > 0

VARIABLES
  ends,            \* the caller and the called of each port that was ever used
  up,              \* the ports whose connection is open
  channel,
  dialing,         \* how many calls of a node to another are unanswered
  peersEverSeen,   \* of each node
  drops,
  retries

vars == <<ends, up, channel, dialing, peersEverSeen, drops, retries>>

Addresses == Nodes \cup Ports

Sockets == Ports \X {1, 2}

OtherEnd(s) == <<s[1], 3 - s[2]>>

GREETING(n) == [type |-> "GREETING", node |-> n]
PEER(a)     == [type |-> "PEER", address |-> a]

Messages == [type : {"GREETING"}, node : Nodes] \cup [type : {"PEER"}, address : Addresses]

TypeOK ==
  /\ DOMAIN ends \subseteq Ports
  /\ \A p \in DOMAIN ends : ends[p] \in Nodes \X Nodes
  /\ up \subseteq DOMAIN ends
  /\ DOMAIN channel = Sockets
  /\ \A s \in Sockets :
       /\ channel[s] \in Seq(Messages)
       /\ channel[s] # << >> => s[1] \in up
  /\ dialing \in [Nodes \X Nodes -> 0 .. MaxDials]
  /\ peersEverSeen \in [Nodes -> SUBSET Addresses]
  /\ drops \in 0 .. MaxDrops
  /\ retries \in 0 .. MaxRetries

Init ==
  /\ ends = << >>
  /\ up = {}
  /\ channel = [s \in Sockets |-> << >>]
  /\ dialing = [pair \in Nodes \X Nodes |-> IF pair \in Bootstrap THEN 1 ELSE 0]
  /\ peersEverSeen = [n \in Nodes |-> {}]
  /\ drops = 0
  /\ retries = 0

-----------------------------------------------------------------------------
(* The sockets of a node                                                   *)

Open == up \X {1, 2}

SocketsOf(n) == {s \in Open : ends[s[1]][s[2]] = n}

\* The address a socket sees at its other end: the caller sees the address it
\* called, the called one sees the port.
remoteAddress(s) == IF s[2] = 1 THEN ends[s[1]][2] ELSE s[1]

getPeers(n) == {remoteAddress(s) : s \in SocketsOf(n)}

Informed(n, a) ==
  a \in getPeers(n) \cup LoopbackAddresses \cup peersEverSeen[n]

\* The channels once node n has sent address a to all of its peers. The encoder
\* leaves out the peer at that very address. (A channel that still carries the
\* address carries no second copy of it: the bound of what is on its way.)
AfterBroadcast(channels, n, a) ==
  [s \in Sockets |->
     IF /\ OtherEnd(s) \in SocketsOf(n)
        /\ remoteAddress(OtherEnd(s)) # a
        /\ \A i \in DOMAIN channels[s] : channels[s][i] # PEER(a)
     THEN Append(channels[s], PEER(a)) ELSE channels[s]]

AfterRead(s) == [channel EXCEPT ![s] = Tail(@)]

\* Slip: what was on its way is still read.
CloseKeeping(p) ==
  /\ up' = up \ {p}
  /\ channel' = [s \in Sockets |-> channel[s]]

\* A connection ends: what was on its way is lost.
Close(p) ==
  /\ up' = up \ {p}
  /\ channel' = [s \in Sockets |-> IF s[1] = p THEN << >> ELSE channel[s]]

\* The calls on their way once n has called the addresses. Calling a port, at
\* which nobody listens, fails and leaves no trace.
AfterCalls(n, addresses) ==
  [pair \in Nodes \X Nodes |->
     IF /\ pair[1] = n
        /\ pair[2] \in addresses \ getPeers(n)
        /\ dialing[pair] < MaxDials
     THEN dialing[pair] + 1 ELSE dialing[pair]]

-----------------------------------------------------------------------------
(* UISCoinNode.connectToPeer: its future, and ClientHandler.channelActive  *)

CallFails(n, m) ==
  /\ dialing[<<n, m>>] > 0
  /\ dialing' = [dialing EXCEPT ![<<n, m>>] = @ - 1]
  /\ UNCHANGED <<ends, up, channel, peersEverSeen, drops, retries>>

CallSucceeds(n, m) ==
  /\ dialing[<<n, m>>] > 0
  /\ Ports # DOMAIN ends
  /\ LET p == CHOOSE q \in Ports : q \notin DOMAIN ends
     IN  /\ ends' = [q \in DOMAIN ends \cup {p} |-> IF q = p THEN <<n, m>> ELSE ends[q]]
         /\ up' = up \cup {p}
         /\ channel' = [channel EXCEPT ![<<p, 2>>] = <<GREETING(n)>>]
  /\ dialing' = [dialing EXCEPT ![<<n, m>>] = @ - 1]
  /\ peersEverSeen' = [peersEverSeen EXCEPT ![n] = @ \cup {m}]
  /\ UNCHANGED <<drops, retries>>

\* retryPeers: call every address that was ever reached and is not now.
RetryPeers(n) ==
  /\ retries < MaxRetries
  /\ retries' = retries + 1
  /\ dialing' = AfterCalls(n, peersEverSeen[n])
  /\ UNCHANGED <<ends, up, channel, peersEverSeen, drops>>

-----------------------------------------------------------------------------
(* NodeP2PMessageDecoder and NodeP2PReceivePeerHandler                     *)

Reads(s, type) == channel[s] # << >> /\ Head(channel[s]).type = type

\* Slips: a node does not recognise itself; the address at which the caller
\* listens is announced.
ReceiveGreetingOfSelf(s) ==
  /\ Reads(s, "GREETING")
  /\ LET n == ends[s[1]][s[2]]
         m == Head(channel[s]).node
     IN  IF ProtocolVersion[m] # ProtocolVersion[n]
         THEN Close(s[1])
         ELSE channel' = AfterBroadcast(AfterRead(s), n, remoteAddress(s)) /\ UNCHANGED up
  /\ UNCHANGED <<ends, dialing, peersEverSeen, drops, retries>>

ReceiveGreetingListening(s) ==
  /\ Reads(s, "GREETING")
  /\ LET n == ends[s[1]][s[2]]
         m == Head(channel[s]).node
     IN  IF ProtocolVersion[m] # ProtocolVersion[n] \/ m = n
         THEN Close(s[1])
         ELSE channel' = AfterBroadcast(AfterRead(s), n, m) /\ UNCHANGED up
  /\ UNCHANGED <<ends, dialing, peersEverSeen, drops, retries>>

\* GREETING: a caller of another version and the node itself are turned away;
\* of any other caller the remote address is announced.
ReceiveGreeting(s) ==
  /\ Reads(s, "GREETING")
  /\ LET n == ends[s[1]][s[2]]
         m == Head(channel[s]).node
     IN  IF ProtocolVersion[m] # ProtocolVersion[n] \/ m = n
         THEN Close(s[1])
         ELSE channel' = AfterBroadcast(AfterRead(s), n, remoteAddress(s)) /\ UNCHANGED up
  /\ UNCHANGED <<ends, dialing, peersEverSeen, drops, retries>>

\* Slip: a known address is passed on as well.
ReceivePeerRelaying(s) ==
  /\ Reads(s, "PEER")
  /\ LET n == ends[s[1]][s[2]]
         a == Head(channel[s]).address
     IN  /\ dialing' = IF Informed(n, a) THEN dialing ELSE AfterCalls(n, {a})
         /\ channel' = AfterBroadcast(AfterRead(s), n, a)
  /\ UNCHANGED <<ends, up, peersEverSeen, drops, retries>>

\* PEER: an address that is not known is called and passed on to every peer,
\* the one it came from included.
ReceivePeer(s) ==
  /\ Reads(s, "PEER")
  /\ LET n == ends[s[1]][s[2]]
         a == Head(channel[s]).address
     IN  IF Informed(n, a)
         THEN channel' = AfterRead(s) /\ UNCHANGED dialing
         ELSE /\ dialing' = AfterCalls(n, {a})
              /\ channel' = AfterBroadcast(AfterRead(s), n, a)
  /\ UNCHANGED <<ends, up, peersEverSeen, drops, retries>>

\* A connection breaks, or was idle until NodeP2PIdleStateHandler closed it.
Drop(p) ==
  /\ p \in up
  /\ drops < MaxDrops
  /\ drops' = drops + 1
  /\ Close(p)
  /\ UNCHANGED <<ends, dialing, peersEverSeen, retries>>

-----------------------------------------------------------------------------
Answer(n, m) == CallSucceeds(n, m) \/ CallFails(n, m)

Receive(s) == ReceiveGreeting(s) \/ ReceivePeer(s)

Next ==
  \/ \E n, m \in Nodes : Answer(n, m)
  \/ \E s \in Sockets : Receive(s)
  \/ \E n \in Nodes : RetryPeers(n)
  \/ \E p \in Ports : Drop(p)

\* Every call is answered, and netty goes on reading every open channel.
Fairness ==
  /\ \A n, m \in Nodes : WF_vars(Answer(n, m))
  /\ \A s \in Sockets : WF_vars(Receive(s))

Spec == Init /\ [][Next]_vars /\ Fairness

-----------------------------------------------------------------------------
(* What gossip brings about                                                *)

\* Whatever is gossiped, retried and dropped, a node is connected to, and will
\* ever retry, only what its own application named: the addresses that spread
\* are ports, and calling one fails. Gossip introduces nobody.
GossipIntroducesNobody ==
  /\ \A p \in DOMAIN ends : ends[p] \in Bootstrap
  /\ \A n, m \in Nodes : dialing[<<n, m>>] > 0 \/ m \in peersEverSeen[n] => <<n, m>> \in Bootstrap

\* A node that has called itself (the application named its own address) does
\* not stay connected to itself.
SelfConnectionsEnd ==
  \A p \in Ports :
    p \in up /\ ends[p][1] = ends[p][2] ~> p \notin up

\* An address is on its way to nobody.
Silent(a) == \A s \in Sockets : \A i \in DOMAIN channel[s] : channel[s][i] # PEER(a)

\* No two connected nodes have both yet to learn of an address.
Settled(a) ==
  \A p \in up : Informed(ends[p][1], a) \/ Informed(ends[p][2], a)

\* The gossip of an address ends once of any two connected nodes one knows it.
\* Nothing else ends it: two connected nodes that do not know a port, and they
\* will never reach it, hand it back and forth for ever.
GossipEnds == \A a \in Addresses : <>[]Settled(a) => <>[]Silent(a)
=============================================================================
