-------------------------- MODULE DiscoveryProofs --------------------------
(* What gossip cannot do, however many nodes there are and however often   *)
(* they call, retry and are cut off.                                       *)
EXTENDS Discovery, TLAPS

-----------------------------------------------------------------------------
(* The inductive invariant                                                 *)

\* Only an open connection has messages on their way. A caller greets the node
\* it called and nobody else, so the address announced for it is its port, and
\* nothing but ports is ever gossiped.
ChannelOK(s, messages, open) ==
  /\ messages \in Seq(Messages)
  /\ messages # << >> => s[1] \in open
  /\ \A i \in DOMAIN messages :
       /\ messages[i].type = "GREETING" => s[2] = 2
       /\ messages[i].type = "PEER" => messages[i].address \in Ports

ChannelsOK(channels, open) ==
  /\ DOMAIN channels = Sockets
  /\ \A s \in Sockets : ChannelOK(s, channels[s], open)

DInv ==
  /\ DOMAIN ends \subseteq Ports
  /\ \A p \in DOMAIN ends : ends[p] \in Nodes \X Nodes
  /\ up \subseteq DOMAIN ends
  /\ ChannelsOK(channel, up)
  /\ dialing \in [Nodes \X Nodes -> 0 .. MaxDials]
  /\ peersEverSeen \in [Nodes -> SUBSET Addresses]
  /\ drops \in 0 .. MaxDrops
  /\ retries \in 0 .. MaxRetries
  /\ GossipIntroducesNobody

\* The invariant gives the types.
LEMMA InvariantTypes == DInv => TypeOK
BY DEF DInv, TypeOK, ChannelsOK, ChannelOK

\* Whom a node calls, its application named.
LEMMA CalledNamed ==
  ASSUME GossipIntroducesNobody, NEW pair \in Nodes \X Nodes, dialing[pair] > 0
  PROVE  pair \in Bootstrap
<1>1. PICK n \in Nodes, m \in Nodes : pair = <<n, m>>
  OBVIOUS
<1>2. QED
  BY <1>1 DEF GossipIntroducesNobody

-----------------------------------------------------------------------------
(* The channels                                                            *)

\* What an announcement and a greeting are.
LEMMA MessageTypes ==
  /\ \A a \in Addresses : PEER(a) \in Messages /\ PEER(a).type = "PEER" /\ PEER(a).address = a
  /\ \A n \in Nodes : GREETING(n) \in Messages /\ GREETING(n).type = "GREETING"
  /\ \A msg \in Messages :
       /\ msg.type = "PEER" => msg.address \in Addresses
       /\ msg.type = "GREETING" => msg.node \in Nodes
BY DEF PEER, GREETING, Messages

\* The rest of a channel whose first message was read.
LEMMA TailOK ==
  ASSUME NEW s \in Sockets, NEW messages, NEW open,
         ChannelOK(s, messages, open), messages # << >>
  PROVE  ChannelOK(s, Tail(messages), open)
<1>1. /\ messages \in Seq(Messages)
      /\ Tail(messages) \in Seq(Messages)
      /\ \A i \in DOMAIN Tail(messages) :
           i + 1 \in DOMAIN messages /\ Tail(messages)[i] = messages[i + 1]
  BY DEF ChannelOK
<1>2. QED
  BY <1>1 DEF ChannelOK

\* Reading a message leaves the channels in order.
LEMMA ReadOK ==
  ASSUME ChannelsOK(channel, up), NEW s \in Sockets, channel[s] # << >>
  PROVE  ChannelsOK(AfterRead(s), up)
<1>1. /\ DOMAIN AfterRead(s) = Sockets
      /\ \A r \in Sockets : AfterRead(s)[r] = IF r = s THEN Tail(channel[s]) ELSE channel[r]
  BY DEF AfterRead, ChannelsOK
<1>2. QED
  BY <1>1, TailOK DEF ChannelsOK

\* Announcing a port leaves the channels in order.
LEMMA BroadcastOK ==
  ASSUME NEW channels, ChannelsOK(channels, up), NEW n, NEW a \in Ports
  PROVE  ChannelsOK(AfterBroadcast(channels, n, a), up)
<1> DEFINE new == AfterBroadcast(channels, n, a)
<1>1. DOMAIN new = Sockets
  BY DEF AfterBroadcast
<1>2. ASSUME NEW s \in Sockets
      PROVE  ChannelOK(s, new[s], up)
  <2>1. ChannelOK(s, channels[s], up)
    BY DEF ChannelsOK
  <2>2. CASE new[s] = channels[s]
    BY <2>1, <2>2
  <2>3. CASE new[s] # channels[s]
    <3>1. new[s] = Append(channels[s], PEER(a)) /\ OtherEnd(s) \in SocketsOf(n)
      BY <2>3 DEF AfterBroadcast
    <3>2. s[1] \in up
      BY <3>1 DEF SocketsOf, Open, OtherEnd
    <3>3. PEER(a) \in Messages /\ PEER(a).type = "PEER" /\ PEER(a).address = a
      BY MessageTypes DEF Addresses
    <3>4. /\ Append(channels[s], PEER(a)) \in Seq(Messages)
          /\ \A i \in DOMAIN Append(channels[s], PEER(a)) :
               \/ i \in DOMAIN channels[s] /\ Append(channels[s], PEER(a))[i] = channels[s][i]
               \/ Append(channels[s], PEER(a))[i] = PEER(a)
      BY <2>1, <3>3 DEF ChannelOK
    <3> HIDE DEF new
    <3>5. QED
      BY <2>1, <3>1, <3>2, <3>3, <3>4 DEF ChannelOK
  <2>4. QED
    BY <2>2, <2>3
<1>3. QED
  BY <1>1, <1>2 DEF ChannelsOK

\* Closing a connection, and with it its two channels, leaves them in order.
LEMMA CloseOK ==
  ASSUME ChannelsOK(channel, up), NEW p, Close(p)
  PROVE  ChannelsOK(channel', up') /\ up' \subseteq up
<1>1. ASSUME NEW s \in Sockets
      PROVE  ChannelOK(s, channel'[s], up')
  <2>1. CASE s[1] = p
    <3>1. channel'[s] = << >>
      BY <2>1 DEF Close
    <3>2. QED
      BY <3>1 DEF ChannelOK
  <2>2. CASE s[1] # p
    <3>1. channel'[s] = channel[s]
      BY <2>2 DEF Close
    <3>2. QED
      BY <2>2, <3>1 DEF Close, ChannelsOK, ChannelOK
  <2>3. QED
    BY <2>1, <2>2
<1>2. QED
  BY <1>1 DEF Close, ChannelsOK

-----------------------------------------------------------------------------
(* The calls                                                               *)

\* Calling addresses that the application named, or ports, introduces nobody.
LEMMA CallsOK ==
  ASSUME DInv, NEW n \in Nodes, NEW addresses,
         \A m \in addresses \cap Nodes : <<n, m>> \in Bootstrap
  PROVE  /\ AfterCalls(n, addresses) \in [Nodes \X Nodes -> 0 .. MaxDials]
         /\ \A pair \in Nodes \X Nodes :
              AfterCalls(n, addresses)[pair] > 0 => pair \in Bootstrap
<1> DEFINE calls == AfterCalls(n, addresses)
<1>1. dialing \in [Nodes \X Nodes -> 0 .. MaxDials] /\ MaxDials \in Nat
  BY DiscoveryAssumption DEF DInv
<1>2. calls \in [Nodes \X Nodes -> 0 .. MaxDials]
  BY <1>1 DEF AfterCalls
<1>3. ASSUME NEW pair \in Nodes \X Nodes, calls[pair] > 0
      PROVE  pair \in Bootstrap
  <2>1. CASE dialing[pair] > 0
    BY <2>1, CalledNamed DEF DInv
  <2>2. CASE ~(dialing[pair] > 0)
    <3>1. calls[pair] # dialing[pair]
      BY <1>3, <2>2
    <3>2. pair[1] = n /\ pair[2] \in addresses
      BY <3>1 DEF AfterCalls
    <3>3. pair = <<n, pair[2]>> /\ pair[2] \in Nodes
      BY <3>2
    <3>4. QED
      BY <3>2, <3>3
  <2>3. QED
    BY <2>1, <2>2
<1>4. QED
  BY <1>2, <1>3

-----------------------------------------------------------------------------
(* The steps                                                               *)

\* A call that was answered.
LEMMA AnswerKeeps ==
  ASSUME DInv, NEW n \in Nodes, NEW m \in Nodes, Answer(n, m)
  PROVE  DInv'
<1>1. /\ DOMAIN ends \subseteq Ports
      /\ \A p \in DOMAIN ends : ends[p] \in Nodes \X Nodes
      /\ up \subseteq DOMAIN ends
      /\ ChannelsOK(channel, up)
      /\ dialing \in [Nodes \X Nodes -> 0 .. MaxDials]
      /\ peersEverSeen \in [Nodes -> SUBSET Addresses]
      /\ GossipIntroducesNobody
  BY DEF DInv
<1>2. <<n, m>> \in Nodes \X Nodes /\ <<n, m>> \in Bootstrap
  BY <1>1 DEF Answer, CallFails, CallSucceeds, GossipIntroducesNobody
<1>3. /\ dialing' \in [Nodes \X Nodes -> 0 .. MaxDials]
      /\ \A pair \in Nodes \X Nodes : dialing'[pair] > 0 => dialing[pair] > 0
  <2>1. dialing' = [dialing EXCEPT ![<<n, m>>] = @ - 1] /\ dialing[<<n, m>>] > 0
    BY DEF Answer, CallFails, CallSucceeds
  <2>2. QED
    BY <1>1, <1>2, <2>1, DiscoveryAssumption
<1>4. CASE CallFails(n, m)
  <2>1. GossipIntroducesNobody'
    BY <1>1, <1>3, <1>4 DEF CallFails, GossipIntroducesNobody
  <2>2. ChannelsOK(channel', up')
    BY <1>1, <1>4 DEF CallFails
  <2>3. QED
    BY <1>3, <1>4, <2>1, <2>2 DEF CallFails, DInv
<1>5. CASE CallSucceeds(n, m)
  <2> DEFINE p == CHOOSE q \in Ports : q \notin DOMAIN ends
  <2>1. p \in Ports /\ p \notin DOMAIN ends
    BY <1>1, <1>5 DEF CallSucceeds
  <2>2. /\ ends' = [q \in DOMAIN ends \cup {p} |-> IF q = p THEN <<n, m>> ELSE ends[q]]
        /\ up' = up \cup {p}
        /\ channel' = [channel EXCEPT ![<<p, 2>>] = <<GREETING(n)>>]
        /\ peersEverSeen' = [peersEverSeen EXCEPT ![n] = @ \cup {m}]
        /\ UNCHANGED <<drops, retries>>
    BY <1>5 DEF CallSucceeds
  <2> HIDE DEF p
  <2>3. /\ DOMAIN ends' \subseteq Ports
        /\ \A q \in DOMAIN ends' : ends'[q] \in Nodes \X Nodes
        /\ \A q \in DOMAIN ends' : (q \in DOMAIN ends /\ ends'[q] = ends[q]) \/ ends'[q] = <<n, m>>
        /\ up' \subseteq DOMAIN ends'
    BY <1>1, <2>1, <2>2
  <2>4. ChannelsOK(channel', up')
    <3>1. ASSUME NEW s \in Sockets
          PROVE  ChannelOK(s, channel'[s], up')
      <4>1. CASE s = <<p, 2>>
        <5>1. channel'[s] = <<GREETING(n)>> /\ s[1] \in up' /\ s[2] = 2
          BY <1>1, <2>2, <4>1 DEF ChannelsOK
        <5>2. GREETING(n) \in Messages /\ GREETING(n).type = "GREETING"
          BY MessageTypes
        <5>3. <<GREETING(n)>> \in Seq(Messages) /\ \A i \in DOMAIN <<GREETING(n)>> : <<GREETING(n)>>[i] = GREETING(n)
          BY <5>2
        <5>4. QED
          BY <5>1, <5>2, <5>3 DEF ChannelOK
      <4>2. CASE s # <<p, 2>>
        <5>1. channel'[s] = channel[s]
          BY <1>1, <2>2, <4>2 DEF ChannelsOK
        <5>2. QED
          BY <1>1, <2>2, <5>1 DEF ChannelsOK, ChannelOK
      <4>3. QED
        BY <4>1, <4>2
    <3>2. QED
      BY <1>1, <2>2, <3>1 DEF ChannelsOK
  <2>5. peersEverSeen' \in [Nodes -> SUBSET Addresses]
    BY <1>1, <2>2 DEF Addresses
  <2>6. GossipIntroducesNobody'
    <3>1. \A q \in DOMAIN ends' : ends'[q] \in Bootstrap
      BY <1>1, <1>2, <2>3 DEF GossipIntroducesNobody
    <3>2. ASSUME NEW i \in Nodes, NEW j \in Nodes, dialing'[<<i, j>>] > 0 \/ j \in peersEverSeen'[i]
          PROVE  <<i, j>> \in Bootstrap
      <4>1. CASE dialing'[<<i, j>>] > 0
        BY <1>1, <1>3, <4>1 DEF GossipIntroducesNobody
      <4>2. CASE j \in peersEverSeen'[i]
        BY <1>1, <1>2, <2>2, <4>2 DEF GossipIntroducesNobody
      <4>3. QED
        BY <3>2, <4>1, <4>2
    <3>3. QED
      BY <3>1, <3>2 DEF GossipIntroducesNobody
  <2>7. drops' \in 0 .. MaxDrops /\ retries' \in 0 .. MaxRetries
    BY <2>2 DEF DInv
  <2>8. QED
    BY <1>3, <2>3, <2>4, <2>5, <2>6, <2>7 DEF DInv
<1>6. QED
  BY <1>4, <1>5 DEF Answer

\* A greeting that was read: its caller is a port.
LEMMA GreetingKeeps ==
  ASSUME DInv, NEW s \in Sockets, ReceiveGreeting(s)
  PROVE  DInv'
<1>1. ChannelsOK(channel, up) /\ up \subseteq DOMAIN ends
  BY DEF DInv
<1>2. channel[s] # << >> /\ Head(channel[s]).type = "GREETING"
  BY DEF ReceiveGreeting, Reads
<1>3. s[2] = 2
  BY <1>1, <1>2 DEF ChannelsOK, ChannelOK
<1>4. remoteAddress(s) \in Ports
  BY <1>3 DEF remoteAddress, Sockets
<1>5. ChannelsOK(channel', up') /\ up' \subseteq up
  <2>1. CASE Close(s[1])
    BY <1>1, <2>1, CloseOK
  <2>2. CASE ~Close(s[1])
    <3>1. PICK n : channel' = AfterBroadcast(AfterRead(s), n, remoteAddress(s)) /\ UNCHANGED up
      BY <2>2 DEF ReceiveGreeting
    <3>2. QED
      BY <1>1, <1>2, <1>4, <3>1, ReadOK, BroadcastOK
  <2>3. QED
    BY <2>1, <2>2
<1>6. UNCHANGED <<ends, dialing, peersEverSeen, drops, retries>>
  BY DEF ReceiveGreeting
<1>7. GossipIntroducesNobody'
  BY <1>6 DEF DInv, GossipIntroducesNobody
<1>8. up' \subseteq DOMAIN ends'
  BY <1>1, <1>5, <1>6
<1>9. QED
  BY <1>5, <1>6, <1>7, <1>8 DEF DInv

\* An address that was read: it is a port, which no call reaches.
LEMMA PeerKeeps ==
  ASSUME DInv, NEW s \in Sockets, ReceivePeer(s)
  PROVE  DInv'
<1> DEFINE n == ends[s[1]][s[2]]
           a == Head(channel[s]).address
<1>1. /\ ChannelsOK(channel, up) /\ up \subseteq DOMAIN ends
      /\ \A p \in DOMAIN ends : ends[p] \in Nodes \X Nodes
      /\ dialing \in [Nodes \X Nodes -> 0 .. MaxDials]
  BY DEF DInv
<1>2. channel[s] # << >> /\ Head(channel[s]).type = "PEER"
  BY DEF ReceivePeer, Reads
<1>3. a \in Ports /\ a \notin Nodes
  BY <1>1, <1>2, DiscoveryAssumption DEF ChannelsOK, ChannelOK
<1>4. n \in Nodes
  <2>1. s[1] \in up /\ s[2] \in {1, 2}
    BY <1>1, <1>2 DEF ChannelsOK, ChannelOK, Sockets
  <2>2. QED
    BY <1>1, <2>1
<1>5. /\ channel' = AfterRead(s) \/ channel' = AfterBroadcast(AfterRead(s), n, a)
      /\ dialing' = dialing \/ dialing' = AfterCalls(n, {a})
      /\ UNCHANGED <<ends, up, peersEverSeen, drops, retries>>
  BY DEF ReceivePeer
<1> HIDE DEF n, a
<1>6. ChannelsOK(channel', up')
  BY <1>1, <1>2, <1>3, <1>5, ReadOK, BroadcastOK
<1>7. /\ dialing' \in [Nodes \X Nodes -> 0 .. MaxDials]
      /\ \A pair \in Nodes \X Nodes : dialing'[pair] > 0 => pair \in Bootstrap
  <2>1. CASE dialing' = dialing
    BY <1>1, <2>1, CalledNamed DEF DInv
  <2>2. CASE dialing' = AfterCalls(n, {a})
    BY <1>3, <1>4, <2>2, CallsOK
  <2>3. QED
    BY <1>5, <2>1, <2>2
<1>8. GossipIntroducesNobody'
  BY <1>5, <1>7 DEF DInv, GossipIntroducesNobody
<1>9. QED
  BY <1>5, <1>6, <1>7, <1>8 DEF DInv

\* A retry calls only who was once reached.
LEMMA RetryKeeps ==
  ASSUME DInv, NEW n \in Nodes, RetryPeers(n)
  PROVE  DInv'
<1>1. \A m \in peersEverSeen[n] \cap Nodes : <<n, m>> \in Bootstrap
  BY DEF DInv, GossipIntroducesNobody
<1>2. /\ dialing' = AfterCalls(n, peersEverSeen[n])
      /\ retries' = retries + 1 /\ retries < MaxRetries
      /\ UNCHANGED <<ends, up, channel, peersEverSeen, drops>>
  BY DEF RetryPeers
<1>3. /\ dialing' \in [Nodes \X Nodes -> 0 .. MaxDials]
      /\ \A pair \in Nodes \X Nodes : dialing'[pair] > 0 => pair \in Bootstrap
  BY <1>1, <1>2, CallsOK
<1>4. GossipIntroducesNobody'
  BY <1>2, <1>3 DEF DInv, GossipIntroducesNobody
<1>5. retries' \in 0 .. MaxRetries
  BY <1>2, DiscoveryAssumption DEF DInv
<1>6. QED
  BY <1>2, <1>3, <1>4, <1>5 DEF DInv

\* A connection that ends.
LEMMA DropKeeps ==
  ASSUME DInv, NEW p \in Ports, Drop(p)
  PROVE  DInv'
<1>1. ChannelsOK(channel', up') /\ up' \subseteq up
  BY CloseOK DEF Drop, DInv
<1>2. drops' \in 0 .. MaxDrops
  BY DiscoveryAssumption DEF Drop, DInv
<1>3. UNCHANGED <<ends, dialing, peersEverSeen, retries>>
  BY DEF Drop
<1>4. GossipIntroducesNobody'
  BY <1>3 DEF DInv, GossipIntroducesNobody
<1>5. up' \subseteq DOMAIN ends'
  BY <1>1, <1>3 DEF DInv
<1>6. QED
  BY <1>1, <1>2, <1>3, <1>4, <1>5 DEF DInv

\* The invariant is inductive.
LEMMA DiscoveryInductive ==
  /\ Init => DInv
  /\ DInv /\ [Next]_vars => DInv'
<1>1. ASSUME Init
      PROVE  DInv
  <2>1. ChannelsOK(channel, up)
    BY <1>1 DEF Init, ChannelsOK, ChannelOK
  <2>2. GossipIntroducesNobody
    <3>1. ends = << >> /\ DOMAIN ends = {}
      BY <1>1 DEF Init
    <3>2. ASSUME NEW n \in Nodes, NEW m \in Nodes,
                 dialing[<<n, m>>] > 0 \/ m \in peersEverSeen[n]
          PROVE  <<n, m>> \in Bootstrap
      <4>1. peersEverSeen[n] = {}
        BY <1>1 DEF Init
      <4>2. dialing[<<n, m>>] = IF <<n, m>> \in Bootstrap THEN 1 ELSE 0
        BY <1>1 DEF Init
      <4>3. QED
        BY <3>2, <4>1, <4>2
    <3>3. QED
      BY <3>1, <3>2 DEF GossipIntroducesNobody
  <2>3. QED
    BY <1>1, <2>1, <2>2, DiscoveryAssumption DEF Init, DInv
<1>2. ASSUME DInv, UNCHANGED vars
      PROVE  DInv'
  BY <1>2 DEF vars, DInv, GossipIntroducesNobody
<1>3. QED
  BY <1>1, <1>2, AnswerKeeps, GreetingKeeps, PeerKeeps, RetryKeeps, DropKeeps DEF Next, Receive

-----------------------------------------------------------------------------
\* Every value keeps its type, and only an open connection carries messages.
THEOREM DiscoveryTypeOK == Spec => []TypeOK
BY InvariantTypes, DiscoveryInductive, PTL DEF Spec

\* However many nodes gossip: a node calls, is connected to, and will retry only
\* what its own application named, because the addresses that spread are those
\* from which callers call and not those at which they listen.
THEOREM DiscoveryIntroducesNobody == Spec => []GossipIntroducesNobody
<1>1. DInv => GossipIntroducesNobody
  BY DEF DInv
<1>2. QED
  BY <1>1, DiscoveryInductive, PTL DEF Spec
=============================================================================
