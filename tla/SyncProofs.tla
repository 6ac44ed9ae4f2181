----------------------------- MODULE SyncProofs -----------------------------
(* What holds of the chains of any number of nodes, whatever they send each *)
(* other and however often their connections are lost.                      *)
EXTENDS Sync, ValidationProofs, SequenceTheorems

-----------------------------------------------------------------------------
(* Messages                                                                *)

\* Every message that is sent is one of the protocol.
LEMMA MessageTypes ==
  /\ \A b \in BlockHash : BLOCK(b) \in Messages /\ REQUEST(b) \in Messages
  /\ \A h \in Int : HEIGHT(h) \in Messages /\ SYNC(h) \in Messages
  /\ HEIGHTQUERY \in Messages
  /\ \A msg \in Messages :
       /\ msg.type \in {"BLOCK", "REQUEST"} => msg.block \in BlockHash
       /\ msg.type \in {"HEIGHT", "SYNC"} => msg.height \in Int
BY DEF BLOCK, REQUEST, HEIGHT, SYNC, HEIGHTQUERY, Messages

\* A message alone is a sequence of messages.
LEMMA OneMessage ==
  ASSUME NEW msg \in Messages
  PROVE  <<msg>> \in Seq(Messages)
OBVIOUS

\* The channels' part of the type invariant.
ChannelsOK(channels) ==
  /\ DOMAIN channels = Directions
  /\ \A d \in Directions : channels[d] \in Seq(Messages)

\* Sending leaves the channels in order.
LEMMA SendOK ==
  ASSUME ChannelsOK(channel), NEW n, NEW nodes, NEW messages \in Seq(Messages),
         Send(n, nodes, messages)
  PROVE  ChannelsOK(channel')
<1>1. ASSUME NEW d \in Directions
      PROVE  channel'[d] \in Seq(Messages)
  <2>1. channel[d] \in Seq(Messages) /\ channel[d] \o messages \in Seq(Messages)
    BY ConcatProperties DEF ChannelsOK
  <2>2. QED
    BY <2>1 DEF Send
<1>2. QED
  BY <1>1 DEF Send, ChannelsOK

\* So does handling a message and sending others.
LEMMA HandleOK ==
  ASSUME ChannelsOK(channel), NEW n, NEW m, channel[<<m, n>>] # << >>,
         NEW nodes, NEW messages \in Seq(Messages),
         HandleAndSend(n, m, nodes, messages) \/ HandleSilently(n, m)
  PROVE  ChannelsOK(channel')
<1>1. ASSUME NEW d \in Directions, d = <<m, n>>
      PROVE  Tail(channel[d]) \in Seq(Messages)
  BY <1>1 DEF ChannelsOK
<1>2. CASE HandleAndSend(n, m, nodes, messages)
  <2>1. ASSUME NEW d \in Directions
        PROVE  channel'[d] \in Seq(Messages)
    <3> DEFINE rest == IF d = <<m, n>> THEN Tail(channel[d]) ELSE channel[d]
               sent == IF d[1] = n /\ d[2] \in nodes \cap Peers(n) THEN messages ELSE << >>
    <3>1. rest \in Seq(Messages) /\ sent \in Seq(Messages)
      BY <1>1 DEF ChannelsOK
    <3>2. channel'[d] = rest \o sent
      BY <1>2 DEF HandleAndSend
    <3> HIDE DEF rest, sent
    <3>3. QED
      BY <3>1, <3>2, ConcatProperties
  <2>2. QED
    BY <1>2, <2>1 DEF HandleAndSend, ChannelsOK
<1>3. CASE HandleSilently(n, m)
  BY <1>1, <1>3 DEF HandleSilently, ChannelsOK
<1>4. QED
  BY <1>2, <1>3

\* What is left of a channel consists of its messages.
LEMMA CutOK ==
  ASSUME NEW messages \in Seq(Messages), NEW left \in Cut(messages)
  PROVE  left \in Seq(Messages)
<1>1. PICK k \in 0 .. Len(messages) : left = SubSeq(messages, 1, k)
  BY DEF Cut
<1>2. \A i \in 1 .. k : messages[i] \in Messages
  BY <1>1
<1>3. QED
  BY <1>1, <1>2, SubSeqProperties

\* Closing a connection leaves parts of its channels.
LEMMA CloseOK ==
  ASSUME ChannelsOK(channel), up \subseteq Links, NEW n, NEW m,
         <<m, n>> \in Directions, <<n, m>> \in Directions, channel[<<m, n>>] # << >>,
         Close(n, m)
  PROVE  ChannelsOK(channel') /\ up' \subseteq Links /\ lost' \in BOOLEAN
<1>1. channel[<<n, m>>] \in Seq(Messages) /\ Tail(channel[<<m, n>>]) \in Seq(Messages)
  <2>1. channel[<<n, m>>] \in Seq(Messages) /\ channel[<<m, n>>] \in Seq(Messages)
    BY DEF ChannelsOK
  <2>2. QED
    BY <2>1
<1>2. PICK read \in Cut(Tail(channel[<<m, n>>])), sent \in Cut(channel[<<n, m>>]) :
        channel' = [channel EXCEPT ![<<m, n>>] = read, ![<<n, m>>] = sent]
  BY DEF Close
<1>3. read \in Seq(Messages) /\ sent \in Seq(Messages)
  BY <1>1, CutOK
<1>4. ChannelsOK(channel')
  BY <1>2, <1>3 DEF ChannelsOK
<1>5. QED
  BY <1>4 DEF Close

-----------------------------------------------------------------------------
(* Chains that agree                                                       *)

\* Two chains that share a block share all below it.
Agree(c, d) ==
  \A i \in DOMAIN c, j \in DOMAIN d :
    c[i] = d[j] => i = j /\ \A k \in 1 .. i : c[k] = d[k]

\* Chains that agree have the same part up to a block they share.
LEMMA AgreePrefix ==
  ASSUME NEW c \in Seq(BlockHash), NEW d \in Seq(BlockHash), Agree(c, d),
         NEW i \in DOMAIN c, NEW j \in DOMAIN d, c[i] = d[j]
  PROVE  i = j /\ SubSeq(c, 1, i) = SubSeq(d, 1, j)
<1>1. i = j /\ \A k \in 1 .. i : c[k] = d[k]
  BY DEF Agree
<1>2. i \in 1 .. Len(c) /\ i \in 1 .. Len(d)
  BY <1>1
<1>3. /\ Len(SubSeq(c, 1, i)) = i /\ Len(SubSeq(d, 1, i)) = i
      /\ \A k \in 1 .. i : SubSeq(c, 1, i)[k] = c[k] /\ SubSeq(d, 1, i)[k] = d[k]
      /\ SubSeq(c, 1, i) \in Seq(BlockHash) /\ SubSeq(d, 1, i) \in Seq(BlockHash)
  BY <1>2, SubSeqProperties
<1>4. SubSeq(c, 1, i) = SubSeq(d, 1, i)
  BY <1>1, <1>3, SeqEqual
<1>5. QED
  BY <1>1, <1>4

\* A block stands one above its height in every linked chain, and names the
\* block below it: extending a chain by a block of another keeps them agreed.
LEMMA ExtendAgree ==
  ASSUME NEW c \in Seq(BlockHash), NEW d \in Seq(BlockHash), NEW b \in BlockHash,
         Linked(d), CanExtend(c, b), Agree(c, d), Agree(d, c)
  PROVE  Agree(Append(c, b), d) /\ Agree(d, Append(c, b))
<1> DEFINE new == Append(c, b)
           tip == Len(c) + 1
<1>1. /\ DOMAIN new = DOMAIN c \cup {tip} /\ tip \notin DOMAIN c
      /\ \A i \in DOMAIN c : new[i] = c[i]
      /\ new[tip] = b
      /\ DOMAIN c = 1 .. tip - 1 /\ tip \in Nat \ {0}
      /\ tip # 1 => tip - 1 \in DOMAIN c
  BY AppendBlock
<1>2. BlockOf[b].BlockHeight = tip - 1
  BY DEF CanExtend, LinksTo
<1>3. tip # 1 => BlockOf[b].HashPreviousBlock = c[tip - 1]
  BY DEF CanExtend, LinksTo
<1>4. DOMAIN d = 1 .. Len(d) /\ Len(d) \in Nat
  OBVIOUS
<1> HIDE DEF new, tip
<1>5. ASSUME NEW j \in DOMAIN d, d[j] = b
      PROVE  j = tip /\ \A k \in 1 .. tip : new[k] = d[k]
  <2>1. j = tip
    BY <1>1, <1>2, <1>4, <1>5 DEF Linked
  <2>2. ASSUME tip # 1
        PROVE  \A k \in 1 .. tip - 1 : c[k] = d[k]
    <3>1. tip \in DOMAIN d /\ tip > 1 /\ d[tip] = b
      BY <1>1, <1>5, <2>1, <2>2
    <3>2. BlockOf[b].HashPreviousBlock = d[tip - 1]
      BY <3>1 DEF Linked
    <3>3. d[tip - 1] = c[tip - 1] /\ tip - 1 \in DOMAIN c
      BY <1>1, <1>3, <2>2, <3>2
    <3>4. tip - 1 \in DOMAIN d
      BY <1>1, <1>4, <3>1
    <3>5. QED
      BY <3>3, <3>4 DEF Agree
  <2>3. QED
    BY <1>1, <1>5, <2>1, <2>2
<1>6. ASSUME NEW i \in DOMAIN new, NEW j \in DOMAIN d, new[i] = d[j]
      PROVE  i = j /\ \A k \in 1 .. i : new[k] = d[k]
  <2>1. CASE i = tip
    BY <1>1, <1>5, <1>6, <2>1
  <2>2. CASE i # tip
    <3>1. i \in DOMAIN c /\ c[i] = d[j]
      BY <1>1, <1>6, <2>2
    <3>2. i = j /\ \A k \in 1 .. i : c[k] = d[k]
      BY <3>1 DEF Agree
    <3>3. \A k \in 1 .. i : new[k] = c[k]
      BY <1>1, <3>1
    <3>4. QED
      BY <3>2, <3>3
  <2>3. QED
    BY <2>1, <2>2
<1>7. Agree(new, d)
  BY <1>6 DEF Agree
<1>8. Agree(d, new)
  <2> SUFFICES ASSUME NEW j \in DOMAIN d, NEW i \in DOMAIN new, d[j] = new[i]
               PROVE  j = i /\ \A k \in 1 .. j : d[k] = new[k]
    BY DEF Agree
  <2>1. QED
    BY <1>6
<1>9. QED
  BY <1>7, <1>8 DEF new

\* An extended chain agrees with itself: it holds no block twice.
LEMMA ExtendAgreesWithItself ==
  ASSUME NEW c \in Seq(BlockHash), NEW b \in BlockHash,
         Linked(c), CanExtend(c, b), Agree(c, c)
  PROVE  Agree(Append(c, b), Append(c, b))
<1> DEFINE new == Append(c, b)
           tip == Len(c) + 1
<1>1. /\ DOMAIN new = DOMAIN c \cup {tip}
      /\ \A i \in DOMAIN c : new[i] = c[i]
  BY AppendBlock
<1>2. Agree(new, c) /\ Agree(c, new)
  BY ExtendAgree
<1> HIDE DEF new, tip
<1> SUFFICES ASSUME NEW i \in DOMAIN new, NEW j \in DOMAIN new, new[i] = new[j]
             PROVE  i = j
  BY DEF Agree, new
<1>3. CASE i \in DOMAIN c
  BY <1>1, <1>2, <1>3 DEF Agree
<1>4. CASE j \in DOMAIN c
  BY <1>1, <1>2, <1>4 DEF Agree
<1>5. QED
  BY <1>1, <1>3, <1>4

-----------------------------------------------------------------------------
(* The invariant                                                           *)

\* The chains are sound, each by itself, and agree pairwise.
ChainsOK(chains) ==
  /\ chains \in [Nodes -> Seq(BlockHash)]
  /\ \A n \in Nodes : Linked(chains[n]) /\ Shaped(chains[n]) /\ SpentOnceIn(chains[n])
  /\ \A n, m \in Nodes : Agree(chains[n], chains[m])

SInv ==
  /\ ChainsOK(chain)
  /\ ChannelsOK(channel)
  /\ highestSeen \in [Nodes -> Int]
  /\ up \subseteq Links
  /\ comparing \in [Directions -> Int]
  /\ asks \in 0 .. MaxAsks
  /\ drops \in 0 .. MaxDrops
  /\ lost \in BOOLEAN

\* The invariant gives the types.
LEMMA InvariantTypes == SInv => TypeOK
BY DEF SInv, TypeOK, ChainsOK, ChannelsOK

\* The invariant gives the agreement of the chains.
LEMMA InvariantAgrees == SInv => SharedBlockSharedHistory
<1> SUFFICES ASSUME SInv, NEW n \in Nodes, NEW m \in Nodes,
                    NEW i \in DOMAIN chain[n], NEW j \in DOMAIN chain[m],
                    chain[n][i] = chain[m][j]
             PROVE  i = j /\ SubSeq(chain[n], 1, i) = SubSeq(chain[m], 1, j)
  BY DEF SharedBlockSharedHistory
<1>1. chain[n] \in Seq(BlockHash) /\ chain[m] \in Seq(BlockHash) /\ Agree(chain[n], chain[m])
  BY DEF SInv, ChainsOK
<1>2. QED
  BY <1>1, AgreePrefix

\* One node's chain grows by a block it can be extended by: all stay sound, and
\* they stay agreed.
LEMMA GrowOK ==
  ASSUME NEW chains, ChainsOK(chains), NEW n \in Nodes, NEW b \in BlockHash,
         CanExtend(chains[n], b)
  PROVE  ChainsOK([chains EXCEPT ![n] = Append(@, b)])
<1> DEFINE new == [chains EXCEPT ![n] = Append(@, b)]
<1>1. /\ \A m \in Nodes : chains[m] \in Seq(BlockHash)
      /\ new[n] = Append(chains[n], b)
      /\ \A m \in Nodes \ {n} : new[m] = chains[m]
      /\ Append(chains[n], b) \in Seq(BlockHash)
      /\ new \in [Nodes -> Seq(BlockHash)]
  BY DEF ChainsOK
<1> HIDE DEF new
<1>2. ASSUME NEW m \in Nodes
      PROVE  Linked(new[m]) /\ Shaped(new[m]) /\ SpentOnceIn(new[m])
  <2>1. CASE m = n
    BY <1>1, <2>1, ExtendLinked, ExtendShaped, ExtendSpentOnce DEF ChainsOK
  <2>2. CASE m # n
    BY <1>1, <2>2 DEF ChainsOK
  <2>3. QED
    BY <2>1, <2>2
<1>3. ASSUME NEW m \in Nodes, NEW k \in Nodes
      PROVE  Agree(new[m], new[k])
  <2>1. /\ Linked(chains[m]) /\ Linked(chains[k])
        /\ \A x, y \in {m, k} : Agree(chains[x], chains[y])
    BY DEF ChainsOK
  <2>2. CASE m = n /\ k = n
    BY <1>1, <2>1, <2>2, ExtendAgreesWithItself
  <2>3. CASE m = n /\ k # n
    BY <1>1, <2>1, <2>3, ExtendAgree
  <2>4. CASE m # n /\ k = n
    BY <1>1, <2>1, <2>4, ExtendAgree
  <2>5. CASE m # n /\ k # n
    BY <1>1, <2>1, <2>5
  <2>6. QED
    BY <2>2, <2>3, <2>4, <2>5
<1>4. QED
  BY <1>1, <1>2, <1>3 DEF ChainsOK, new

-----------------------------------------------------------------------------
(* The steps                                                               *)

\* What a node finds when it reads a message.
LEMMA ReadTypes ==
  ASSUME SInv, NEW d \in Directions, NEW type, Reads(d[1], d[2], type)
  PROVE  /\ d[1] \in Nodes /\ d[2] \in Nodes /\ d = <<d[1], d[2]>>
         /\ <<d[2], d[1]>> \in Directions
         /\ channel[<<d[2], d[1]>>] # << >>
         /\ Head(channel[<<d[2], d[1]>>]) \in Messages
         /\ Head(channel[<<d[2], d[1]>>]).type = type
<1>1. d \in Nodes \X Nodes /\ {d[1], d[2]} \in Links
  BY DEF Directions
<1>2. {d[2], d[1]} \in Links
  <2>1. {d[2], d[1]} = {d[1], d[2]}
    OBVIOUS
  <2>2. QED
    BY <1>1, <2>1
<1>3. <<d[2], d[1]>> \in Directions
  BY <1>1, <1>2 DEF Directions
<1>4. channel[<<d[2], d[1]>>] # << >> /\ Head(channel[<<d[2], d[1]>>]).type = type
  BY DEF Reads
<1>5. channel[<<d[2], d[1]>>] \in Seq(Messages)
  BY <1>3 DEF SInv, ChannelsOK
<1>6. QED
  BY <1>1, <1>3, <1>4, <1>5

\* The height of a node is a number.
LEMMA HeightTypes ==
  ASSUME SInv, NEW n \in Nodes
  PROVE  /\ chain[n] \in Seq(BlockHash) /\ Len(chain[n]) \in Nat /\ height(n) \in Int
         /\ <<HEIGHT(height(n))>> \in Seq(Messages)
         /\ \A h \in Nat : BlocksFrom(n, h) \in Seq(Messages)
<1>1. chain[n] \in Seq(BlockHash) /\ Len(chain[n]) \in Nat /\ height(n) \in Int
  BY DEF SInv, ChainsOK, height
<1>2. <<HEIGHT(height(n))>> \in Seq(Messages)
  BY <1>1, MessageTypes, OneMessage
<1>3. ASSUME NEW h \in Nat
      PROVE  BlocksFrom(n, h) \in Seq(Messages)
  <2>1. \A i \in 1 .. Len(chain[n]) - h : chain[n][h + i] \in BlockHash
    BY <1>1
  <2>2. BlocksFrom(n, h) \in [1 .. Len(chain[n]) - h -> Messages]
    BY <2>1, MessageTypes DEF BlocksFrom
  <2>3. CASE Len(chain[n]) - h \in Nat
    BY <2>2, <2>3
  <2>4. CASE Len(chain[n]) - h \notin Nat
    <3>1. 1 .. Len(chain[n]) - h = 1 .. 0
      BY <1>1, <2>4
    <3>2. QED
      BY <2>2, <3>1
  <2>5. QED
    BY <2>3, <2>4
<1>4. QED
  BY <1>1, <1>2, <1>3

\* Handling a block.
LEMMA BlockKeeps ==
  ASSUME SInv, NEW d \in Directions,
         ReceiveLowBlock(d[1], d[2]) \/ ReceiveNewBlock(d[1], d[2])
  PROVE  SInv'
<1> DEFINE n == d[1]
           m == d[2]
           b == Head(channel[<<m, n>>]).block
<1>1. /\ n \in Nodes /\ m \in Nodes /\ <<m, n>> \in Directions /\ <<n, m>> \in Directions
      /\ channel[<<m, n>>] # << >> /\ b \in BlockHash
  BY ReadTypes, MessageTypes DEF ReceiveLowBlock, ReceiveNewBlock
<1>2. <<BLOCK(b)>> \in Seq(Messages) /\ <<HEIGHT(height(n))>> \in Seq(Messages)
  BY <1>1, MessageTypes, OneMessage, HeightTypes
<1>3. \/ UNCHANGED <<up, lost>> /\ HandleSilently(n, m)
      \/ UNCHANGED <<up, lost>> /\ HandleAndSend(n, m, {m}, <<HEIGHT(height(n))>>)
      \/ UNCHANGED <<up, lost>> /\ HandleAndSend(n, m, Peers(n), <<BLOCK(b)>>)
      \/ Close(n, m)
  BY DEF ReceiveLowBlock, ReceiveNewBlock
<1>4. \/ UNCHANGED chain
      \/ CanExtend(chain[n], b) /\ chain' = [chain EXCEPT ![n] = Append(@, b)]
  BY DEF ReceiveLowBlock, ReceiveNewBlock
<1>5. UNCHANGED <<highestSeen, comparing, asks, drops>>
  BY DEF ReceiveLowBlock, ReceiveNewBlock
<1> HIDE DEF n, m, b
<1>6. ChannelsOK(channel') /\ up' \subseteq Links /\ lost' \in BOOLEAN
  <2>1. CASE Close(n, m)
    BY <1>1, <2>1, CloseOK DEF SInv
  <2>2. CASE ~Close(n, m)
    <3>1. ChannelsOK(channel')
      BY <1>1, <1>2, <1>3, <2>2, HandleOK DEF SInv
    <3>2. QED
      BY <1>3, <2>2, <3>1 DEF SInv
  <2>3. QED
    BY <2>1, <2>2
<1>7. ChainsOK(chain')
  <2>1. ChainsOK(chain) /\ n \in Nodes /\ b \in BlockHash
    BY <1>1 DEF SInv
  <2>2. CASE UNCHANGED chain
    BY <2>1, <2>2
  <2>3. CASE CanExtend(chain[n], b) /\ chain' = [chain EXCEPT ![n] = Append(@, b)]
    <3>1. ChainsOK([chain EXCEPT ![n] = Append(@, b)])
      BY <2>1, <2>3, GrowOK
    <3>2. QED
      BY <2>3, <3>1
  <2>4. QED
    BY <1>4, <2>2, <2>3
<1>8. QED
  BY <1>5, <1>6, <1>7 DEF SInv

\* Handling a height: comparing it, and setting it.
LEMMA HeightKeeps ==
  ASSUME SInv, NEW d \in Directions,
         CompareHeight(d[1], d[2]) \/ RaiseHighest(d[1], d[2])
  PROVE  SInv'
<1> DEFINE n == d[1]
           m == d[2]
<1>1. ASSUME CompareHeight(n, m)
      PROVE  SInv'
  <2>1. /\ <<m, n>> \in Directions /\ channel[<<m, n>>] # << >>
        /\ Head(channel[<<m, n>>]).height \in Int
    BY <1>1, ReadTypes, MessageTypes DEF CompareHeight
  <2>2. << >> \in Seq(Messages)
    OBVIOUS
  <2>3. ChannelsOK(channel')
    BY <1>1, <2>1, <2>2, HandleOK DEF CompareHeight, SInv
  <2>4. comparing' \in [Directions -> Int]
    BY <1>1, <2>1 DEF CompareHeight, SInv, None
  <2>5. QED
    BY <1>1, <2>3, <2>4 DEF CompareHeight, SInv
<1>2. ASSUME RaiseHighest(n, m)
      PROVE  SInv'
  <2>1. /\ n \in Nodes /\ m \in Nodes /\ {n, m} \in Links
    BY DEF Directions
  <2>2. <<m, n>> \in Directions
    <3>1. {n, m} = {m, n}
      OBVIOUS
    <3>2. QED
      BY <2>1, <3>1 DEF Directions
  <2>3. <<SYNC(Len(chain[n]))>> \in Seq(Messages)
    <3>1. Len(chain[n]) \in Int
      BY <2>1, HeightTypes
    <3>2. SYNC(Len(chain[n])) \in Messages
      BY <3>1, MessageTypes
    <3>3. QED
      BY <3>2, OneMessage
  <2>4. ChannelsOK(channel')
    BY <1>2, <2>3, SendOK DEF RaiseHighest, SInv
  <2>5. comparing' \in [Directions -> Int] /\ highestSeen' \in [Nodes -> Int]
    BY <1>2, <2>1, <2>2 DEF RaiseHighest, SInv, None
  <2>6. QED
    BY <1>2, <2>4, <2>5 DEF RaiseHighest, SInv
<1>3. QED
  BY <1>1, <1>2

\* Answering a question.
LEMMA ServeKeeps ==
  ASSUME SInv, NEW d \in Directions,
         ServeSync(d[1], d[2]) \/ TellHeight(d[1], d[2]) \/ ServeRequest(d[1], d[2])
  PROVE  SInv'
<1> DEFINE n == d[1]
           m == d[2]
<1>1. n \in Nodes /\ channel[<<m, n>>] # << >>
  BY ReadTypes DEF ServeSync, TellHeight, ServeRequest
<1>2. PICK messages \in Seq(Messages) :
        HandleAndSend(n, m, {m}, messages) \/ HandleSilently(n, m)
  <2>1. CASE ServeSync(n, m)
    <3>1. Head(channel[<<m, n>>]).height \in Nat
      BY <1>1, <2>1, HeightTypes DEF ServeSync
    <3>2. BlocksFrom(n, Head(channel[<<m, n>>]).height) \in Seq(Messages)
      BY <1>1, <3>1, HeightTypes
    <3>3. QED
      BY <2>1, <3>2 DEF ServeSync
  <2>2. CASE TellHeight(n, m)
    BY <1>1, <2>2, HeightTypes DEF TellHeight
  <2>3. CASE ServeRequest(n, m)
    <3>1. <<BLOCK(Head(channel[<<m, n>>]).block)>> \in Seq(Messages)
      BY <2>3, ReadTypes, MessageTypes, OneMessage DEF ServeRequest
    <3>2. QED
      BY <2>3, <3>1 DEF ServeRequest
  <2>4. QED
    BY <2>1, <2>2, <2>3
<1>3. UNCHANGED <<chain, highestSeen, up, comparing, asks, drops, lost>>
  BY DEF ServeSync, TellHeight, ServeRequest
<1> HIDE DEF n, m
<1>4. ChannelsOK(channel')
  BY <1>1, <1>2, HandleOK DEF SInv
<1>5. QED
  BY <1>3, <1>4 DEF SInv

\* A connection that is closed or lost, or made.
LEMMA ConnectionKeeps ==
  ASSUME SInv, NEW d \in Directions,
         RefuseSync(d[1], d[2]) \/ Drop(d[1], d[2]) \/ Connect(d[1], d[2])
  PROVE  SInv'
<1> DEFINE n == d[1]
           m == d[2]
<1>1. /\ n \in Nodes /\ m \in Nodes /\ <<n, m>> \in Directions /\ <<m, n>> \in Directions
  <2>1. n \in Nodes /\ m \in Nodes /\ {n, m} \in Links
    BY DEF Directions
  <2>2. {n, m} = {m, n}
    OBVIOUS
  <2>3. QED
    BY <2>1, <2>2 DEF Directions
<1>2. channel[<<n, m>>] \in Seq(Messages) /\ channel[<<m, n>>] \in Seq(Messages)
  BY <1>1 DEF SInv, ChannelsOK
<1>3. CASE RefuseSync(n, m)
  <2>1. channel[<<m, n>>] # << >> /\ Close(n, m)
    BY <1>3, ReadTypes DEF RefuseSync
  <2>2. ChannelsOK(channel') /\ up' \subseteq Links /\ lost' \in BOOLEAN
    BY <1>1, <2>1, CloseOK DEF SInv
  <2>3. QED
    BY <1>3, <2>2 DEF RefuseSync, SInv
<1>4. CASE Drop(n, m)
  <2>1. PICK there \in Cut(channel[<<n, m>>]), back \in Cut(channel[<<m, n>>]) :
          channel' = [channel EXCEPT ![<<n, m>>] = there, ![<<m, n>>] = back]
    BY <1>4 DEF Drop
  <2>2. there \in Seq(Messages) /\ back \in Seq(Messages)
    BY <1>2, CutOK
  <2>3. ChannelsOK(channel')
    BY <2>1, <2>2 DEF SInv, ChannelsOK
  <2>4. drops' \in 0 .. MaxDrops
    BY <1>4, PeerAssumption DEF Drop, SInv
  <2>5. QED
    BY <1>4, <2>3, <2>4 DEF Drop, SInv
<1>5. CASE Connect(n, m)
  BY <1>5 DEF Connect, SInv
<1>6. QED
  BY <1>3, <1>4, <1>5

\* The applications mine and ask.
LEMMA ApplicationKeeps ==
  ASSUME SInv, NEW n \in Nodes,
         \/ \E b \in BlockHash : Mine(n, b)
         \/ \E question \in Questions(n) : Ask(n, question)
  PROVE  SInv'
<1>1. ASSUME NEW b \in BlockHash, Mine(n, b)
      PROVE  SInv'
  <2>1. <<BLOCK(b)>> \in Seq(Messages)
    BY MessageTypes, OneMessage
  <2>2. ChannelsOK(channel')
    BY <1>1, <2>1, SendOK DEF Mine, SInv
  <2>3. ChainsOK(chain')
    BY <1>1, GrowOK DEF Mine, SInv
  <2>4. QED
    BY <1>1, <2>2, <2>3 DEF Mine, SInv
<1>2. ASSUME NEW question \in Questions(n), Ask(n, question)
      PROVE  SInv'
  <2>1. question \in Messages
    BY HeightTypes, MessageTypes DEF Questions
  <2>2. <<question>> \in Seq(Messages)
    BY <2>1, OneMessage
  <2>3. ChannelsOK(channel')
    BY <1>2, <2>2, SendOK DEF Ask, SInv
  <2>4. asks' \in 0 .. MaxAsks
    BY <1>2, PeerAssumption DEF Ask, SInv
  <2>5. QED
    BY <1>2, <2>3, <2>4 DEF Ask, SInv
<1>3. QED
  BY <1>1, <1>2

\* A step extends at most one chain, by a block that it can be extended by.
LEMMA StepGrows ==
  ASSUME SInv, [Next]_vars
  PROVE  \/ UNCHANGED chain
         \/ \E n \in Nodes, b \in BlockHash :
              CanExtend(chain[n], b) /\ chain' = [chain EXCEPT ![n] = Append(@, b)]
<1>1. ASSUME NEW d \in Directions, ReceiveNewBlock(d[1], d[2])
      PROVE  \/ UNCHANGED chain
             \/ \E n \in Nodes, b \in BlockHash :
                  CanExtend(chain[n], b) /\ chain' = [chain EXCEPT ![n] = Append(@, b)]
  <2>1. d[1] \in Nodes /\ Head(channel[<<d[2], d[1]>>]).block \in BlockHash
    BY <1>1, ReadTypes, MessageTypes DEF ReceiveNewBlock
  <2>2. QED
    BY <1>1, <2>1 DEF ReceiveNewBlock
<1>2. ASSUME NEW d \in Directions,
             \/ ReceiveLowBlock(d[1], d[2]) \/ CompareHeight(d[1], d[2])
             \/ RaiseHighest(d[1], d[2]) \/ ServeSync(d[1], d[2])
             \/ RefuseSync(d[1], d[2]) \/ TellHeight(d[1], d[2])
             \/ ServeRequest(d[1], d[2]) \/ Drop(d[1], d[2]) \/ Connect(d[1], d[2])
      PROVE  UNCHANGED chain
  BY <1>2 DEF ReceiveLowBlock, CompareHeight, RaiseHighest, ServeSync, RefuseSync,
     TellHeight, ServeRequest, Drop, Connect
<1>3. ASSUME NEW n \in Nodes, NEW b \in BlockHash, Mine(n, b)
      PROVE  CanExtend(chain[n], b) /\ chain' = [chain EXCEPT ![n] = Append(@, b)]
  BY <1>3 DEF Mine
<1>4. ASSUME NEW n \in Nodes, NEW question \in Questions(n), Ask(n, question)
      PROVE  UNCHANGED chain
  BY <1>4 DEF Ask
<1>5. QED
  BY <1>1, <1>2, <1>3, <1>4 DEF Next, Receive, vars

\* The invariant is inductive.
LEMMA SyncInductive ==
  /\ Init => SInv
  /\ SInv /\ [Next]_vars => SInv'
<1>1. ASSUME Init
      PROVE  SInv
  <2>1. \A n \in Nodes : chain[n] = << >>
    BY <1>1 DEF Init
  <2>2. << >> \in Seq(BlockHash) /\ << >> \in Seq(Messages) /\ DOMAIN << >> = {}
    OBVIOUS
  <2>3. ChainsOK(chain)
    BY <1>1, <2>1, <2>2 DEF Init, ChainsOK, Linked, Shaped, SpentOnceIn, Agree
  <2>4. ChannelsOK(channel)
    BY <1>1, <2>2 DEF Init, ChannelsOK
  <2>5. highestSeen \in [Nodes -> Int] /\ comparing \in [Directions -> Int]
    <3>1. -1 \in Int /\ -2 \in Int
      OBVIOUS
    <3>2. QED
      BY <1>1, <3>1 DEF Init, None
  <2>6. asks \in 0 .. MaxAsks /\ drops \in 0 .. MaxDrops
    BY <1>1, PeerAssumption DEF Init
  <2>7. QED
    BY <1>1, <2>3, <2>4, <2>5, <2>6 DEF Init, SInv
<1>2. ASSUME SInv, UNCHANGED vars
      PROVE  SInv'
  BY <1>2 DEF vars, SInv
<1>3. QED
  BY <1>1, <1>2, BlockKeeps, HeightKeeps, ServeKeeps, ConnectionKeeps, ApplicationKeeps
     DEF Next, Receive

-----------------------------------------------------------------------------
\* Every value keeps its type: a node sends nothing that is no message.
THEOREM SyncTypeOK == Spec => []TypeOK
BY InvariantTypes, SyncInductive, PTL DEF Spec

\* Any number of nodes, any links between them, any order in which messages and
\* losses come: nodes that hold the same block hold the same blocks below it.
THEOREM SyncSharedHistory == Spec => []SharedBlockSharedHistory
BY InvariantAgrees, SyncInductive, PTL DEF Spec

\* Every node's chain is sound, however it came by its blocks: linked, and
\* spending no output twice.
THEOREM SyncChainsSound ==
  Spec => [](\A n \in Nodes : /\ Linked(chain[n])
                              /\ SpentOnceIn(chain[n])
                              /\ TransactionsOnceIn(chain[n]))
<1>1. SInv => \A n \in Nodes : /\ Linked(chain[n])
                               /\ SpentOnceIn(chain[n])
                               /\ TransactionsOnceIn(chain[n])
  BY SpentOnceTransactionsOnce DEF SInv, ChainsOK
<1>2. QED
  BY <1>1, SyncInductive, PTL DEF Spec

-----------------------------------------------------------------------------
(* Every node is a ledger                                                  *)

\* The chain of one node, as a ledger of its own.
Own(n) == INSTANCE Ledger WITH chain <- chain[n]

\* What the ledger of a node means by extending a chain is what Sync means.
LEMMA OwnOperators ==
  ASSUME NEW n, NEW list, NEW b
  PROVE  Own(n)!CanExtend(list, b) <=> CanExtend(list, b)
<1> USE DEF Own!TxsOf, TxsOf, Own!InputsOf, InputsOf, Own!OutputsOf, OutputsOf,
            Own!OutpointOf, OutpointOf
<1>1. \A t : Own(n)!Spends(t) = Spends(t) /\ Own(n)!Creates(t) = Creates(t)
  BY DEF Own!Spends, Spends, Own!Creates, Creates
<1>2. Own(n)!Created(list) = Created(list) /\ Own(n)!Spent(list) = Spent(list)
  BY <1>1 DEF Own!Created, Created, Own!CreatedBy, CreatedBy, Own!Spent, Spent,
     Own!SpentBy, SpentBy
<1>3. \A txs : Own(n)!SpendsOnce(txs) <=> SpendsOnce(txs)
  BY DEF Own!SpendsOnce, SpendsOnce
<1>4. QED
  BY <1>1, <1>2, <1>3 DEF Own!CanExtend, CanExtend, Own!LinksTo, LinksTo,
     Own!CoinbaseAt, CoinbaseAt, Own!SpendsUnspentOf, SpendsUnspentOf

\* Whatever the other nodes send, each node of a network implements the ledger.
THEOREM SyncImplementsLedger ==
  ASSUME NEW n \in Nodes
  PROVE  Spec => Own(n)!Spec
<1>1. Init => Own(n)!Init
  BY DEF Init, Own!Init
<1>2. SInv /\ [Next]_vars => [Own(n)!Next]_(chain[n])
  <2> SUFFICES ASSUME SInv, [Next]_vars
               PROVE  Own(n)!Next \/ UNCHANGED chain[n]
    OBVIOUS
  <2>1. \/ UNCHANGED chain
        \/ \E m \in Nodes, b \in BlockHash :
             CanExtend(chain[m], b) /\ chain' = [chain EXCEPT ![m] = Append(@, b)]
    BY StepGrows
  <2>2. QED
    BY <2>1, OwnOperators DEF SInv, ChainsOK, Own!Next, Own!Extend
<1>3. QED
  BY <1>1, <1>2, SyncInductive, PTL DEF Spec, Own!Spec
=============================================================================
