------------------------------ MODULE MCMining ------------------------------
(* One event loop and a miner on a genesis, a block of a peer, and four    *)
(* transactions: two good ones, one that names an output twice, and one    *)
(* too large for a candidate. Names are tuples, so that a mined block is   *)
(* named by what it is made of.                                            *)
EXTENDS Mining, Universe, FiniteSets

CONSTANTS loop, app

MCZero == <<"zero">>
MCNull == <<"null">>
G  == <<"g">>
A1 == <<"a1">>
T1 == <<"t1">>
S1 == <<"s1">>
D1 == <<"d1">>
B1 == <<"b1">>

MCArriving == {G, A1, T1, S1, D1, B1}
MCClockTimes == {0, 700}
Fee(txs) == 5 * Cardinality(txs)

CB(height, fees) == <<"coinbase", height, fees>>
Coinbases == {CB(height, fees) : height \in 1 .. 3, fees \in {5, 10}}

MCTxHash == {<<"cg">>, <<"ca">>, T1, S1, D1, B1} \cup Coinbases
MCTxOf == [t \in MCTxHash |->
  CASE t = <<"cg">> -> Tx(<< <<MCZero, 0>> >>, <<30, 20>>, 0, 2)
    [] t = <<"ca">> -> Tx(<< <<MCZero, 1>> >>, <<55>>, 0, 2)
    [] t = T1 -> Tx(<< << <<"cg">>, 0>> >>, <<25>>, 0, 2)
    [] t = S1 -> Tx(<< << <<"cg">>, 1>> >>, <<15>>, 0, 2)
    [] t = D1 -> Tx(<< << <<"cg">>, 1>>, << <<"cg">>, 1>> >>, <<30>>, 0, 4)
    [] t = B1 -> Tx(<< << <<"ca">>, 0>> >>, <<45>>, 0, 6)
    [] OTHER -> Tx(<< <<MCZero, t[2]>> >>, <<calculateBlockReward(t[2]) + t[3]>>, 0, 2)]

\* The blocks that can be mined: on the genesis, at either time; on A1, which
\* comes from the future at first; on one of those. A difficulty of 4 may be
\* read off A1.
Mined(previous, time, difficulties, sets) ==
  {<<"mined", previous, time, d, s>> : d \in difficulties, s \in sets}

OnG  == Mined(G, 0, {5}, {{T1}, {S1}, {T1, S1}}) \cup Mined(G, 700, {3, 4}, {{T1}, {S1}, {T1, S1}})
OnA1 == Mined(A1, 700, {4}, {{T1}, {S1}, {T1, S1}})
OnMined ==
  UNION {Mined(b, time, {4, b[4] + 1}, {{T1, S1} \ b[5]} \ {{}}) : b \in OnG \cup OnA1, time \in {0, 700}}

\* A candidate whose height was read off A1, and its predecessor before.
OffTip == {<<"mixed", G, 700, 4, {S1}>>}

HeightOf(b) ==
  CASE b \in OffTip -> 2
    [] b[1] = "mined" /\ b[2] = G -> 1
    [] b[1] = "mined" /\ (b[2] = A1 \/ b[2][2] = G) -> 2
    [] OTHER -> 3

Ordered(s) == IF s = {T1, S1} THEN <<T1, S1>> ELSE <<CHOOSE t \in s : TRUE>>

MCBlockHash == {G, A1} \cup OnG \cup OnA1 \cup OnMined \cup OffTip
MCBlockOf == [b \in MCBlockHash |->
  CASE b = G  -> Blk(0, MCZero, 0, 4, << <<"cg">> >>, TRUE)
    [] b = A1 -> Blk(1, G, 200, 5, << <<"ca">>, T1>>, TRUE)
    [] OTHER  -> Blk(HeightOf(b), b[2], b[3], b[4],
                     <<CB(HeightOf(b), Fee(b[5]))>> \o Ordered(b[5]), TRUE)]
=============================================================================
