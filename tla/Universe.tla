------------------------------ MODULE Universe ------------------------------
(***************************************************************************)
(* The blocks and transactions the model checker runs with: two geneses, a *)
(* fork at height 1, a chain of height 2 on one side of it, and blocks     *)
(* that break one rule each. Amounts are coins; times are seconds.         *)
(***************************************************************************)
EXTENDS Integers, Sequences

Tx(inputs, outputs, timeStamp, size) ==
  [Inputs |-> [i \in DOMAIN inputs |->
     [InputHash |-> inputs[i][1], IndexNumber |-> inputs[i][2], unlocks |-> TRUE]],
   Outputs |-> [i \in DOMAIN outputs |-> [Amount |-> outputs[i], lockFits |-> TRUE]],
   TimeStamp |-> timeStamp, Size |-> size]

Coinbase(height, outputs) == Tx(<< <<"zero", height>> >>, outputs, 0, 2)

UniverseTxOf ==
  [cg  |-> Coinbase(0, <<30, 20>>),
   cl  |-> Coinbase(0, <<50>>),
   ca  |-> Coinbase(1, <<55>>),
   cb  |-> Coinbase(1, <<50>>),
   cz  |-> Coinbase(1, <<56>>),                              \* more than t1's fee
   ca2 |-> Coinbase(2, <<25>>),
   t1  |-> Tx(<< <<"cg", 0>> >>, <<10, 15>>, 300, 2),        \* outputs locked until 300
   u1  |-> Tx(<< <<"cg", 0>> >>, <<20>>, 0, 2),              \* conflicts with t1
   t2  |-> Tx(<< <<"t1", 0>>, <<"ca", 0>> >>, <<60>>, 0, 2),
   t3  |-> Tx(<< <<"t1", 1>> >>, <<10>>, 0, 2),
   s1  |-> Tx(<< <<"cg", 1>> >>, <<15>>, 0, 2),              \* on either side of the fork
   d1  |-> Tx(<< <<"cg", 1>>, <<"cg", 1>> >>, <<30>>, 0, 6), \* one outpoint twice
   o1  |-> Tx(<< <<"cg", 1>> >>, <<1000000, 1000000, 12>>, 0, 2), \* add up to 10
   low |-> Tx(<< <<"cg", 1>> >>, <<18>>, 0, 2)]              \* fee is not above its size

Blk(height, previous, time, difficulty, txs, sealed) ==
  [BlockHeight |-> height, HashPreviousBlock |-> previous, Time |-> time,
   DifficultyTarget |-> difficulty, Transactions |-> txs, sealed |-> sealed]

UniverseBlockOf ==
  [g   |-> Blk(0, "zero", 0, 4, <<"cg">>, TRUE),
   gl  |-> Blk(0, "zero", 0, 1, <<"cl">>, TRUE),             \* a genesis below difficulty 3
   a1  |-> Blk(1, "g", 200, 5, <<"ca", "t1">>, TRUE),
   b1  |-> Blk(1, "g", 400, 3, <<"cb", "u1">>, TRUE),        \* in the future at first
   a2  |-> Blk(2, "a1", 500, 5, <<"ca2", "t2">>, TRUE),
   k2  |-> Blk(2, "a1", 500, 5, <<"ca2", "s1">>, TRUE),
   a2x |-> Blk(2, "a1", 500, 5, <<"ca2", "u1">>, TRUE),      \* spends cg:0 again
   b2  |-> Blk(2, "b1", 700, 3, <<"ca2", "t3">>, TRUE),      \* its input is on the other side
   x1  |-> Blk(1, "g", 200, 5, <<"ca", "t1", "u1">>, TRUE),  \* spends cg:0 twice
   y1  |-> Blk(1, "g", 200, 5, <<"ca", "t1", "t3">>, TRUE),  \* t3 spends within the block
   e1  |-> Blk(1, "g", 200, 4, <<"ca", "t1">>, TRUE),        \* difficulty too low
   f1  |-> Blk(1, "g", 400, 2, <<"cb", "u1">>, TRUE),        \* falls below difficulty 3
   z1  |-> Blk(1, "g", 200, 5, <<"cz", "t1">>, TRUE),        \* coinbase too large
   o1b |-> Blk(1, "g", 200, 5, <<"ca", "o1">>, TRUE),        \* its outputs wrap
   w2  |-> Blk(2, "g", 200, 5, <<"ca2", "t1">>, TRUE),       \* skips a height
   n1  |-> Blk(1, "g", 200, 5, <<"ca">>, TRUE),              \* too few transactions
   v1  |-> Blk(1, "g", 200, 5, <<"ca", "t1">>, FALSE),       \* no proof of work
   m1  |-> Blk(-1, "zero", 0, 4, <<"cg">>, TRUE)]            \* below an empty chain
=============================================================================
