------------------------------ MODULE MCWallet ------------------------------
(* A wallet of two keys on a genesis that pays to both. Blocks of others   *)
(* bring an output of an amount it already has, one behind a script that   *)
(* fails, and one whose script stops the matcher; payments are mined.      *)
EXTENDS Wallet, Universe, SequencesExt

CONSTANTS k1, k2, torn

MCZero == <<"zero">>
MCNull == <<"null">>
G  == <<"g">>
CG == <<"cg">>
CB == <<"cb">>
CP == <<"cp">>
F1 == <<"f1">>
F2 == <<"f2">>

MCKeys == {k1, k2}
MCkeypairs == <<k1, k2>>
MCOrders == {[Amount |-> a, Fee |-> 6] : a \in {16, 40}}
MCOthers == {F1, F2}
MCClockTimes == {0, 300}

\* A payment is named by the outputs it spends, in order, and the amounts it pays.
Spending(spent, amounts) == <<"pay", spent, amounts>>

\* What is owned: 20 by k1 and 24 by k2; 20 by k2 in CB; 3 by k1 in F1, behind a
\* script that fails; the change of a payment by k1.
Worth(o) ==
  CASE o = <<CG, 0>> -> 20 [] o = <<CG, 1>> -> 24 [] o = <<CB, 0>> -> 20
    [] o = <<F1, 0>> -> 3 [] OTHER -> o[1][3][2]

\* The payments of some of these outputs: what is left over is the change; a
\* little too little would still leave a fee.
PaymentsOf(outputs) ==
  UNION {LET left == SumFunction([o \in spent |-> Worth(o)]) - r.Amount - r.Fee
             paid == IF left \in -3 .. 0 THEN <<r.Amount>> ELSE <<r.Amount, left>>
         IN  IF left < -3 THEN {} ELSE {Spending(s, paid) : s \in SetToSeqs(spent)}
        : spent \in {x \in SUBSET outputs : \A o, p \in x : o # p => Worth(o) # Worth(p)},
          r \in MCOrders}

FirstPayments == PaymentsOf({<<CG, 0>>, <<CG, 1>>, <<CB, 0>>, <<F1, 0>>})

\* The payments that the blocks of the model hold.
Mined == {p \in PaymentsOf({<<CG, 0>>, <<CG, 1>>}) :
            Len(p[3]) = 2 /\ p[2][1] = <<CG, IF <<CG, 0>> \in Range(p[2]) THEN 0 ELSE 1>>}

SecondPayments ==
  UNION {PaymentsOf(({<<CG, 0>>, <<CG, 1>>} \ Range(p[2])) \cup {<<p, 1>>}) : p \in Mined}

MCPayments == FirstPayments \cup SecondPayments

MCTxHash == {CG, CB, CP, F1, F2} \cup MCPayments

P2pkhOf(k) ==
  <<Op("DUP"), Op("SHA512"), Push(k), Op("BYTESEQUAL"), Op("VERIFY"), Op("VERIFYSIG")>>
WithMemo(k) == P2pkhOf(k) \o <<Push("memo"), Op("FAIL")>>
Broken == <<Op("DUP"), Op("SHA512"), Push(torn)>>
Other == <<Op("VERIFY")>>

PaymentTx(p) ==
  [Inputs |-> [i \in DOMAIN p[2] |->
     [InputHash |-> p[2][i][1], IndexNumber |-> p[2][i][2], unlocks |-> p[2][i][1] # F1]],
   Outputs |-> [i \in DOMAIN p[3] |-> OutputFor(p[3][i])],
   TimeStamp |-> 0, Size |-> Len(p[2]) + Len(p[3])]

MCTxOf == [t \in MCTxHash |->
  CASE t = CG -> Tx(<< <<MCZero, 0>> >>, <<20, 24, 6>>, 0, 2)
    [] t = CB -> Tx(<< <<MCZero, 1>> >>, <<20>>, 0, 2)
    [] t = CP -> Tx(<< <<MCZero, 1>> >>, <<50>>, 0, 2)
    [] t = F1 -> Tx(<< <<CG, 2>> >>, <<3>>, 300, 2)
    [] t = F2 -> Tx(<< <<CG, 2>> >>, <<3>>, 0, 2)
    [] OTHER  -> PaymentTx(t)]

MCLockingScript ==
  [o \in UNION {Creates(t) : t \in MCTxHash} |->
     CASE o \in {<<CG, 1>>, <<CB, 0>>} -> P2pkhOf(k2)
       [] o = <<CG, 0>> \/ (o[1] \in MCPayments /\ o[2] = 1) -> P2pkhOf(k1)
       [] o = <<F1, 0>> -> WithMemo(k1)
       [] o = <<F2, 0>> -> Broken
       [] OTHER -> Other]

BlockWith(coinbase, t) == <<"block", coinbase, t>>
Blocks1 == {BlockWith(CB, F1), BlockWith(CB, F2), BlockWith(CP, F1)}
           \cup {BlockWith(CP, p) : p \in Mined}

MCBlockHash == {G} \cup Blocks1
MCBlockOf == [b \in MCBlockHash |->
  IF b = G THEN Blk(0, MCZero, 0, 4, <<CG>>, TRUE)
  ELSE Blk(1, G, 20, 5, <<b[2], b[3]>>, TRUE)]
=============================================================================
