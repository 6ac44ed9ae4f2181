-------------------------- MODULE ValidationProofs --------------------------
(* The lemmas about blocks, chains and verification that the other proofs  *)
(* rest on: extending a sound chain keeps it sound, what verified once     *)
(* verifies against every later storage and clock.                         *)
EXTENDS Validation, FiniteSetTheorems, TLAPS

-----------------------------------------------------------------------------
(* Types                                                                   *)

\* The parts of a block have their types.
LEMMA BlockTypes ==
  ASSUME NEW b \in BlockHash
  PROVE  /\ BlockOf[b].BlockHeight \in Int
         /\ TxsOf(b) \in Seq(TxHash)
BY DataAssumption DEF TxsOf, Block

\* The parts of a transaction have their types.
LEMMA TransactionTypes ==
  ASSUME NEW t \in TxHash
  PROVE  /\ InputsOf(t) \in Seq(Input)
         /\ OutputsOf(t) \in Seq(Output)
BY DataAssumption DEF InputsOf, OutputsOf, Transaction

\* What stands in the list of a block is a transaction.
LEMMA TransactionAt ==
  ASSUME NEW b \in BlockHash, NEW k \in DOMAIN TxsOf(b)
  PROVE  TxsOf(b)[k] \in TxHash
BY BlockTypes

\* An input of a transaction names an outpoint.
LEMMA OutpointType ==
  ASSUME NEW t \in TxHash
  PROVE  /\ Spends(t) \subseteq TransactionOutputIdentifier
         /\ Creates(t) \subseteq TxHash \X Int
<1>1. \A i \in DOMAIN InputsOf(t) : InputsOf(t)[i] \in Input
  BY TransactionTypes
<1>2. Spends(t) \subseteq TransactionOutputIdentifier
  BY <1>1 DEF Spends, OutpointOf, Input, TransactionOutputIdentifier
<1>3. DOMAIN OutputsOf(t) \subseteq Nat
  BY TransactionTypes
<1>4. Creates(t) \subseteq TxHash \X Int
  BY <1>3 DEF Creates
<1>5. QED
  BY <1>2, <1>4

-----------------------------------------------------------------------------
(* What a chain creates and spends                                         *)

\* Whatever a chain creates belongs to a transaction, so it is never a
\* coinbase's input.
LEMMA CreatedType ==
  ASSUME NEW chain \in Seq(BlockHash), NEW o \in Created(chain)
  PROVE  o \in TxHash \X Int
<1>1. PICK i \in DOMAIN chain : o \in CreatedBy(chain[i])
  BY DEF Created
<1>2. PICK k \in DOMAIN TxsOf(chain[i]) : o \in Creates(TxsOf(chain[i])[k])
  BY <1>1 DEF CreatedBy
<1>3. chain[i] \in BlockHash
  OBVIOUS
<1>4. TxsOf(chain[i])[k] \in TxHash
  BY <1>3, TransactionAt
<1>5. QED
  BY <1>2, <1>4, OutpointType

\* The outpoint at a place of a chain is one the chain spends.
LEMMA OutpointAtSpent ==
  ASSUME NEW chain, NEW i \in DOMAIN chain, NEW k \in DOMAIN TxsOf(chain[i]),
         NEW m \in DOMAIN InputsOf(TxsOf(chain[i])[k])
  PROVE  OutpointAt(chain, i, k, m) \in Spent(chain)
BY DEF OutpointAt, Spent, SpentBy, Spends

\* The blocks of a chain that one is appended to, place by place.
LEMMA AppendBlock ==
  ASSUME NEW chain \in Seq(BlockHash), NEW b \in BlockHash
  PROVE  /\ Append(chain, b) \in Seq(BlockHash)
         /\ Len(Append(chain, b)) = Len(chain) + 1
         /\ DOMAIN Append(chain, b) = DOMAIN chain \cup {Len(chain) + 1}
         /\ \A i \in DOMAIN chain : Append(chain, b)[i] = chain[i]
         /\ Append(chain, b)[Len(chain) + 1] = b
         /\ Len(chain) + 1 \notin DOMAIN chain
OBVIOUS

\* Appending a block adds exactly what it creates and what it spends.
LEMMA AppendCreatedSpent ==
  ASSUME NEW chain \in Seq(BlockHash), NEW b \in BlockHash
  PROVE  /\ Created(Append(chain, b)) = Created(chain) \cup CreatedBy(b)
         /\ Spent(Append(chain, b)) = Spent(chain) \cup SpentBy(b)
<1> DEFINE new == Append(chain, b)
<1>1. /\ DOMAIN new = DOMAIN chain \cup {Len(chain) + 1}
      /\ \A i \in DOMAIN chain : new[i] = chain[i]
      /\ new[Len(chain) + 1] = b
  BY AppendBlock
<1> HIDE DEF new
<1>2. Created(new) = Created(chain) \cup CreatedBy(b)
  BY <1>1 DEF Created
<1>3. Spent(new) = Spent(chain) \cup SpentBy(b)
  BY <1>1 DEF Spent
<1>4. QED
  BY <1>2, <1>3 DEF new

-----------------------------------------------------------------------------
(* The shape every block of a chain has                                    *)

\* The part of CanExtend that stays true of a block once others follow it.
Shaped(chain) ==
  \A i \in DOMAIN chain :
    /\ CoinbaseAt(i - 1, TxsOf(chain[i]))
    /\ \A k \in 2 .. Len(TxsOf(chain[i])) :
         /\ InputsOf(TxsOf(chain[i])[k]) # << >>
         /\ Spends(TxsOf(chain[i])[k]) \subseteq Created(chain)

\* Extending a linked chain leaves it linked.
LEMMA ExtendLinked ==
  ASSUME NEW chain \in Seq(BlockHash), NEW b \in BlockHash,
         Linked(chain), CanExtend(chain, b)
  PROVE  Linked(Append(chain, b))
<1> DEFINE new == Append(chain, b)
<1> SUFFICES ASSUME NEW i \in DOMAIN new
             PROVE  /\ BlockOf[new[i]].BlockHeight = i - 1
                    /\ i > 1 => BlockOf[new[i]].HashPreviousBlock = new[i - 1]
  BY DEF Linked
<1>1. CASE i \in DOMAIN chain
  <2>1. i > 1 => i - 1 \in DOMAIN chain
    BY <1>1
  <2>2. QED
    BY <1>1, <2>1, AppendBlock DEF Linked
<1>2. CASE i = Len(chain) + 1
  <2>1. i > 1 => chain # << >> /\ Len(chain) \in DOMAIN chain
    BY <1>2
  <2>2. QED
    BY <1>2, <2>1, AppendBlock DEF CanExtend, LinksTo
<1>3. QED
  BY <1>1, <1>2, AppendBlock

\* Extending a shaped chain leaves it shaped.
LEMMA ExtendShaped ==
  ASSUME NEW chain \in Seq(BlockHash), NEW b \in BlockHash,
         Shaped(chain), CanExtend(chain, b)
  PROVE  Shaped(Append(chain, b))
<1> DEFINE new == Append(chain, b)
<1>1. Created(chain) \subseteq Created(new)
  BY AppendCreatedSpent
<1>2. /\ DOMAIN new = DOMAIN chain \cup {Len(chain) + 1}
      /\ \A i \in DOMAIN chain : new[i] = chain[i]
      /\ new[Len(chain) + 1] = b
  BY AppendBlock
<1> HIDE DEF new
<1> SUFFICES ASSUME NEW i \in DOMAIN new
             PROVE  /\ CoinbaseAt(i - 1, TxsOf(new[i]))
                    /\ \A k \in 2 .. Len(TxsOf(new[i])) :
                         /\ InputsOf(TxsOf(new[i])[k]) # << >>
                         /\ Spends(TxsOf(new[i])[k]) \subseteq Created(new)
  BY DEF Shaped, new
<1>3. CASE i \in DOMAIN chain
  BY <1>1, <1>2, <1>3 DEF Shaped
<1>4. CASE i = Len(chain) + 1
  <2>1. i - 1 = Len(chain)
    BY <1>4
  <2>2. QED
    BY <1>1, <1>2, <1>4, <2>1 DEF CanExtend, SpendsUnspentOf
<1>5. QED
  BY <1>2, <1>3, <1>4

-----------------------------------------------------------------------------
(* No output is spent twice                                                *)

\* In a shaped chain the coinbases are the only ones to name ZeroHash, and
\* their inputs hold their heights.
LEMMA CoinbasePlaces ==
  ASSUME NEW chain \in Seq(BlockHash), Shaped(chain),
         NEW i \in DOMAIN chain, NEW k \in DOMAIN TxsOf(chain[i]),
         NEW m \in DOMAIN InputsOf(TxsOf(chain[i])[k])
  PROVE  /\ k = 1 => m = 1 /\ OutpointAt(chain, i, k, m) = <<ZeroHash, i - 1>>
         /\ k # 1 => OutpointAt(chain, i, k, m) \in Created(chain) /\ k \in 2 .. Len(TxsOf(chain[i]))
<1>1. chain[i] \in BlockHash
  OBVIOUS
<1>2. k \in 1 .. Len(TxsOf(chain[i]))
  BY <1>1, BlockTypes
<1>3. TxsOf(chain[i])[k] \in TxHash
  BY <1>1, TransactionAt
<1>4. m \in 1 .. Len(InputsOf(TxsOf(chain[i])[k]))
  BY <1>3, TransactionTypes
<1>5. k = 1 => m = 1 /\ OutpointAt(chain, i, k, m) = <<ZeroHash, i - 1>>
  BY <1>4 DEF Shaped, CoinbaseAt, OutpointAt
<1>6. ASSUME k # 1
      PROVE  OutpointAt(chain, i, k, m) \in Created(chain) /\ k \in 2 .. Len(TxsOf(chain[i]))
  <2>1. k \in 2 .. Len(TxsOf(chain[i]))
    BY <1>1, <1>2, <1>6, BlockTypes
  <2>2. OutpointAt(chain, i, k, m) \in Spends(TxsOf(chain[i])[k])
    BY DEF OutpointAt, Spends
  <2>3. QED
    BY <2>1, <2>2 DEF Shaped
<1>7. QED
  BY <1>5, <1>6

\* Extending a chain that spends every output once leaves it so: the UTXO
\* check keeps the new block off what older blocks spent, SpendsOnce keeps its
\* transactions off each other, and the height keeps its coinbase apart.
LEMMA ExtendSpentOnce ==
  ASSUME NEW chain \in Seq(BlockHash), NEW b \in BlockHash,
         Shaped(chain), SpentOnceIn(chain), CanExtend(chain, b)
  PROVE  SpentOnceIn(Append(chain, b))
<1> DEFINE new == Append(chain, b)
           tip == Len(chain) + 1
<1>1. /\ new \in Seq(BlockHash)
      /\ DOMAIN new = DOMAIN chain \cup {tip}
      /\ \A i \in DOMAIN chain : new[i] = chain[i]
      /\ new[tip] = b
      /\ tip \notin DOMAIN chain
  BY AppendBlock
<1>2. Shaped(new)
  BY ExtendShaped
<1>3. tip - 1 = Len(chain) /\ tip \in Nat /\ DOMAIN chain \subseteq Nat
  OBVIOUS
<1> HIDE DEF new, tip
\* A place in an old block and one in the new block never name the same outpoint.
<1>4. ASSUME NEW i \in DOMAIN chain,
             NEW k \in DOMAIN TxsOf(new[i]), NEW l \in DOMAIN TxsOf(new[tip]),
             NEW m \in DOMAIN InputsOf(TxsOf(new[i])[k]),
             NEW n \in DOMAIN InputsOf(TxsOf(new[tip])[l])
      PROVE  OutpointAt(new, i, k, m) # OutpointAt(new, tip, l, n)
  <2>1. OutpointAt(new, i, k, m) \in Spent(chain)
    BY <1>1, OutpointAtSpent DEF OutpointAt
  <2>2. CASE l # 1
    <3>1. l \in 2 .. Len(TxsOf(b))
      BY <1>1, <1>2, <2>2, CoinbasePlaces
    <3>2. OutpointAt(new, tip, l, n) \in Spends(TxsOf(b)[l])
      BY <1>1 DEF OutpointAt, Spends
    <3>3. OutpointAt(new, tip, l, n) \notin Spent(chain)
      BY <3>1, <3>2 DEF CanExtend, SpendsUnspentOf
    <3>4. QED
      BY <2>1, <3>3
  <2>3. CASE l = 1
    <3>1. OutpointAt(new, tip, l, n) = <<ZeroHash, tip - 1>>
      BY <1>1, <1>2, <2>3, CoinbasePlaces
    <3>2. CASE k = 1
      <4>1. OutpointAt(new, i, k, m) = <<ZeroHash, i - 1>>
        BY <1>1, <1>2, <3>2, CoinbasePlaces
      <4>2. i - 1 # tip - 1
        BY <1>1, <1>3
      <4>3. QED
        BY <3>1, <4>1, <4>2
    <3>3. CASE k # 1
      <4>1. OutpointAt(new, i, k, m) \in Created(new)
        BY <1>1, <1>2, <3>3, CoinbasePlaces
      <4>2. OutpointAt(new, i, k, m) \in TxHash \X Int
        BY <1>1, <4>1, CreatedType
      <4>3. QED
        BY <3>1, <4>2, DataAssumption
    <3>4. QED
      BY <3>2, <3>3
  <2>4. QED
    BY <2>2, <2>3
\* Within the new block.
<1>5. ASSUME NEW k \in DOMAIN TxsOf(new[tip]), NEW l \in DOMAIN TxsOf(new[tip]),
             NEW m \in DOMAIN InputsOf(TxsOf(new[tip])[k]),
             NEW n \in DOMAIN InputsOf(TxsOf(new[tip])[l]),
             OutpointAt(new, tip, k, m) = OutpointAt(new, tip, l, n)
      PROVE  k = l /\ m = n
  <2>1. ASSUME NEW p \in DOMAIN TxsOf(new[tip]), NEW q \in DOMAIN InputsOf(TxsOf(new[tip])[p])
        PROVE  /\ p = 1 => q = 1 /\ OutpointAt(new, tip, p, q) = <<ZeroHash, tip - 1>>
               /\ p # 1 => /\ OutpointAt(new, tip, p, q) \in TxHash \X Int
                           /\ p \in 2 .. Len(TxsOf(b))
    BY <1>1, <1>2, CoinbasePlaces, CreatedType
  <2>2. CASE k = 1 \/ l = 1
    <3>1. k = 1 /\ l = 1
      BY <1>5, <2>1, <2>2, DataAssumption
    <3>2. QED
      BY <3>1, <2>1
  <2>3. CASE k # 1 /\ l # 1
    <3>1. k \in 2 .. Len(TxsOf(b)) /\ l \in 2 .. Len(TxsOf(b))
      BY <2>1, <2>3
    <3>2. SpendsOnce(TxsOf(b))
      BY DEF CanExtend, SpendsUnspentOf
    <3>3. /\ m \in DOMAIN InputsOf(TxsOf(b)[k])
          /\ n \in DOMAIN InputsOf(TxsOf(b)[l])
          /\ OutpointOf(InputsOf(TxsOf(b)[k])[m]) = OutpointOf(InputsOf(TxsOf(b)[l])[n])
      BY <1>1, <1>5 DEF OutpointAt
    <3>4. \A j, p \in 2 .. Len(TxsOf(b)) :
            \A q \in DOMAIN InputsOf(TxsOf(b)[j]), r \in DOMAIN InputsOf(TxsOf(b)[p]) :
              OutpointOf(InputsOf(TxsOf(b)[j])[q]) = OutpointOf(InputsOf(TxsOf(b)[p])[r])
                => j = p /\ q = r
      BY <3>2 DEF SpendsOnce
    <3>5. \A q \in DOMAIN InputsOf(TxsOf(b)[k]), r \in DOMAIN InputsOf(TxsOf(b)[l]) :
              OutpointOf(InputsOf(TxsOf(b)[k])[q]) = OutpointOf(InputsOf(TxsOf(b)[l])[r])
                => k = l /\ q = r
      BY <3>1, <3>4
    <3>6. QED
      BY <3>3, <3>5
  <2>4. QED
    BY <2>2, <2>3
<1>6. ASSUME NEW i \in DOMAIN chain, NEW j \in DOMAIN chain,
             NEW k \in DOMAIN TxsOf(new[i]), NEW l \in DOMAIN TxsOf(new[j]),
             NEW m \in DOMAIN InputsOf(TxsOf(new[i])[k]),
             NEW n \in DOMAIN InputsOf(TxsOf(new[j])[l]),
             OutpointAt(new, i, k, m) = OutpointAt(new, j, l, n)
      PROVE  i = j /\ k = l /\ m = n
  BY <1>1, <1>6 DEF SpentOnceIn, OutpointAt
<1>7. SpentOnceIn(new)
  <2> SUFFICES ASSUME NEW i \in DOMAIN new, NEW j \in DOMAIN new,
                      NEW k \in DOMAIN TxsOf(new[i]), NEW l \in DOMAIN TxsOf(new[j]),
                      NEW m \in DOMAIN InputsOf(TxsOf(new[i])[k]),
                      NEW n \in DOMAIN InputsOf(TxsOf(new[j])[l]),
                      OutpointAt(new, i, k, m) = OutpointAt(new, j, l, n)
               PROVE  i = j /\ k = l /\ m = n
    BY DEF SpentOnceIn
  <2>1. CASE i = tip /\ j = tip
    BY <1>5, <2>1
  <2>2. CASE i # tip /\ j = tip
    BY <1>1, <1>4, <2>2
  <2>3. CASE i = tip /\ j # tip
    BY <1>1, <1>4, <2>3
  <2>4. CASE i # tip /\ j # tip
    BY <1>1, <1>6, <2>4
  <2>5. QED
    BY <2>1, <2>2, <2>3, <2>4
<1>8. QED
  BY <1>7 DEF new

\* Every transaction of a shaped chain has an input, so two places of one
\* transaction would spend one outpoint twice.
LEMMA SpentOnceTransactionsOnce ==
  ASSUME NEW chain \in Seq(BlockHash), Shaped(chain), SpentOnceIn(chain)
  PROVE  TransactionsOnceIn(chain)
<1> SUFFICES ASSUME NEW i \in DOMAIN chain, NEW j \in DOMAIN chain,
                    NEW k \in DOMAIN TxsOf(chain[i]), NEW l \in DOMAIN TxsOf(chain[j]),
                    TxsOf(chain[i])[k] = TxsOf(chain[j])[l]
             PROVE  i = j /\ k = l
  BY DEF TransactionsOnceIn
<1>1. chain[i] \in BlockHash
  OBVIOUS
<1>2. 1 \in DOMAIN InputsOf(TxsOf(chain[i])[k])
  <2>1. InputsOf(TxsOf(chain[i])[k]) \in Seq(Input)
    BY <1>1, TransactionAt, TransactionTypes
  <2>2. k = 1 \/ k \in 2 .. Len(TxsOf(chain[i]))
    BY <1>1, BlockTypes
  <2>3. InputsOf(TxsOf(chain[i])[k]) # << >>
    <3>1. CASE k = 1
      BY <2>1, <3>1 DEF Shaped, CoinbaseAt
    <3>2. CASE k \in 2 .. Len(TxsOf(chain[i]))
      BY <3>2 DEF Shaped
    <3>3. QED
      BY <2>2, <3>1, <3>2
  <2>4. QED
    BY <2>1, <2>3
<1>3. OutpointAt(chain, i, k, 1) = OutpointAt(chain, j, l, 1)
  BY DEF OutpointAt
<1>4. QED
  BY <1>2, <1>3 DEF SpentOnceIn

\* Everything a shaped chain spends, coinbase inputs apart, it created.
LEMMA SpentType ==
  ASSUME NEW chain \in Seq(BlockHash), Shaped(chain), NEW o \in Spent(chain)
  PROVE  o \in Created(chain) \/ o[1] = ZeroHash
<1>1. PICK i \in DOMAIN chain : o \in SpentBy(chain[i])
  BY DEF Spent
<1>2. PICK k \in DOMAIN TxsOf(chain[i]) : o \in Spends(TxsOf(chain[i])[k])
  BY <1>1 DEF SpentBy
<1>3. PICK m \in DOMAIN InputsOf(TxsOf(chain[i])[k]) : o = OutpointAt(chain, i, k, m)
  BY <1>2 DEF Spends, OutpointAt
<1>4. QED
  BY <1>3, CoinbasePlaces

\* Whatever a chain created names one of its transactions.
LEMMA CreatedPlace ==
  ASSUME NEW chain, NEW o \in Created(chain)
  PROVE  \E i \in DOMAIN chain : \E k \in DOMAIN TxsOf(chain[i]) : o[1] = TxsOf(chain[i])[k]
<1>1. PICK i \in DOMAIN chain : o \in CreatedBy(chain[i])
  BY DEF Created
<1>2. PICK k \in DOMAIN TxsOf(chain[i]) : o \in Creates(TxsOf(chain[i])[k])
  BY <1>1 DEF CreatedBy
<1>3. o[1] = TxsOf(chain[i])[k]
  BY <1>2 DEF Creates
<1>4. QED
  BY <1>3

\* What a block creates, neither the chain it extends nor the block itself has
\* spent: no transaction of the block is in the chain.
LEMMA ExtendCreatesFresh ==
  ASSUME NEW chain \in Seq(BlockHash), NEW b \in BlockHash,
         Shaped(chain), SpentOnceIn(chain), CanExtend(chain, b)
  PROVE  CreatedBy(b) \cap (Spent(chain) \cup SpentBy(b)) = {}
<1> DEFINE new == Append(chain, b)
           tip == Len(chain) + 1
<1>1. /\ new \in Seq(BlockHash)
      /\ DOMAIN new = DOMAIN chain \cup {tip}
      /\ \A i \in DOMAIN chain : new[i] = chain[i]
      /\ new[tip] = b
      /\ tip \notin DOMAIN chain
  BY AppendBlock
<1>2. TransactionsOnceIn(new)
  BY <1>1, ExtendShaped, ExtendSpentOnce, SpentOnceTransactionsOnce
<1> HIDE DEF new, tip
<1> SUFFICES ASSUME NEW o \in CreatedBy(b), o \in Spent(chain) \cup SpentBy(b)
             PROVE  FALSE
  OBVIOUS
<1>3. PICK k \in DOMAIN TxsOf(b) : o \in Creates(TxsOf(b)[k])
  BY DEF CreatedBy
<1>4. o[1] = TxsOf(b)[k]
  BY <1>3 DEF Creates
<1>5. o \notin Created(chain)
  <2> SUFFICES ASSUME o \in Created(chain)
               PROVE  FALSE
    OBVIOUS
  <2>1. PICK i \in DOMAIN chain :
          \E l \in DOMAIN TxsOf(chain[i]) : o[1] = TxsOf(chain[i])[l]
    BY CreatedPlace
  <2> PICK l \in DOMAIN TxsOf(chain[i]) : o[1] = TxsOf(chain[i])[l]
    BY <2>1
  <2>2. TxsOf(new[i])[l] = TxsOf(new[tip])[k]
    BY <1>1, <1>4
  <2>3. i = tip
    BY <1>1, <1>2, <2>2 DEF TransactionsOnceIn
  <2>4. QED
    BY <1>1, <2>3
<1>6. o[1] # ZeroHash
  BY <1>4, TransactionAt, DataAssumption
<1>7. o \in SpentBy(b)
  BY <1>5, <1>6, SpentType
<1>8. PICK j \in DOMAIN TxsOf(b) : o \in Spends(TxsOf(b)[j])
  BY <1>7 DEF SpentBy
<1>9. CASE j = 1
  <2>1. DOMAIN InputsOf(TxsOf(b)[1]) = {1}
    BY <1>8, <1>9, TransactionAt, TransactionTypes DEF CanExtend, CoinbaseAt
  <2>2. o = <<ZeroHash, Len(chain)>>
    BY <1>8, <1>9, <2>1 DEF CanExtend, CoinbaseAt, Spends
  <2>3. QED
    BY <1>6, <2>2
<1>10. CASE j # 1
  <2>1. j \in 2 .. Len(TxsOf(b))
    BY <1>10, BlockTypes
  <2>2. QED
    BY <1>5, <1>8, <2>1 DEF CanExtend, SpendsUnspentOf
<1>11. QED
  BY <1>9, <1>10

-----------------------------------------------------------------------------
(* Verification is stable                                                  *)

\* What verification reads only grows: the map of blocks, the transactions
\* that can be looked up, the clock.
Grown ==
  /\ blocks \subseteq blocks'
  /\ \A t \in TxHash : canGetTransaction(t) => canGetTransaction(t)'
  /\ clock \in Int /\ clock' \in Int /\ clock <= clock'

\* The input of a transaction keeps verifying.
LEMMA InputStable ==
  ASSUME Grown, NEW input \in Input, inputVerify(input)
  PROVE  inputVerify(input)'
<1>1. canGetTransaction(input.InputHash)'
  BY DEF Grown, inputVerify, canGetTransaction
<1>2. TxOf[input.InputHash].TimeStamp \in Int
  BY DataAssumption DEF inputVerify, canGetTransaction, Transaction
<1>3. clock' >= TxOf[input.InputHash].TimeStamp
  BY <1>2 DEF Grown, inputVerify
<1>4. QED
  BY <1>1, <1>3 DEF inputVerify

\* A transaction keeps verifying.
LEMMA TransactionStable ==
  ASSUME Grown, NEW t \in TxHash, transactionVerify(t)
  PROVE  transactionVerify(t)'
<1>1. \A i \in DOMAIN InputsOf(t) : InputsOf(t)[i] \in Input
  BY DataAssumption DEF InputsOf, Transaction
<1>2. verifyInputs(t)'
  BY <1>1, InputStable DEF transactionVerify, verifyInputs
<1>3. QED
  BY <1>2 DEF transactionVerify, verifyOutputs, getFees, getInputTotal, InputAmount

\* A wrapped long is an integer.
LEMMA WrapType ==
  ASSUME NEW n \in Int
  PROVE  Wrap(n) \in Int
BY ParameterAssumption DEF Wrap

\* The header of a block keeps verifying.
LEMMA HeaderStable ==
  ASSUME Grown, NEW b \in BlockHash, headerVerify(b)
  PROVE  headerVerify(b)'
<1>1. BlockOf[b].Time \in Int /\ TimeVarianceAllowedSeconds \in Int
  BY DataAssumption, ParameterAssumption DEF Block
<1>2. Wrap(BlockOf[b].Time - TimeVarianceAllowedSeconds) \in Int
  BY <1>1, WrapType
<1>3. Wrap(BlockOf[b].Time - TimeVarianceAllowedSeconds) <= clock'
  BY <1>2 DEF Grown, headerVerify
<1>4. QED
  BY <1>3 DEF Grown, headerVerify

\* A block keeps verifying.
LEMMA BlockStable ==
  ASSUME Grown, NEW b \in BlockHash, blockVerify(b)
  PROVE  blockVerify(b)'
<1>1. headerVerify(b)'
  BY HeaderStable DEF blockVerify
<1>2. \A k \in 2 .. Len(TxsOf(b)) : TxsOf(b)[k] \in TxHash
  BY DataAssumption DEF TxsOf, Block
<1>3. \A k \in 2 .. Len(TxsOf(b)) : transactionVerify(TxsOf(b)[k])'
  BY <1>2, TransactionStable DEF blockVerify, verifyTransactions
<1>4. verifyTransactions(b)'
  BY <1>3 DEF blockVerify, verifyTransactions, verifyCoinbase, verifyOutputs
<1>5. verifyBlockReward(b)'
  BY DEF blockVerify, verifyBlockReward, getBlockFees, getFees, getInputTotal, InputAmount
<1>6. QED
  BY <1>1, <1>4, <1>5 DEF blockVerify

-----------------------------------------------------------------------------
(* Sums                                                                    *)

Plus(x, y) == x + y

Sums == INSTANCE Folding WITH Op <- Plus

Integral(f, S) == \A x \in S : f[x] \in Int

\* Every finite set is reached element by element.
LEMMA SetBySet ==
  ASSUME NEW S, IsFiniteSet(S), NEW P, {} \in P,
         \A T \in SUBSET S : \A x \in S \ T : T \in P => T \cup {x} \in P
  PROVE  S \in P
<1>1. Sums!IsFiniteSet(S)
  BY DEF IsFiniteSet, Sums!IsFiniteSet
<1>2. QED
  BY <1>1, Sums!FiniteInduction

\* A sum is a fold with +, and may begin with any element.
LEMMA SumSplit ==
  ASSUME NEW S, IsFiniteSet(S), NEW f, Integral(f, S)
  PROVE  /\ SumFunctionOnSet(f, S) \in Int
         /\ S = {} => SumFunctionOnSet(f, S) = 0
         /\ \A x \in S : SumFunctionOnSet(f, S) = f[x] + SumFunctionOnSet(f, S \ {x})
<1>1. ASSUME NEW T
      PROVE  SumFunctionOnSet(f, T) = Sums!FoldOver(0, f, T)
  BY DEF SumFunctionOnSet, FoldFunctionOnSet, MapThenFoldSet, Plus,
         Sums!FoldOver, Sums!FoldFunctionOnSet, Sums!MapThenFoldSet
<1>2. Sums!IsFiniteSet(S)
  BY DEF IsFiniteSet, Sums!IsFiniteSet
<1>3. Sums!StaysOver(Int, f, S) /\ Sums!Commutes(Int, f, S)
  BY DEF Integral, Plus, Sums!StaysOver, Sums!Commutes
<1>4. /\ Sums!FoldOver(0, f, S) \in Int
      /\ S = {} => Sums!FoldOver(0, f, S) = 0
  <2> DEFINE V == Int
             base == 0
  <2>1. base \in V /\ Sums!StaysOver(V, f, S)
    BY <1>3
  <2> HIDE DEF V, base
  <2>2. Sums!FoldOver(base, f, S) \in V
    BY <1>2, <2>1, Sums!FoldOverStep
  <2>3. S = {} => Sums!FoldOver(base, f, S) = base
    BY <1>2, <2>1, Sums!FoldOverStep
  <2>4. QED
    BY <2>2, <2>3 DEF V, base
<1>5. \A x \in S : Sums!FoldOver(0, f, S) = Plus(f[x], Sums!FoldOver(0, f, S \ {x}))
  BY <1>2, <1>3, Sums!FoldOverSplit
<1>6. QED
  BY <1>1, <1>4, <1>5 DEF Plus

\* One element more.
LEMMA SumAdd ==
  ASSUME NEW S, IsFiniteSet(S), NEW f, Integral(f, S)
  PROVE  /\ SumFunctionOnSet(f, {}) = 0
         /\ \A T \in SUBSET S :
              /\ SumFunctionOnSet(f, T) \in Int
              /\ \A x \in S \ T : SumFunctionOnSet(f, T \cup {x}) = f[x] + SumFunctionOnSet(f, T)
<1>1. \A T \in SUBSET S : IsFiniteSet(T) /\ Integral(f, T)
  BY FS_Subset DEF Integral
<1>2. SumFunctionOnSet(f, {}) = 0
  BY <1>1, SumSplit
<1>3. ASSUME NEW T \in SUBSET S
      PROVE  SumFunctionOnSet(f, T) \in Int
  BY <1>1, SumSplit
<1>4. ASSUME NEW T \in SUBSET S, NEW x \in S \ T
      PROVE  SumFunctionOnSet(f, T \cup {x}) = f[x] + SumFunctionOnSet(f, T)
  <2>1. T \cup {x} \in SUBSET S /\ x \in T \cup {x} /\ (T \cup {x}) \ {x} = T
    OBVIOUS
  <2>2. SumFunctionOnSet(f, T \cup {x}) = f[x] + SumFunctionOnSet(f, (T \cup {x}) \ {x})
    BY <1>1, <2>1, SumSplit
  <2>3. QED
    BY <2>1, <2>2
<1>5. QED
  BY <1>2, <1>3, <1>4

\* Larger values, a larger sum; in particular the same values, the same sum.
LEMMA SumMonotone ==
  ASSUME NEW S, IsFiniteSet(S), NEW f, NEW g, Integral(f, S), Integral(g, S),
         \A x \in S : f[x] <= g[x]
  PROVE  SumFunctionOnSet(f, S) <= SumFunctionOnSet(g, S)
<1> DEFINE P == {T \in SUBSET S : SumFunctionOnSet(f, T) <= SumFunctionOnSet(g, T)}
<1>1. {} \in P
  BY SumAdd
<1>2. ASSUME NEW T \in SUBSET S, NEW x \in S \ T, T \in P
      PROVE  T \cup {x} \in P
  <2>1. /\ SumFunctionOnSet(f, T) \in Int /\ SumFunctionOnSet(g, T) \in Int
        /\ SumFunctionOnSet(f, T \cup {x}) = f[x] + SumFunctionOnSet(f, T)
        /\ SumFunctionOnSet(g, T \cup {x}) = g[x] + SumFunctionOnSet(g, T)
    BY SumAdd
  <2>2. f[x] \in Int /\ g[x] \in Int /\ f[x] <= g[x]
    BY DEF Integral
  <2>3. QED
    BY <1>2, <2>1, <2>2
<1> HIDE DEF P
<1>3. S \in P
  BY <1>1, <1>2, SetBySet
<1>4. QED
  BY <1>3 DEF P

LEMMA SumSame ==
  ASSUME NEW S, IsFiniteSet(S), NEW f, NEW g, Integral(f, S), \A x \in S : f[x] = g[x]
  PROVE  SumFunctionOnSet(f, S) = SumFunctionOnSet(g, S)
<1>1. Integral(g, S) /\ \A x \in S : f[x] <= g[x] /\ g[x] <= f[x]
  BY DEF Integral
<1>2. /\ SumFunctionOnSet(f, S) <= SumFunctionOnSet(g, S)
      /\ SumFunctionOnSet(g, S) <= SumFunctionOnSet(f, S)
  BY <1>1, SumMonotone
<1>3. SumFunctionOnSet(f, S) \in Int /\ SumFunctionOnSet(g, S) \in Int
  BY <1>1, SumSplit
<1>4. QED
  BY <1>2, <1>3

\* Sums of differences.
LEMMA SumMinus ==
  ASSUME NEW S, IsFiniteSet(S), NEW f, NEW g, NEW d, Integral(f, S), Integral(g, S),
         \A x \in S : d[x] = f[x] - g[x]
  PROVE  SumFunctionOnSet(d, S) = SumFunctionOnSet(f, S) - SumFunctionOnSet(g, S)
<1> DEFINE P == {T \in SUBSET S :
                   SumFunctionOnSet(d, T) = SumFunctionOnSet(f, T) - SumFunctionOnSet(g, T)}
<1>1. Integral(d, S)
  BY DEF Integral
<1>2. {} \in P
  BY <1>1, SumAdd
<1>3. ASSUME NEW T \in SUBSET S, NEW x \in S \ T, T \in P
      PROVE  T \cup {x} \in P
  <2>1. /\ SumFunctionOnSet(f, T) \in Int /\ SumFunctionOnSet(g, T) \in Int
        /\ SumFunctionOnSet(f, T \cup {x}) = f[x] + SumFunctionOnSet(f, T)
        /\ SumFunctionOnSet(g, T \cup {x}) = g[x] + SumFunctionOnSet(g, T)
        /\ SumFunctionOnSet(d, T \cup {x}) = d[x] + SumFunctionOnSet(d, T)
    BY <1>1, SumAdd
  <2>2. f[x] \in Int /\ g[x] \in Int /\ d[x] = f[x] - g[x]
    BY DEF Integral
  <2>3. QED
    BY <1>3, <2>1, <2>2
<1> HIDE DEF P
<1>4. S \in P
  BY <1>2, <1>3, SetBySet
<1>5. QED
  BY <1>4 DEF P

\* A sum falls into the sums of two parts.
LEMMA SumParts ==
  ASSUME NEW S, IsFiniteSet(S), NEW f, Integral(f, S), NEW A \in SUBSET S
  PROVE  SumFunctionOnSet(f, S) = SumFunctionOnSet(f, A) + SumFunctionOnSet(f, S \ A)
<1> DEFINE B == S \ A
           P == {T \in SUBSET B :
                   SumFunctionOnSet(f, A \cup T) = SumFunctionOnSet(f, A) + SumFunctionOnSet(f, T)}
<1>1. IsFiniteSet(B)
  BY FS_Subset
<1>2. {} \in P
  <2>1. A \cup {} = A /\ SumFunctionOnSet(f, A) \in Int /\ SumFunctionOnSet(f, {}) = 0
    BY SumAdd
  <2>2. QED
    BY <2>1
<1>3. ASSUME NEW T \in SUBSET B, NEW x \in B \ T, T \in P
      PROVE  T \cup {x} \in P
  <2> DEFINE U == A \cup T
  <2>1. /\ U \in SUBSET S /\ x \in S \ U /\ T \in SUBSET S /\ x \in S \ T
        /\ A \cup (T \cup {x}) = U \cup {x} /\ T \cup {x} \in SUBSET B
    OBVIOUS
  <2>2. SumFunctionOnSet(f, U) = SumFunctionOnSet(f, A) + SumFunctionOnSet(f, T)
    BY <1>3
  <2> HIDE DEF U, B
  <2>3. SumFunctionOnSet(f, U \cup {x}) = f[x] + SumFunctionOnSet(f, U)
    BY <2>1, SumAdd
  <2>4. SumFunctionOnSet(f, T \cup {x}) = f[x] + SumFunctionOnSet(f, T)
    BY <2>1, SumAdd
  <2>5. SumFunctionOnSet(f, A) \in Int /\ SumFunctionOnSet(f, T) \in Int /\ f[x] \in Int
    BY <2>1, SumAdd DEF Integral
  <2>6. SumFunctionOnSet(f, U \cup {x}) = SumFunctionOnSet(f, A) + SumFunctionOnSet(f, T \cup {x})
    BY <2>2, <2>3, <2>4, <2>5
  <2>7. SumFunctionOnSet(f, A \cup (T \cup {x}))
          = SumFunctionOnSet(f, A) + SumFunctionOnSet(f, T \cup {x})
    BY <2>1, <2>6
  <2>8. QED
    BY <2>1, <2>7
<1>4. B \in P
  <2> HIDE DEF P, B
  <2>1. QED
    BY <1>1, <1>2, <1>3, SetBySet
<1>5. A \cup B = S
  OBVIOUS
<1>6. QED
  BY <1>4, <1>5

\* What is not negative sums up to what is not negative, and to less on a part.
LEMMA SumSubset ==
  ASSUME NEW S, IsFiniteSet(S), NEW f, Integral(f, S), \A x \in S : f[x] >= 0,
         NEW A \in SUBSET S
  PROVE  0 <= SumFunctionOnSet(f, A) /\ SumFunctionOnSet(f, A) <= SumFunctionOnSet(f, S)
<1> DEFINE P == {T \in SUBSET S : 0 <= SumFunctionOnSet(f, T)}
<1>1. {} \in P
  BY SumAdd
<1>2. ASSUME NEW T \in SUBSET S, NEW x \in S \ T, T \in P
      PROVE  T \cup {x} \in P
  <2>1. /\ SumFunctionOnSet(f, T) \in Int /\ f[x] \in Int
        /\ SumFunctionOnSet(f, T \cup {x}) = f[x] + SumFunctionOnSet(f, T)
    BY SumAdd DEF Integral
  <2>2. QED
    BY <1>2, <2>1
<1> HIDE DEF P
<1>3. ASSUME NEW T \in SUBSET S
      PROVE  T \in P
  <2>1. IsFiniteSet(T)
    BY FS_Subset
  <2>2. QED
    BY <1>1, <1>2, <2>1, SetBySet
<1>4. 0 <= SumFunctionOnSet(f, A) /\ 0 <= SumFunctionOnSet(f, S \ A)
  BY <1>3 DEF P
<1>5. SumFunctionOnSet(f, A) \in Int /\ SumFunctionOnSet(f, S \ A) \in Int
  BY SumAdd
<1>6. QED
  BY <1>4, <1>5, SumParts

\* Two parts that may overlap are worth no more together than one by one.
LEMMA SumCover ==
  ASSUME NEW S, IsFiniteSet(S), NEW f, Integral(f, S), \A x \in S : f[x] >= 0,
         NEW A \in SUBSET S, NEW B \in SUBSET S
  PROVE  SumFunctionOnSet(f, A \cup B) <= SumFunctionOnSet(f, A) + SumFunctionOnSet(f, B)
<1> DEFINE C == A \cup B
           D == C \ A
<1>1. /\ A \in SUBSET C /\ D \in SUBSET B
      /\ B \in SUBSET S /\ D \in SUBSET S /\ C \in SUBSET S
  OBVIOUS
<1>2. IsFiniteSet(C) /\ IsFiniteSet(B) /\ Integral(f, C) /\ Integral(f, B)
      /\ \A x \in B : f[x] >= 0
  BY <1>1, FS_Subset DEF Integral
<1>3. SumFunctionOnSet(f, C) = SumFunctionOnSet(f, A) + SumFunctionOnSet(f, D)
  BY <1>1, <1>2, SumParts
<1> HIDE DEF C, D
<1>4. SumFunctionOnSet(f, D) <= SumFunctionOnSet(f, B)
  BY <1>1, <1>2, SumSubset
<1>5. SumFunctionOnSet(f, A) \in Int /\ SumFunctionOnSet(f, B) \in Int
      /\ SumFunctionOnSet(f, D) \in Int
  BY <1>1, SumAdd
<1>6. SumFunctionOnSet(f, C) <= SumFunctionOnSet(f, A) + SumFunctionOnSet(f, B)
  BY <1>3, <1>4, <1>5
<1>7. QED
  BY <1>6 DEF C

\* The sum over an index set of distinct elements is the sum over the elements.
LEMMA SumReindex ==
  ASSUME NEW S, IsFiniteSet(S), NEW f, Integral(f, S),
         NEW K, IsFiniteSet(K), NEW at \in [K -> S], NEW g,
         \A j, k \in K : at[j] = at[k] => j = k,
         \A k \in K : g[k] = f[at[k]]
  PROVE  SumFunctionOnSet(g, K) = SumFunctionOnSet(f, {at[k] : k \in K})
<1> DEFINE Image(T) == {at[k] : k \in T}
           P == {T \in SUBSET K : SumFunctionOnSet(g, T) = SumFunctionOnSet(f, Image(T))}
<1>1. Integral(g, K)
  BY DEF Integral
<1>2. {} \in P
  <2>1. Image({}) = {}
    OBVIOUS
  <2>2. SumFunctionOnSet(g, {}) = 0 /\ SumFunctionOnSet(f, {}) = 0
    BY <1>1, SumAdd
  <2>3. QED
    BY <2>1, <2>2
<1>3. ASSUME NEW T \in SUBSET K, NEW k \in K \ T, T \in P
      PROVE  T \cup {k} \in P
  <2> DEFINE I == Image(T)
  <2>1. /\ I \in SUBSET S /\ at[k] \in S \ I
        /\ Image(T \cup {k}) = I \cup {at[k]}
    OBVIOUS
  <2>2. SumFunctionOnSet(g, T) = SumFunctionOnSet(f, I)
    BY <1>3
  <2> HIDE DEF I, Image
  <2>3. SumFunctionOnSet(f, I \cup {at[k]}) = f[at[k]] + SumFunctionOnSet(f, I)
    BY <2>1, SumAdd
  <2>4. SumFunctionOnSet(g, T \cup {k}) = g[k] + SumFunctionOnSet(g, T)
    BY <1>1, SumAdd
  <2>5. SumFunctionOnSet(g, T \cup {k}) = SumFunctionOnSet(f, Image(T \cup {k}))
    BY <2>1, <2>2, <2>3, <2>4
  <2>6. QED
    BY <2>5
<1>4. K \in P
  <2> HIDE DEF P
  <2>1. QED
    BY <1>2, <1>3, SetBySet
<1>5. QED
  BY <1>4

\* The sum over a union of sets no two of which meet is the sum of their sums.
LEMMA SumUnion ==
  ASSUME NEW S, IsFiniteSet(S), NEW f, Integral(f, S),
         NEW K, IsFiniteSet(K), NEW part \in [K -> SUBSET S], NEW g,
         \A k \in K : g[k] = SumFunctionOnSet(f, part[k]),
         \A j, k \in K : j # k => part[j] \cap part[k] = {}
  PROVE  SumFunctionOnSet(f, UNION {part[k] : k \in K}) = SumFunctionOnSet(g, K)
<1> DEFINE Joint(T) == UNION {part[k] : k \in T}
           P == {T \in SUBSET K : SumFunctionOnSet(f, Joint(T)) = SumFunctionOnSet(g, T)}
<1>1. Integral(g, K)
  BY SumAdd DEF Integral
<1>2. {} \in P
  <2>1. Joint({}) = {}
    OBVIOUS
  <2>2. SumFunctionOnSet(g, {}) = 0 /\ SumFunctionOnSet(f, {}) = 0
    BY <1>1, SumAdd
  <2>3. QED
    BY <2>1, <2>2
<1>3. ASSUME NEW T \in SUBSET K, NEW k \in K \ T, T \in P
      PROVE  T \cup {k} \in P
  <2> DEFINE J == Joint(T)
             p == part[k]
             C == J \cup p
  <2>1. /\ J \in SUBSET C /\ C \ J = p /\ C \in SUBSET S
        /\ Joint(T \cup {k}) = C
    OBVIOUS
  <2>2. SumFunctionOnSet(f, J) = SumFunctionOnSet(g, T)
    BY <1>3
  <2>3. g[k] = SumFunctionOnSet(f, p)
    OBVIOUS
  <2> HIDE DEF J, p, C, Joint
  <2>4. SumFunctionOnSet(g, T \cup {k}) = g[k] + SumFunctionOnSet(g, T)
        /\ g[k] \in Int /\ SumFunctionOnSet(g, T) \in Int
    BY <1>1, SumAdd DEF Integral
  <2>5. SumFunctionOnSet(f, C) = SumFunctionOnSet(f, J) + SumFunctionOnSet(f, C \ J)
    <3>1. IsFiniteSet(C) /\ Integral(f, C)
      BY <2>1, FS_Subset DEF Integral
    <3>2. QED
      BY <2>1, <3>1, SumParts
  <2>6. SumFunctionOnSet(f, C) = SumFunctionOnSet(f, J) + SumFunctionOnSet(f, p)
    BY <2>1, <2>5
  <2>7. SumFunctionOnSet(f, C) = SumFunctionOnSet(g, T \cup {k})
    BY <2>2, <2>3, <2>4, <2>6
  <2>8. QED
    BY <2>1, <2>7
<1>4. K \in P
  <2> HIDE DEF P
  <2>1. QED
    BY <1>2, <1>3, SetBySet
<1>5. QED
  BY <1>4

-----------------------------------------------------------------------------
(* Longs and rewards                                                       *)

\* What fits into a long is not changed by being put into one.
LEMMA WrapSame ==
  ASSUME NEW n \in Int, -LongMax - 1 <= n, n <= LongMax
  PROVE  Wrap(n) = n
<1>1. n + LongMax + 1 \in Nat /\ 2 * (LongMax + 1) \in Nat \ {0}
      /\ n + LongMax + 1 < 2 * (LongMax + 1)
  BY ParameterAssumption
<1>2. \A m \in Nat \ {0} : \A x \in Nat : x < m => x % m = x
  OBVIOUS
<1>3. (n + LongMax + 1) % (2 * (LongMax + 1)) = n + LongMax + 1
  BY <1>1, <1>2
<1>4. QED
  BY <1>3, ParameterAssumption DEF Wrap

\* Wrapping takes away from a sum of coins, and leaves at most the largest long.
LEMMA WrapBelow ==
  ASSUME NEW n \in Nat
  PROVE  Wrap(n) \in Int /\ Wrap(n) <= n /\ Wrap(n) <= LongMax
<1> DEFINE m == 2 * (LongMax + 1)
           x == n + LongMax + 1
<1>1. m \in Nat \ {0} /\ x \in Nat /\ LongMax \in Nat
  BY ParameterAssumption
<1>2. \A j \in Nat \ {0} : \A i \in Nat : i % j \in Nat /\ i % j <= i /\ i % j < j
  <2>1. ASSUME NEW j \in Nat \ {0}, NEW i \in Nat
        PROVE  i % j \in Nat /\ i % j <= i /\ i % j < j
    <3>1. i % j \in 0 .. (j - 1)
      OBVIOUS
    <3>2. i < j => i % j = i
      OBVIOUS
    <3>3. QED
      BY <3>1, <3>2
  <2>2. QED
    BY <2>1
<1>3. x % m \in Nat /\ x % m <= x /\ x % m < m
  BY <1>1, <1>2
<1>4. Wrap(n) = (x % m) - LongMax - 1
  BY DEF Wrap
<1> DEFINE r == x % m
<1>5. r \in Nat /\ r <= n + LongMax + 1 /\ r < 2 * (LongMax + 1) /\ Wrap(n) = r - LongMax - 1
  BY <1>3, <1>4
<1> HIDE DEF r, x, m
<1>6. QED
  BY <1>1, <1>5

\* A power of two is the number of subsets of a set: not zero.
LEMMA PowerPositive ==
  ASSUME NEW k \in Nat
  PROVE  2^k \in Nat \ {0}
<1>1. IsFiniteSet(1 .. k) /\ Cardinality(1 .. k) = k
  BY FS_Interval
<1>2. IsFiniteSet(SUBSET (1 .. k)) /\ Cardinality(SUBSET (1 .. k)) = 2^k
  BY <1>1, FS_SUBSET
<1>3. SUBSET (1 .. k) # {}
  OBVIOUS
<1>4. Cardinality(SUBSET (1 .. k)) # 0 /\ Cardinality(SUBSET (1 .. k)) \in Nat
  BY <1>2, <1>3, FS_EmptySet, FS_CardinalityType
<1>5. QED
  BY <1>2, <1>4

\* No block takes coins away: the reward is not negative.
LEMMA RewardType ==
  ASSUME NEW height \in Int
  PROVE  calculateBlockReward(height) \in Nat
<1> DEFINE halvings == (height \div HalvingInterval) % 64
           power == 2^halvings
<1>1. height \div HalvingInterval \in Int
  BY ParameterAssumption
<1>2. halvings \in Nat
  BY <1>1
<1> HIDE DEF halvings
<1>3. power \in Nat \ {0}
  BY <1>2, PowerPositive
<1> HIDE DEF power
<1>4. CoinReward \div power \in Nat
  BY <1>3, ParameterAssumption
<1>5. QED
  BY <1>4 DEF calculateBlockReward, power, halvings

\* The image of a finite set is finite.
LEMMA FiniteImage ==
  ASSUME NEW K, IsFiniteSet(K), NEW at, at \in [K -> {at[k] : k \in K}]
  PROVE  IsFiniteSet({at[k] : k \in K})
<1> DEFINE I == {at[k] : k \in K}
<1>1. at \in Surjection(K, I)
  BY DEF Surjection
<1> HIDE DEF I
<1>2. IsFiniteSet(I)
  BY <1>1, FS_Surjection
<1>3. QED
  BY <1>2 DEF I

\* Totals are numbers, and so is a fee.
LEMMA FeesType ==
  ASSUME NEW t \in TxHash, verifyInputs(t)
  PROVE  getInputTotal(t) \in Int /\ getOutputTotal(t) \in Int /\ getFees(t) \in Int
<1> DEFINE in  == [i \in DOMAIN InputsOf(t) |-> InputAmount(InputsOf(t)[i])]
           out == [i \in DOMAIN OutputsOf(t) |-> OutputsOf(t)[i].Amount]
<1>1. InputsOf(t) \in Seq(Input) /\ OutputsOf(t) \in Seq(Output)
  BY DataAssumption DEF InputsOf, OutputsOf, Transaction
<1>2. IsFiniteSet(DOMAIN in) /\ IsFiniteSet(DOMAIN out)
  BY <1>1, FS_Interval
<1>3. Integral(out, DOMAIN out)
  <2>1. \A i \in DOMAIN OutputsOf(t) : OutputsOf(t)[i] \in Output
    BY <1>1
  <2>2. QED
    BY <2>1 DEF Integral, Output
<1>4. Integral(in, DOMAIN in)
  <2> SUFFICES ASSUME NEW i \in DOMAIN InputsOf(t)
               PROVE  InputAmount(InputsOf(t)[i]) \in Int
    BY DEF Integral
  <2> DEFINE u == InputsOf(t)[i].InputHash
             n == InputsOf(t)[i].IndexNumber + 1
  <2>1. u \in TxHash /\ n \in DOMAIN OutputsOf(u)
    BY DEF verifyInputs, inputVerify, canGetTransaction, OutputExists, OutpointOf
  <2>2. OutputsOf(u) \in Seq(Output)
    BY <2>1, DataAssumption DEF OutputsOf, Transaction
  <2>3. OutputsOf(u)[n] \in Output
    BY <2>1, <2>2
  <2>4. QED
    BY <2>3 DEF InputAmount, Output
<1>5. getInputTotal(t) = Wrap(SumFunctionOnSet(in, DOMAIN in))
      /\ getOutputTotal(t) = Wrap(SumFunctionOnSet(out, DOMAIN out))
  BY DEF getInputTotal, getOutputTotal, Total, SumFunction
<1> HIDE DEF in, out
<1>6. SumFunctionOnSet(in, DOMAIN in) \in Int
  BY <1>2, <1>4, SumSplit
<1>7. SumFunctionOnSet(out, DOMAIN out) \in Int
  BY <1>2, <1>3, SumSplit
<1>8. getInputTotal(t) \in Int /\ getOutputTotal(t) \in Int
  BY <1>5, <1>6, <1>7, WrapType
<1>9. QED
  BY <1>8, WrapType DEF getFees

-----------------------------------------------------------------------------
(* What a block does to the worth of the unspent outputs                   *)

\* What outputs are worth.
Amounts  == [o \in TxHash \X Int |-> OutputsOf(o[1])[o[2] + 1].Amount]
Worth(S) == SumFunctionOnSet(Amounts, S)

\* Finitely many outputs, each worth something.
Coins(S) ==
  /\ IsFiniteSet(S)
  /\ S \subseteq TxHash \X Int
  /\ \A o \in S : Amounts[o] \in Int /\ Amounts[o] > 0

\* Parts of coins, and coins together, are coins.
LEMMA CoinsParts ==
  ASSUME NEW S, Coins(S)
  PROVE  /\ Integral(Amounts, S) /\ \A o \in S : Amounts[o] >= 0
         /\ \A T \in SUBSET S :
              /\ Coins(T) /\ Worth(T) \in Nat /\ Worth(T) <= Worth(S)
              /\ Worth(S) = Worth(T) + Worth(S \ T)
<1>1. Integral(Amounts, S) /\ IsFiniteSet(S) /\ \A o \in S : Amounts[o] >= 0
  BY DEF Coins, Integral
<1>2. ASSUME NEW T \in SUBSET S
      PROVE  /\ Coins(T) /\ Worth(T) \in Nat /\ Worth(T) <= Worth(S)
             /\ Worth(S) = Worth(T) + Worth(S \ T)
  <2>1. Coins(T)
    BY FS_Subset DEF Coins
  <2>2. SumFunctionOnSet(Amounts, T) \in Int
    BY <1>1, SumAdd
  <2>3. 0 <= SumFunctionOnSet(Amounts, T)
    BY <1>1, SumSubset
  <2>4. SumFunctionOnSet(Amounts, T) <= SumFunctionOnSet(Amounts, S)
    BY <1>1, SumSubset
  <2>5. SumFunctionOnSet(Amounts, S)
          = SumFunctionOnSet(Amounts, T) + SumFunctionOnSet(Amounts, S \ T)
    BY <1>1, SumParts
  <2>6. QED
    BY <2>1, <2>2, <2>3, <2>4, <2>5 DEF Worth
<1>3. QED
  BY <1>1, <1>2

\* A verified transaction creates coins, worth what its total says and what the
\* total has lost.
LEMMA CreatesWorth ==
  ASSUME NEW t \in TxHash, verifyOutputs(t)
  PROVE  /\ Coins(Creates(t))
         /\ Worth(Creates(t)) = getOutputTotal(t) + Overflow(t)
         /\ Worth(Creates(t)) \in Nat /\ Overflow(t) \in Nat
         /\ getOutputTotal(t) \in Int /\ getOutputTotal(t) <= LongMax
<1> DEFINE K == DOMAIN OutputsOf(t)
           at == [i \in K |-> <<t, i - 1>>]
           g == [i \in K |-> OutputsOf(t)[i].Amount]
<1>1. /\ K = 1 .. Len(OutputsOf(t)) /\ Len(OutputsOf(t)) \in Nat
      /\ \A i \in K : OutputsOf(t)[i].Amount \in Int /\ OutputsOf(t)[i].Amount > 0
  <2>1. OutputsOf(t) \in Seq(Output)
    BY DataAssumption DEF OutputsOf, Transaction
  <2>2. \A i \in K : OutputsOf(t)[i] \in Output
    BY <2>1
  <2>3. \A i \in K : OutputsOf(t)[i].Amount \in Int
    BY <2>2 DEF Output
  <2>4. QED
    BY <2>1, <2>3 DEF verifyOutputs
<1>2. IsFiniteSet(K)
  BY <1>1, FS_Interval
<1>3. /\ {at[i] : i \in K} = Creates(t)
      /\ at \in [K -> Creates(t)]
      /\ Creates(t) \subseteq TxHash \X Int
  BY <1>1 DEF Creates
<1>4. \A i \in K : at[i] \in TxHash \X Int /\ g[i] = Amounts[at[i]]
  BY <1>1 DEF Amounts
<1>5. \A i, j \in K : at[i] = at[j] => i = j
  BY <1>1
<1>6. \A i \in K : g[i] \in Int /\ g[i] > 0
  BY <1>1
<1>7. DOMAIN g = K
  OBVIOUS
<1>8. Overflow(t) = SumFunctionOnSet(g, K) - getOutputTotal(t)
  BY <1>7 DEF Overflow, SumFunction
<1>9. getOutputTotal(t) = Wrap(SumFunctionOnSet(g, K))
  BY <1>7 DEF getOutputTotal, Total, SumFunction
<1> HIDE DEF K, at, g
<1>10. IsFiniteSet(Creates(t))
  BY <1>2, <1>3, FiniteImage
<1>11. \A o \in Creates(t) : Amounts[o] \in Int /\ Amounts[o] > 0
  BY <1>3, <1>4, <1>6
<1>12. Coins(Creates(t))
  BY <1>3, <1>10, <1>11 DEF Coins
<1>13. SumFunctionOnSet(g, K) = Worth(Creates(t))
  <2>1. Integral(Amounts, Creates(t))
    BY <1>11 DEF Integral
  <2>2. SumFunctionOnSet(g, K) = SumFunctionOnSet(Amounts, {at[i] : i \in K})
    BY <1>2, <1>3, <1>4, <1>5, <1>10, <2>1, SumReindex
  <2>3. QED
    BY <1>3, <2>2 DEF Worth
<1>14. Worth(Creates(t)) \in Nat
  BY <1>12, CoinsParts
<1>15. /\ getOutputTotal(t) \in Int /\ getOutputTotal(t) <= LongMax
       /\ getOutputTotal(t) <= Worth(Creates(t))
  BY <1>9, <1>13, <1>14, WrapBelow
<1>16. QED
  BY <1>8, <1>12, <1>13, <1>14, <1>15

\* A transaction that spends coins, each of them once, counts no more than it
\* spends.
LEMMA SpendsWorth ==
  ASSUME NEW S, Coins(S),
         NEW t \in TxHash, Spends(t) \subseteq S,
         \A i, j \in DOMAIN InputsOf(t) :
           OutpointOf(InputsOf(t)[i]) = OutpointOf(InputsOf(t)[j]) => i = j
  PROVE  /\ getInputTotal(t) \in Int /\ getInputTotal(t) <= Worth(Spends(t))
         /\ getInputTotal(t) <= LongMax /\ Worth(Spends(t)) \in Nat
<1> DEFINE K == DOMAIN InputsOf(t)
           at == [i \in K |-> OutpointOf(InputsOf(t)[i])]
           g == [i \in K |-> InputAmount(InputsOf(t)[i])]
<1>1. K = 1 .. Len(InputsOf(t)) /\ Len(InputsOf(t)) \in Nat
  BY DataAssumption DEF InputsOf, Transaction
<1>2. IsFiniteSet(K)
  BY <1>1, FS_Interval
<1>3. {at[i] : i \in K} = Spends(t) /\ at \in [K -> S]
  BY DEF Spends
<1>4. ASSUME NEW i \in K
      PROVE  g[i] = Amounts[at[i]]
  <2>1. at[i] \in TxHash \X Int
    BY <1>3 DEF Coins
  <2>2. at[i] = <<InputsOf(t)[i].InputHash, InputsOf(t)[i].IndexNumber>>
    BY DEF OutpointOf
  <2>3. InputsOf(t)[i].InputHash # ZeroHash
    BY <2>1, <2>2, DataAssumption
  <2>4. QED
    BY <2>1, <2>2, <2>3 DEF Amounts, InputAmount
<1>5. \A i, j \in K : at[i] = at[j] => i = j
  OBVIOUS
<1>6. DOMAIN g = K
  OBVIOUS
<1>7. getInputTotal(t) = Wrap(SumFunctionOnSet(g, K))
  BY <1>6 DEF getInputTotal, Total, SumFunction
<1> HIDE DEF K, at, g
<1>8. SumFunctionOnSet(g, K) = Worth(Spends(t))
  <2>1. Integral(Amounts, S) /\ IsFiniteSet(S)
    BY CoinsParts DEF Coins
  <2>2. SumFunctionOnSet(g, K) = SumFunctionOnSet(Amounts, {at[i] : i \in K})
    BY <1>2, <1>3, <1>4, <1>5, <2>1, SumReindex
  <2>3. QED
    BY <1>3, <2>2 DEF Worth
<1>9. Worth(Spends(t)) \in Nat
  BY CoinsParts
<1>10. QED
  BY <1>7, <1>8, <1>9, WrapBelow

\* Coins and coins are coins, worth no more than one by one.
LEMMA CoinsCover ==
  ASSUME NEW A, NEW B, Coins(A), Coins(B)
  PROVE  Coins(A \cup B) /\ Worth(A \cup B) <= Worth(A) + Worth(B)
<1> DEFINE S == A \cup B
<1>1. Coins(S)
  <2>1. IsFiniteSet(S)
    BY FS_Union DEF Coins
  <2>2. QED
    BY <2>1 DEF Coins
<1>2. A \in SUBSET S /\ B \in SUBSET S
  OBVIOUS
<1> HIDE DEF S
<1>3. IsFiniteSet(S) /\ Integral(Amounts, S) /\ \A o \in S : Amounts[o] >= 0
  BY <1>1, CoinsParts DEF Coins
<1>4. SumFunctionOnSet(Amounts, A \cup B)
        <= SumFunctionOnSet(Amounts, A) + SumFunctionOnSet(Amounts, B)
  BY <1>2, <1>3, SumCover
<1>5. QED
  BY <1>1, <1>4 DEF S, Worth

\* The fee of a verified transaction is no more than what it spends less what its
\* outputs are said to be.
LEMMA FeesWorth ==
  ASSUME NEW S, Coins(S),
         NEW t \in TxHash, transactionVerify(t), Spends(t) \subseteq S,
         \A i, j \in DOMAIN InputsOf(t) :
           OutpointOf(InputsOf(t)[i]) = OutpointOf(InputsOf(t)[j]) => i = j
  PROVE  /\ getFees(t) \in Nat /\ getFees(t) > 0
         /\ getFees(t) <= Worth(Spends(t)) - Worth(Creates(t)) + Overflow(t)
<1>1. /\ getInputTotal(t) \in Int /\ getInputTotal(t) <= Worth(Spends(t))
      /\ getInputTotal(t) <= LongMax /\ Worth(Spends(t)) \in Nat
  BY SpendsWorth
<1>2. /\ Worth(Creates(t)) = getOutputTotal(t) + Overflow(t)
      /\ Worth(Creates(t)) \in Nat /\ Overflow(t) \in Nat
      /\ getOutputTotal(t) \in Int /\ getOutputTotal(t) <= LongMax
  BY CreatesWorth DEF transactionVerify
<1>3. getInputTotal(t) > 0 /\ getOutputTotal(t) > 0 /\ getFees(t) > 0
  BY DEF transactionVerify
<1>4. Wrap(getInputTotal(t) - getOutputTotal(t)) = getInputTotal(t) - getOutputTotal(t)
  BY <1>1, <1>2, <1>3, WrapSame, ParameterAssumption
<1>5. getFees(t) = getInputTotal(t) - getOutputTotal(t)
  BY <1>4 DEF getFees
<1>6. QED
  BY <1>1, <1>2, <1>3, <1>5

-----------------------------------------------------------------------------
(* Blocks                                                                  *)

\* A transaction stands in a block once.
Distinct(txs) == \A j, k \in DOMAIN txs : txs[j] = txs[k] => j = k

\* The transactions of a verified block verify, and create coins.
LEMMA BlockCreatesCoins ==
  ASSUME NEW b \in BlockHash, blockVerify(b)
  PROVE  /\ TxsOf(b) \in Seq(TxHash) /\ Len(TxsOf(b)) \in Nat \ {0}
         /\ DOMAIN TxsOf(b) = 1 .. Len(TxsOf(b))
         /\ \A k \in DOMAIN TxsOf(b) : TxsOf(b)[k] \in TxHash /\ verifyOutputs(TxsOf(b)[k])
         /\ Coins(CreatedBy(b))
<1> DEFINE txs == TxsOf(b)
<1>1. txs \in Seq(TxHash)
  BY DataAssumption DEF TxsOf, Block
<1>2. txs # << >>
  BY DEF blockVerify, verifyBlockReward
<1>3. Len(txs) \in Nat \ {0} /\ DOMAIN txs = 1 .. Len(txs)
      /\ \A k \in DOMAIN txs : txs[k] \in TxHash
  BY <1>1, <1>2
<1>4. ASSUME NEW k \in DOMAIN txs
      PROVE  verifyOutputs(txs[k])
  <2>1. CASE k = 1
    BY <1>2, <2>1 DEF blockVerify, verifyTransactions, verifyCoinbase
  <2>2. CASE k # 1
    <3>1. k \in 2 .. Len(txs)
      BY <1>3, <2>2
    <3>2. QED
      BY <3>1 DEF blockVerify, verifyTransactions, transactionVerify
  <2>3. QED
    BY <2>1, <2>2
<1>5. \A k \in DOMAIN txs : Coins(Creates(txs[k]))
  BY <1>3, <1>4, CreatesWorth
<1>6. IsFiniteSet(CreatedBy(b))
  <2> DEFINE at == [k \in DOMAIN txs |-> Creates(txs[k])]
             sets == {at[k] : k \in DOMAIN txs}
  <2>1. IsFiniteSet(DOMAIN txs)
    BY <1>3, FS_Interval
  <2>2. IsFiniteSet(sets)
    <3>1. at \in [DOMAIN txs -> {at[k] : k \in DOMAIN txs}]
      OBVIOUS
    <3> HIDE DEF at
    <3>2. QED
      BY <2>1, <3>1, FiniteImage
  <2>3. \A s \in sets : IsFiniteSet(s)
    BY <1>5 DEF Coins
  <2>4. CreatedBy(b) = UNION sets
    BY DEF CreatedBy
  <2> HIDE DEF sets
  <2>5. QED
    BY <2>2, <2>3, <2>4, FS_UNION
<1>7. CreatedBy(b) \subseteq TxHash \X Int /\ \A o \in CreatedBy(b) : Amounts[o] \in Int /\ Amounts[o] > 0
  BY <1>5 DEF CreatedBy, Coins
<1>8. QED
  BY <1>1, <1>3, <1>4, <1>6, <1>7 DEF Coins

\* The coinbase spends nothing of worth: it pays no fee.
LEMMA CoinbaseFees ==
  ASSUME NEW t \in TxHash, NEW height, verifyCoinbase(t, height),
         getOutputTotal(t) \in Nat, getOutputTotal(t) <= LongMax
  PROVE  ~(getFees(t) > 0)
<1> DEFINE g == [i \in DOMAIN InputsOf(t) |-> InputAmount(InputsOf(t)[i])]
<1>1. DOMAIN g = {1} /\ g[1] = 0
  <2>1. InputsOf(t) \in Seq(Input) /\ Len(InputsOf(t)) = 1
    BY DataAssumption DEF InputsOf, Transaction, verifyCoinbase
  <2>2. DOMAIN InputsOf(t) = {1}
    BY <2>1
  <2>3. InputsOf(t)[1].InputHash = ZeroHash
    BY DEF verifyCoinbase, OutpointOf
  <2>4. QED
    BY <2>2, <2>3 DEF InputAmount
<1>2. getInputTotal(t) = Wrap(SumFunctionOnSet(g, DOMAIN g))
  BY DEF getInputTotal, Total, SumFunction
<1> HIDE DEF g
<1>3. SumFunctionOnSet(g, {1}) = 0
  <2>1. IsFiniteSet({1}) /\ Integral(g, {1})
    <3>1. IsFiniteSet({1})
      BY FS_Singleton
    <3>2. Integral(g, {1})
      BY <1>1 DEF Integral
    <3>3. QED
      BY <3>1, <3>2
  <2>2. {1} = {} \cup {1} /\ {} \in SUBSET {1} /\ 1 \in {1} \ {}
    OBVIOUS
  <2>3. SumFunctionOnSet(g, {}) = 0 /\ SumFunctionOnSet(g, {} \cup {1}) = g[1] + SumFunctionOnSet(g, {})
    BY <2>1, <2>2, SumAdd
  <2>4. QED
    BY <1>1, <2>2, <2>3
<1>4. Wrap(0) = 0
  BY WrapSame, ParameterAssumption
<1>5. Wrap(0 - getOutputTotal(t)) = 0 - getOutputTotal(t)
  BY WrapSame, ParameterAssumption
<1>6. getFees(t) = 0 - getOutputTotal(t)
  BY <1>1, <1>2, <1>3, <1>4, <1>5 DEF getFees
<1>7. QED
  BY <1>6

\* The coins a block's transactions spend, and the coins they create, without
\* the coinbase.
SpentByOthers(b)   == UNION {Spends(TxsOf(b)[k]) : k \in 2 .. Len(TxsOf(b))}
CreatedByOthers(b) == UNION {Creates(TxsOf(b)[k]) : k \in 2 .. Len(TxsOf(b))}

\* What the totals of a block have lost is a number, also of one that does not
\* verify.
LEMMA OverflowInType ==
  ASSUME NEW b \in BlockHash
  PROVE  OverflowIn(b) \in Int
<1> DEFINE txs == TxsOf(b)
           over == [k \in DOMAIN txs |-> Overflow(txs[k])]
<1>1. txs \in Seq(TxHash)
  BY DataAssumption DEF TxsOf, Block
<1>2. IsFiniteSet(DOMAIN txs)
  BY <1>1, FS_Interval
<1>3. ASSUME NEW t \in TxHash
      PROVE  Overflow(t) \in Int
  <2> DEFINE g == [i \in DOMAIN OutputsOf(t) |-> OutputsOf(t)[i].Amount]
  <2>1. OutputsOf(t) \in Seq(Output)
    BY DataAssumption DEF OutputsOf, Transaction
  <2>2. IsFiniteSet(DOMAIN g)
    BY <2>1, FS_Interval
  <2>3. Integral(g, DOMAIN g)
    <3>1. \A i \in DOMAIN OutputsOf(t) : OutputsOf(t)[i] \in Output
      BY <2>1
    <3>2. QED
      BY <3>1 DEF Integral, Output
  <2>4. Overflow(t) = SumFunctionOnSet(g, DOMAIN g) - Wrap(SumFunctionOnSet(g, DOMAIN g))
    BY DEF Overflow, getOutputTotal, Total, SumFunction
  <2> HIDE DEF g
  <2>5. SumFunctionOnSet(g, DOMAIN g) \in Int
    BY <2>2, <2>3, SumSplit
  <2>6. QED
    BY <2>4, <2>5, WrapType
<1>4. Integral(over, DOMAIN txs)
  BY <1>1, <1>3 DEF Integral
<1>5. OverflowIn(b) = SumFunctionOnSet(over, DOMAIN over) /\ DOMAIN over = DOMAIN txs
  BY DEF OverflowIn, SumFunction
<1> HIDE DEF over, txs
<1>6. SumFunctionOnSet(over, DOMAIN txs) \in Int
  BY <1>2, <1>4, SumSplit
<1>7. QED
  BY <1>5, <1>6

\* What the transactions of a block create is worth no more than what they spend
\* less the fees, and what their totals have lost. The fees the coinbase may take
\* are no more than those.
LEMMA BlockFees ==
  ASSUME NEW S, Coins(S),
         NEW b \in BlockHash, blockVerify(b), Distinct(TxsOf(b)),
         SpentByOthers(b) \subseteq S
  PROVE  \E fees \in Nat :
           /\ getOutputTotal(TxsOf(b)[1]) <= calculateBlockReward(BlockOf[b].BlockHeight) + fees
           /\ Worth(CreatedByOthers(b)) + Overflow(TxsOf(b)[1]) + fees
                <= Worth(SpentByOthers(b)) + OverflowIn(b)
<1> DEFINE txs == TxsOf(b)
           D == DOMAIN txs
           K == 2 .. Len(txs)
           fee == [k \in D |-> IF getFees(txs[k]) > 0 THEN getFees(txs[k]) ELSE 0]
           over == [k \in D |-> Overflow(txs[k])]
           in  == [k \in K |-> Worth(Spends(txs[k]))]
           out == [k \in K |-> Worth(Creates(txs[k]))]
           paid == [k \in K |-> fee[k] - over[k]]
           left == [k \in K |-> in[k] - out[k]]
           spent   == [k \in K |-> Spends(txs[k])]
           created == [k \in K |-> Creates(txs[k])]
           reward == calculateBlockReward(BlockOf[b].BlockHeight)
           first == getOutputTotal(txs[1])
<1>1. /\ D = 1 .. Len(txs) /\ Len(txs) \in Nat \ {0}
      /\ \A k \in D : txs[k] \in TxHash /\ verifyOutputs(txs[k])
      /\ Coins(CreatedBy(b))
  BY BlockCreatesCoins
<1>2. K \subseteq D /\ D \ {1} = K /\ 1 \in D /\ IsFiniteSet(D) /\ IsFiniteSet(K)
  <2>1. K \subseteq D /\ D \ {1} = K /\ 1 \in D
    <3>1. \A n \in Nat \ {0} : 2 .. n \subseteq 1 .. n /\ (1 .. n) \ {1} = 2 .. n /\ 1 \in 1 .. n
      OBVIOUS
    <3>2. QED
      BY <1>1, <3>1
  <2>2. IsFiniteSet(D) /\ IsFiniteSet(K)
    <3>1. D = 1 .. Len(txs) /\ Len(txs) \in Int
      BY <1>1
    <3>2. IsFiniteSet(1 .. Len(txs)) /\ IsFiniteSet(2 .. Len(txs))
      BY <3>1, FS_Interval
    <3>3. QED
      BY <3>1, <3>2
  <2>3. QED
    BY <2>1, <2>2
<1>3. \A k \in K : Spends(txs[k]) \subseteq S /\ Creates(txs[k]) \subseteq CreatedBy(b)
  BY <1>2 DEF SpentByOthers, CreatedBy
<1>4. \A j, k \in K :
        \A m \in DOMAIN InputsOf(txs[j]), n \in DOMAIN InputsOf(txs[k]) :
          OutpointOf(InputsOf(txs[j])[m]) = OutpointOf(InputsOf(txs[k])[n]) => j = k /\ m = n
  <2>1. SpendsOnce(txs)
    BY DEF blockVerify, verifyTransactions
  <2> HIDE DEF txs, fee, over, in, out, paid, left, spent, created, D, reward, first
  <2>2. QED
    BY <2>1 DEF SpendsOnce
<1>5. \A k \in D : over[k] \in Nat
  BY <1>1, CreatesWorth
<1>6. ASSUME NEW k \in K
      PROVE  /\ paid[k] <= left[k] /\ fee[k] \in Nat
             /\ in[k] \in Int /\ out[k] \in Int
  <2>1. txs[k] \in TxHash /\ Spends(txs[k]) \subseteq S
    BY <1>1, <1>2, <1>3
  <2>2. transactionVerify(txs[k])
    BY DEF blockVerify, verifyTransactions
  <2>3. \A m, n \in DOMAIN InputsOf(txs[k]) :
          OutpointOf(InputsOf(txs[k])[m]) = OutpointOf(InputsOf(txs[k])[n]) => m = n
    BY <1>4
  <2>4. /\ getFees(txs[k]) \in Nat /\ getFees(txs[k]) > 0
        /\ getFees(txs[k]) <= Worth(Spends(txs[k])) - Worth(Creates(txs[k])) + Overflow(txs[k])
    BY <2>1, <2>2, <2>3, FeesWorth
  <2>5. Worth(Spends(txs[k])) \in Int
    <3>1. \A T \in SUBSET S : Worth(T) \in Nat
      BY CoinsParts
    <3>2. QED
      BY <2>1, <3>1
  <2>6. Worth(Creates(txs[k])) \in Int
    <3>1. \A T \in SUBSET CreatedBy(b) : Worth(T) \in Nat
      BY <1>1, CoinsParts
    <3>2. QED
      BY <1>3, <3>1
  <2>7. Overflow(txs[k]) \in Nat /\ k \in D
    BY <1>2, <1>5
  <2>8. fee[k] = getFees(txs[k]) /\ over[k] = Overflow(txs[k])
    BY <2>4, <2>7
  <2>9. paid[k] = getFees(txs[k]) - Overflow(txs[k])
        /\ left[k] = Worth(Spends(txs[k])) - Worth(Creates(txs[k]))
    BY <2>8
  <2>10. QED
    BY <2>4, <2>5, <2>6, <2>7, <2>8, <2>9
<1>7. /\ getFees(txs[1]) > 0 => first < 0
      /\ first \in Int /\ first <= Wrap(reward + getBlockFees(b)) /\ getBlockFees(b) >= 0
      /\ ~(getFees(txs[1]) > 0) => fee[1] = 0
  <2>1. verifyCoinbase(txs[1], BlockOf[b].BlockHeight)
    BY DEF blockVerify, verifyTransactions, verifyBlockReward
  <2>2. first \in Int /\ first <= LongMax
    BY <1>1, <1>2, CreatesWorth
  <2>3. first \in Nat => ~(getFees(txs[1]) > 0)
    BY <1>1, <1>2, <2>1, <2>2, CoinbaseFees
  <2>4. first <= Wrap(reward + getBlockFees(b)) /\ getBlockFees(b) >= 0
    BY DEF blockVerify, verifyBlockReward
  <2>5. QED
    BY <1>2, <2>2, <2>3, <2>4
<1>8. getBlockFees(b) = Wrap(SumFunctionOnSet(fee, D))
      /\ OverflowIn(b) = SumFunctionOnSet(over, D) /\ over[1] = Overflow(txs[1])
  BY <1>2 DEF getBlockFees, Total, SumFunction, OverflowIn
<1>9. /\ spent \in [K -> SUBSET S] /\ created \in [K -> SUBSET CreatedBy(b)]
      /\ UNION {spent[k] : k \in K} = SpentByOthers(b)
      /\ UNION {created[k] : k \in K} = CreatedByOthers(b)
      /\ \A k \in K : in[k] = SumFunctionOnSet(Amounts, spent[k])
      /\ \A k \in K : out[k] = SumFunctionOnSet(Amounts, created[k])
      /\ \A k \in K : paid[k] = fee[k] - over[k] /\ left[k] = in[k] - out[k]
  BY <1>3 DEF SpentByOthers, CreatedByOthers, Worth
<1>10. \A j, k \in K : j # k => spent[j] \cap spent[k] = {} /\ created[j] \cap created[k] = {}
  <2>1. ASSUME NEW j \in K, NEW k \in K, NEW o, o \in spent[j], o \in spent[k]
        PROVE  j = k
    <3>1. PICK m \in DOMAIN InputsOf(txs[j]) : o = OutpointOf(InputsOf(txs[j])[m])
      BY <2>1 DEF Spends
    <3>2. PICK n \in DOMAIN InputsOf(txs[k]) : o = OutpointOf(InputsOf(txs[k])[n])
      BY <2>1 DEF Spends
    <3>3. QED
      BY <1>4, <3>1, <3>2
  <2>2. ASSUME NEW j \in K, NEW k \in K, NEW o, o \in created[j], o \in created[k]
        PROVE  j = k
    <3>1. o[1] = txs[j] /\ o[1] = txs[k]
      BY <2>2 DEF Creates
    <3>2. QED
      BY <1>2, <3>1 DEF Distinct
  <2>3. QED
    BY <2>1, <2>2
<1>11. reward \in Nat
  <2> HIDE DEF fee, over, in, out, paid, left, spent, created, D, K, first, txs
  <2>1. BlockOf[b].BlockHeight \in Int
    BY DataAssumption DEF Block
  <2>2. QED
    BY <2>1, RewardType
<1> HIDE DEF fee, over, in, out, paid, left, spent, created, D, K, reward, first
<1> DEFINE F == SumFunctionOnSet(fee, K)
           V == SumFunctionOnSet(over, K)
<1>12. /\ Integral(fee, K) /\ Integral(over, K) /\ Integral(in, K) /\ Integral(out, K)
       /\ Integral(paid, K) /\ Integral(left, K) /\ Integral(over, D)
  <2>1. \A k \in K : fee[k] \in Int /\ over[k] \in Int /\ in[k] \in Int /\ out[k] \in Int
    BY <1>2, <1>5, <1>6
  <2>2. \A k \in K : paid[k] \in Int /\ left[k] \in Int
    BY <1>9, <2>1
  <2>3. QED
    BY <1>5, <2>1, <2>2 DEF Integral
<1>13. F \in Nat /\ V \in Int
  <2>1. F \in Int /\ V \in Int
    BY <1>2, <1>12, SumSplit
  <2>2. 0 <= F
    BY <1>2, <1>6, <1>12, SumSubset
  <2>3. QED
    BY <2>1, <2>2
<1>14. OverflowIn(b) = Overflow(txs[1]) + V
  BY <1>2, <1>8, <1>12, SumSplit
<1>15. first <= reward + F
  <2>1. CASE getFees(txs[1]) > 0
    BY <1>7, <1>11, <1>13, <2>1
  <2>2. CASE ~(getFees(txs[1]) > 0)
    <3>1. fee[1] = 0 /\ Integral(fee, D)
      <4>1. fee[1] = 0
        BY <1>7, <2>2
      <4>2. \A k \in D : fee[k] \in Int
        BY <1>2, <1>6, <4>1
      <4>3. QED
        BY <4>1, <4>2 DEF Integral
    <3>2. SumFunctionOnSet(fee, D) = fee[1] + SumFunctionOnSet(fee, D \ {1})
      BY <1>2, <3>1, SumSplit
    <3>3. SumFunctionOnSet(fee, D) = F
      BY <1>2, <1>13, <3>1, <3>2
    <3>4. getBlockFees(b) \in Int /\ getBlockFees(b) <= F
      BY <1>8, <1>13, <3>3, WrapBelow
    <3>5. getBlockFees(b) \in Nat
      BY <1>7, <3>4
    <3>6. Wrap(reward + getBlockFees(b)) \in Int
          /\ Wrap(reward + getBlockFees(b)) <= reward + getBlockFees(b)
      <4>1. reward + getBlockFees(b) \in Nat
        BY <1>11, <3>5
      <4>2. QED
        BY <4>1, WrapBelow
    <3>7. QED
      BY <1>7, <1>11, <1>13, <3>4, <3>6
  <2>3. QED
    BY <2>1, <2>2
<1>16. /\ SumFunctionOnSet(paid, K) = F - V
       /\ SumFunctionOnSet(left, K) = SumFunctionOnSet(in, K) - SumFunctionOnSet(out, K)
       /\ SumFunctionOnSet(paid, K) <= SumFunctionOnSet(left, K)
  <2>1. SumFunctionOnSet(paid, K) = F - V
    BY <1>2, <1>9, <1>12, SumMinus
  <2>2. SumFunctionOnSet(left, K) = SumFunctionOnSet(in, K) - SumFunctionOnSet(out, K)
    BY <1>2, <1>9, <1>12, SumMinus
  <2>3. SumFunctionOnSet(paid, K) <= SumFunctionOnSet(left, K)
    BY <1>2, <1>6, <1>12, SumMonotone
  <2>4. QED
    BY <2>1, <2>2, <2>3
<1>17. Worth(SpentByOthers(b)) = SumFunctionOnSet(in, K)
  <2>1. IsFiniteSet(S) /\ Integral(Amounts, S) /\ \A o \in S : Amounts[o] >= 0
    BY CoinsParts DEF Coins
  <2>2. SumFunctionOnSet(Amounts, UNION {spent[k] : k \in K}) = SumFunctionOnSet(in, K)
    BY <1>2, <1>9, <1>10, <2>1, SumUnion
  <2>3. QED
    BY <1>9, <2>2 DEF Worth
<1>18. Worth(CreatedByOthers(b)) = SumFunctionOnSet(out, K)
  <2>1. IsFiniteSet(CreatedBy(b)) /\ Integral(Amounts, CreatedBy(b))
    BY <1>1, CoinsParts DEF Coins
  <2>2. SumFunctionOnSet(Amounts, UNION {created[k] : k \in K}) = SumFunctionOnSet(out, K)
    BY <1>2, <1>9, <1>10, <2>1, SumUnion
  <2>3. QED
    BY <1>9, <2>2 DEF Worth
<1>19. SumFunctionOnSet(in, K) \in Int /\ SumFunctionOnSet(out, K) \in Int
  BY <1>2, <1>12, SumSplit
<1>20. Overflow(txs[1]) \in Nat
  BY <1>2, <1>5, <1>8
<1>21. Worth(CreatedByOthers(b)) + Overflow(txs[1]) + F <= Worth(SpentByOthers(b)) + OverflowIn(b)
  <2> HIDE DEF F, V
  <2>1. QED
    BY <1>13, <1>14, <1>16, <1>17, <1>18, <1>19, <1>20
<1>22. F \in Nat /\ first <= reward + F
  BY <1>13, <1>15
<1> HIDE DEF F, V
<1>23. QED
  BY <1>21, <1>22 DEF txs, first, reward

\* A verified block that spends coins adds no more to what the unspent outputs are
\* worth than its reward, and what the totals of its transactions have lost.
LEMMA BlockWorth ==
  ASSUME NEW S, Coins(S), NEW b \in BlockHash, blockVerify(b),
         Distinct(TxsOf(b)), SpentByOthers(b) \subseteq S
  PROVE  /\ Coins((S \ SpentBy(b)) \cup CreatedBy(b))
         /\ OverflowIn(b) \in Int
         /\ Worth((S \ SpentBy(b)) \cup CreatedBy(b))
              <= Worth(S) + calculateBlockReward(BlockOf[b].BlockHeight) + OverflowIn(b)
<1> DEFINE reward == calculateBlockReward(BlockOf[b].BlockHeight)
           first == TxsOf(b)[1]
           spent == SpentByOthers(b)
           rest == S \ SpentBy(b)
<1>1. reward \in Nat
  <2>1. BlockOf[b].BlockHeight \in Int
    BY DataAssumption DEF Block
  <2>2. QED
    BY <2>1, RewardType
<1>2. /\ 1 \in DOMAIN TxsOf(b) /\ first \in TxHash /\ verifyOutputs(first)
      /\ Coins(CreatedBy(b))
  BY BlockCreatesCoins
<1>3. Worth(S) \in Nat /\ Worth(spent) \in Nat /\ Worth(S \ spent) \in Nat
      /\ Worth(S) = Worth(spent) + Worth(S \ spent)
  BY CoinsParts
<1>4. PICK fees \in Nat :
        /\ getOutputTotal(first) <= reward + fees
        /\ Worth(CreatedByOthers(b)) + Overflow(first) + fees <= Worth(spent) + OverflowIn(b)
  BY BlockFees
<1>5. /\ Coins(Creates(first)) /\ Worth(Creates(first)) = getOutputTotal(first) + Overflow(first)
      /\ Overflow(first) \in Nat /\ getOutputTotal(first) \in Int
  BY <1>2, CreatesWorth
<1>6. Worth(Creates(first)) <= reward + fees + Overflow(first)
  BY <1>1, <1>4, <1>5
<1>7. /\ CreatedBy(b) = Creates(first) \cup CreatedByOthers(b)
      /\ CreatedByOthers(b) \subseteq CreatedBy(b) /\ Creates(first) \subseteq CreatedBy(b)
  <2>1. DOMAIN TxsOf(b) = {1} \cup 2 .. Len(TxsOf(b))
    <3>1. \A n \in Nat \ {0} : 1 .. n = {1} \cup 2 .. n
      OBVIOUS
    <3>2. QED
      BY <3>1, BlockCreatesCoins
  <2>2. QED
    BY <2>1 DEF CreatedBy, CreatedByOthers
<1>8. Coins(CreatedByOthers(b))
  BY <1>2, <1>7, CoinsParts
<1>9. Worth(CreatedBy(b)) <= Worth(Creates(first)) + Worth(CreatedByOthers(b))
  BY <1>5, <1>7, <1>8, CoinsCover
<1>10. /\ Worth(CreatedBy(b)) \in Nat /\ Worth(Creates(first)) \in Nat
       /\ Worth(CreatedByOthers(b)) \in Nat
  BY <1>2, <1>7, CoinsParts
<1>11. rest \subseteq S \ spent /\ rest \subseteq S
  <2>1. 2 .. Len(TxsOf(b)) \subseteq DOMAIN TxsOf(b)
    BY BlockCreatesCoins
  <2>2. QED
    BY <2>1 DEF SpentBy, SpentByOthers
<1>12. Coins(rest) /\ Worth(rest) \in Nat /\ Worth(rest) <= Worth(S \ spent)
  <2>1. Coins(S \ spent)
    BY CoinsParts
  <2>2. QED
    BY <1>11, <2>1, CoinsParts
<1>13. OverflowIn(b) \in Int
  BY OverflowInType
<1> HIDE DEF reward, first, spent, rest
<1>14. Coins(rest \cup CreatedBy(b)) /\ Worth(rest \cup CreatedBy(b)) <= Worth(rest) + Worth(CreatedBy(b))
  BY <1>2, <1>12, CoinsCover
<1>15. Worth(rest \cup CreatedBy(b)) \in Nat
  BY <1>14, CoinsParts
<1>16. Worth(rest \cup CreatedBy(b)) <= Worth(S) + reward + OverflowIn(b)
  BY <1>1, <1>3, <1>4, <1>5, <1>6, <1>9, <1>10, <1>12, <1>13, <1>14, <1>15
<1>17. QED
  BY <1>13, <1>14, <1>16 DEF reward, rest
=============================================================================
