-------------------------- MODULE ApplicationProofs -------------------------
(* What an application can rely on. Through any number of lives its node    *)
(* restores a sound chain from its file, and loses nothing it saved unless  *)
(* the disk fails. A payment that verifies leaves exactly the fee, and a    *)
(* wallet that can pay does, as long as nothing comes between.             *)
EXTENDS SingleFile, Wallet, NodeProofs

-----------------------------------------------------------------------------
(* The folds by which open and a rebuild go through a chain                *)

HeightOf(height, b)    == BlockOf[b].BlockHeight
AfterBlock(unspent, b) == UnspentAfter(unspent, TxsOf(b))

Heights == INSTANCE Folding WITH Op <- HeightOf
Lists   == INSTANCE Folding WITH Op <- AtHeight
Indexes == INSTANCE Folding WITH Op <- Indexed
Unspent == INSTANCE Folding WITH Op <- AfterBlock

\* The folds of the model are the instances' folds.
LEMMA FoldNames ==
  ASSUME NEW base, NEW chain
  PROVE  /\ FoldLeft(LAMBDA height, b : BlockOf[b].BlockHeight, base, chain)
              = Heights!FoldOf(base, chain)
         /\ FoldLeft(AtHeight, base, chain) = Lists!FoldOf(base, chain)
         /\ FoldLeft(Indexed, base, chain) = Indexes!FoldOf(base, chain)
         /\ FoldLeft(LAMBDA unspent, b : UnspentAfter(unspent, TxsOf(b)), base, chain)
              = Unspent!FoldOf(base, chain)
<1> USE DEF FoldLeft, MapThenFoldSet, Max
<1>1. FoldLeft(LAMBDA height, b : BlockOf[b].BlockHeight, base, chain)
        = Heights!FoldOf(base, chain)
  BY DEF Heights!FoldOf, Heights!FoldLeft, Heights!MapThenFoldSet, Heights!Max, HeightOf
<1>2. FoldLeft(AtHeight, base, chain) = Lists!FoldOf(base, chain)
  BY DEF Lists!FoldOf, Lists!FoldLeft, Lists!MapThenFoldSet, Lists!Max
<1>3. FoldLeft(Indexed, base, chain) = Indexes!FoldOf(base, chain)
  BY DEF Indexes!FoldOf, Indexes!FoldLeft, Indexes!MapThenFoldSet, Indexes!Max
<1>4. FoldLeft(LAMBDA unspent, b : UnspentAfter(unspent, TxsOf(b)), base, chain)
        = Unspent!FoldOf(base, chain)
  BY DEF Unspent!FoldOf, Unspent!FoldLeft, Unspent!MapThenFoldSet, Unspent!Max, AfterBlock
<1>5. QED
  BY <1>1, <1>2, <1>3, <1>4

-----------------------------------------------------------------------------
(* Chains block by block                                                   *)

\* The first k blocks of a chain.
Upto(chain, k) == SubSeq(chain, 1, k)

\* Every block extends those before it.
Built(chain) == \A k \in DOMAIN chain : CanExtend(Upto(chain, k - 1), chain[k])

\* The beginnings of a chain, one a block longer than the one before.
LEMMA UptoSteps ==
  ASSUME NEW chain \in Seq(BlockHash)
  PROVE  /\ Upto(chain, 0) = << >> /\ Upto(chain, Len(chain)) = chain
         /\ \A k \in 0 .. Len(chain) : Upto(chain, k) \in Seq(BlockHash) /\ Len(Upto(chain, k)) = k
         /\ \A k \in DOMAIN chain : Upto(chain, k) = Append(Upto(chain, k - 1), chain[k])
BY DEF Upto

\* What is known of the k-th block of a chain.
LEMMA UptoAt ==
  ASSUME NEW chain \in Seq(BlockHash), Built(chain), NEW k \in 1 .. Len(chain)
  PROVE  /\ k - 1 \in 0 .. Len(chain) /\ k \in 0 .. Len(chain) /\ chain[k] \in BlockHash
         /\ Upto(chain, k - 1) \in Seq(BlockHash) /\ Len(Upto(chain, k - 1)) = k - 1
         /\ Upto(chain, k) = Append(Upto(chain, k - 1), chain[k])
         /\ CanExtend(Upto(chain, k - 1), chain[k])
<1>1. k - 1 \in 0 .. Len(chain) /\ k \in 0 .. Len(chain) /\ k \in DOMAIN chain /\ chain[k] \in BlockHash
  OBVIOUS
<1>2. Upto(chain, k - 1) \in Seq(BlockHash) /\ Len(Upto(chain, k - 1)) = k - 1
  BY <1>1, UptoSteps
<1>3. Upto(chain, k) = Append(Upto(chain, k - 1), chain[k])
  BY <1>1, UptoSteps
<1>4. QED
  BY <1>1, <1>2, <1>3 DEF Built

\* What a block more keeps of Built.
LEMMA BuiltAppend ==
  ASSUME NEW chain \in Seq(BlockHash), NEW b \in BlockHash, Built(chain), CanExtend(chain, b)
  PROVE  Built(Append(chain, b))
<1> DEFINE new == Append(chain, b)
<1>1. /\ DOMAIN new = DOMAIN chain \cup {Len(chain) + 1}
      /\ \A i \in DOMAIN chain : new[i] = chain[i]
      /\ new[Len(chain) + 1] = b
  BY AppendBlock
<1>2. \A k \in 0 .. Len(chain) : Upto(new, k) = Upto(chain, k)
  BY DEF Upto
<1>3. Upto(chain, Len(chain)) = chain /\ DOMAIN chain = 1 .. Len(chain)
  BY UptoSteps
<1> HIDE DEF new
<1>4. ASSUME NEW k \in DOMAIN new
      PROVE  CanExtend(Upto(new, k - 1), new[k])
  <2>1. CASE k \in DOMAIN chain
    <3>1. k - 1 \in 0 .. Len(chain)
      BY <2>1
    <3>2. QED
      BY <1>1, <1>2, <2>1, <3>1 DEF Built
  <2>2. CASE k = Len(chain) + 1
    <3>1. k - 1 = Len(chain) /\ Len(chain) \in 0 .. Len(chain)
      BY <2>2
    <3>2. QED
      BY <1>1, <1>2, <1>3, <2>2, <3>1
  <2>3. QED
    BY <1>1, <2>1, <2>2
<1>5. QED
  BY <1>4 DEF Built, new

\* A chain built block by block is sound, and so are its beginnings.
LEMMA BuiltSound ==
  ASSUME NEW chain \in Seq(BlockHash), Built(chain), NEW n \in 0 .. Len(chain)
  PROVE  /\ Linked(Upto(chain, n)) /\ Shaped(Upto(chain, n))
         /\ SpentOnceIn(Upto(chain, n)) /\ TransactionsOnceIn(Upto(chain, n))
<1> DEFINE Good(k) == Linked(Upto(chain, k)) /\ Shaped(Upto(chain, k)) /\ SpentOnceIn(Upto(chain, k))
           S == {k \in Nat : k <= Len(chain) => Good(k)}
<1>1. 0 \in S
  <2>1. Upto(chain, 0) = << >>
    BY UptoSteps
  <2>2. Good(0)
    BY <2>1 DEF Linked, Shaped, SpentOnceIn
  <2>3. QED
    BY <2>2
<1>2. ASSUME NEW k \in Nat, k \in S
      PROVE  k + 1 \in S
  <2> SUFFICES ASSUME k + 1 <= Len(chain)
               PROVE  Good(k + 1)
    OBVIOUS
  <2>1. Good(k)
    BY <1>2
  <2>2. k + 1 \in DOMAIN chain /\ (k + 1) - 1 = k /\ k \in 0 .. Len(chain)
    OBVIOUS
  <2>3. /\ CanExtend(Upto(chain, k), chain[k + 1]) /\ chain[k + 1] \in BlockHash
        /\ Upto(chain, k + 1) = Append(Upto(chain, k), chain[k + 1])
        /\ Upto(chain, k) \in Seq(BlockHash)
    BY <2>2, UptoSteps DEF Built
  <2>4. QED
    BY <2>1, <2>3, ExtendLinked, ExtendShaped, ExtendSpentOnce
<1>3. Good(n)
  <2> HIDE DEF Good
  <2>1. Nat \subseteq S
    <3> HIDE DEF S
    <3>1. QED
      BY <1>1, <1>2, Heights!SetInduction
  <2>2. QED
    BY <2>1
<1>4. QED
  BY <1>3, UptoSteps, SpentOnceTransactionsOnce

-----------------------------------------------------------------------------
(* What going through a chain makes of empty collections                   *)

BlocksIn(chain) == {chain[i] : i \in DOMAIN chain}
Includes(b, t)  == \E k \in DOMAIN TxsOf(b) : TxsOf(b)[k] = t
TxsIn(chain)    == {t \in TxHash : \E b \in BlocksIn(chain) : Includes(b, t)}

\* The index of blocks by transaction.
IndexOf(chain) ==
  [t \in TxHash |-> IF t \in TxsIn(chain)
                    THEN CHOOSE b \in BlocksIn(chain) : Includes(b, t)
                    ELSE NoBlock]

\* In a sound chain one block has the transaction, so the index says which.
LEMMA IndexFinds ==
  ASSUME NEW chain \in Seq(BlockHash), TransactionsOnceIn(chain)
  PROVE  /\ IndexOf(chain) \in [TxHash -> BlockHash \cup {NoBlock}]
         /\ \A t \in TxHash, b \in BlockHash :
              IndexOf(chain)[t] = b <=> b \in BlocksIn(chain) /\ Includes(b, t)
<1>1. BlocksIn(chain) \subseteq BlockHash
  BY DEF BlocksIn
<1>2. ASSUME NEW t \in TxHash, NEW b \in BlocksIn(chain), NEW c \in BlocksIn(chain),
             Includes(b, t), Includes(c, t)
      PROVE  b = c
  BY <1>2 DEF BlocksIn, Includes, TransactionsOnceIn
<1>3. ASSUME NEW t \in TxHash
      PROVE  /\ IndexOf(chain)[t] \in BlockHash \cup {NoBlock}
             /\ \A b \in BlockHash :
                  IndexOf(chain)[t] = b <=> b \in BlocksIn(chain) /\ Includes(b, t)
  <2>1. CASE t \in TxsIn(chain)
    <3>1. PICK c \in BlocksIn(chain) : Includes(c, t)
      BY <2>1 DEF TxsIn
    <3>2. /\ IndexOf(chain)[t] \in BlocksIn(chain)
          /\ Includes(IndexOf(chain)[t], t)
      BY <2>1, <3>1 DEF IndexOf
    <3>3. QED
      BY <1>1, <1>2, <3>2
  <2>2. CASE t \notin TxsIn(chain)
    <3>1. IndexOf(chain)[t] = NoBlock
      BY <2>2 DEF IndexOf
    <3>2. \A b \in BlocksIn(chain) : ~Includes(b, t)
      BY <2>2 DEF TxsIn
    <3>3. QED
      BY <3>1, <3>2, DataAssumption
  <2>3. QED
    BY <2>1, <2>2
<1>4. IndexOf(chain) \in [TxHash -> BlockHash \cup {NoBlock}]
  BY <1>3 DEF IndexOf
<1>5. QED
  BY <1>3, <1>4

\* Indexing one block more.
LEMMA IndexAppend ==
  ASSUME NEW chain \in Seq(BlockHash), NEW b \in BlockHash,
         TransactionsOnceIn(chain), TransactionsOnceIn(Append(chain, b))
  PROVE  Indexed(IndexOf(chain), b) = IndexOf(Append(chain, b))
<1> DEFINE new == Append(chain, b)
<1>1. BlocksIn(new) = BlocksIn(chain) \cup {b} /\ new \in Seq(BlockHash)
  BY AppendBlock DEF BlocksIn
<1>0. TransactionsOnceIn(new)
  OBVIOUS
<1> HIDE DEF new
<1>2. ASSUME NEW t \in TxHash
      PROVE  Indexed(IndexOf(chain), b)[t] = IndexOf(new)[t]
  <2>1. CASE Includes(b, t)
    <3>1. Indexed(IndexOf(chain), b)[t] = b
      BY <2>1 DEF Indexed, Includes
    <3>2. IndexOf(new)[t] = b
      BY <1>0, <1>1, <2>1, IndexFinds
    <3>3. QED
      BY <3>1, <3>2
  <2>2. CASE ~Includes(b, t)
    <3>1. Indexed(IndexOf(chain), b)[t] = IndexOf(chain)[t]
      BY <2>2 DEF Indexed, Includes
    <3>2. \A c \in BlockHash : IndexOf(new)[t] = c <=> IndexOf(chain)[t] = c
      BY <1>0, <1>1, <2>2, IndexFinds
    <3>3. /\ IndexOf(new)[t] \in BlockHash \cup {NoBlock}
          /\ IndexOf(chain)[t] \in BlockHash \cup {NoBlock}
      BY <1>0, <1>1, IndexFinds
    <3>4. QED
      BY <3>1, <3>2, <3>3
  <2>3. QED
    BY <2>1, <2>2
<1>3. /\ Indexed(IndexOf(chain), b) = [t \in TxHash |-> Indexed(IndexOf(chain), b)[t]]
      /\ IndexOf(new) = [t \in TxHash |-> IndexOf(new)[t]]
  BY DEF Indexed, IndexOf
<1>4. QED
  BY <1>2, <1>3 DEF new

\* Going through a chain that is built block by block ends with its height.
LEMMA LoadedHeight ==
  ASSUME NEW chain \in Seq(BlockHash), Built(chain)
  PROVE  Heights!FoldOf(-1, chain) = Len(chain) - 1
<1> DEFINE trace == [k \in 0 .. Len(chain) |-> k - 1]
<1>1. Heights!Stays(Int, BlockHash)
  BY BlockTypes DEF Heights!Stays, HeightOf
<1>2. trace[0] \in Int /\ trace[0] = -1 /\ trace[Len(chain)] = Len(chain) - 1
  OBVIOUS
<1>3. ASSUME NEW k \in 1 .. Len(chain)
      PROVE  trace[k] = HeightOf(trace[k - 1], chain[k])
  <2>1. k - 1 \in 0 .. Len(chain)
    OBVIOUS
  <2>2. BlockOf[chain[k]].BlockHeight = k - 1
    BY UptoAt DEF CanExtend, LinksTo
  <2>3. QED
    BY <2>2 DEF HeightOf
<1>4. Heights!IsTrace(trace, chain)
  BY <1>3 DEF Heights!IsTrace
<1> HIDE DEF trace
<1>5. Heights!FoldOf(trace[0], chain) = trace[Len(chain)]
  BY <1>1, <1>2, <1>4, Heights!FoldLeftSteps
<1>6. QED
  BY <1>2, <1>5

\* It puts every block in its place of the list, with nothing to pad.
LEMMA LoadedList ==
  ASSUME NEW chain \in Seq(BlockHash), Built(chain)
  PROVE  Lists!FoldOf(<< >>, chain) = chain
<1> DEFINE trace == [k \in 0 .. Len(chain) |-> Upto(chain, k)]
           V == Seq(BlockHash \cup {NoBlock})
<1>1. ASSUME NEW list \in V, NEW b \in BlockHash
      PROVE  AtHeight(list, b) \in V
  <2> DEFINE n == IF BlockOf[b].BlockHeight + 1 > Len(list)
                  THEN BlockOf[b].BlockHeight + 1 ELSE Len(list)
  <2>1. n \in Nat
    BY BlockTypes
  <2>2. \A i \in 1 .. n : AtHeight(list, b)[i] \in BlockHash \cup {NoBlock}
    BY DEF AtHeight
  <2>3. AtHeight(list, b) = [i \in 1 .. n |-> AtHeight(list, b)[i]]
    BY DEF AtHeight
  <2> HIDE DEF n
  <2>4. AtHeight(list, b) \in [1 .. n -> BlockHash \cup {NoBlock}]
    BY <2>2, <2>3
  <2>5. QED
    BY <2>1, <2>4, SeqDef
<1>2. Lists!Stays(V, BlockHash)
  BY <1>1 DEF Lists!Stays
<1>3. trace[0] = << >> /\ trace[Len(chain)] = chain /\ trace[0] \in V
  BY UptoSteps
<1>4. ASSUME NEW k \in 1 .. Len(chain)
      PROVE  trace[k] = AtHeight(trace[k - 1], chain[k])
  <2>1. k - 1 \in 0 .. Len(chain) /\ k \in 0 .. Len(chain)
    OBVIOUS
  <2>2. /\ LinksTo(Upto(chain, k - 1), chain[k]) /\ chain[k] \in BlockHash
        /\ Upto(chain, k - 1) \in Seq(BlockHash)
        /\ Upto(chain, k) = Append(Upto(chain, k - 1), chain[k])
    BY UptoAt DEF CanExtend
  <2>3. QED
    BY <2>1, <2>2, AtHeightAppends
<1>5. Lists!IsTrace(trace, chain)
  BY <1>4 DEF Lists!IsTrace
<1> HIDE DEF trace, V
<1>6. Lists!FoldOf(trace[0], chain) = trace[Len(chain)]
  BY <1>2, <1>3, <1>5, Lists!FoldLeftSteps
<1>7. QED
  BY <1>3, <1>6

\* It indexes the chain's transactions.
LEMMA LoadedIndex ==
  ASSUME NEW chain \in Seq(BlockHash), Built(chain)
  PROVE  Indexes!FoldOf([t \in TxHash |-> NoBlock], chain) = IndexOf(chain)
<1> DEFINE trace == [k \in 0 .. Len(chain) |-> IndexOf(Upto(chain, k))]
           V == [TxHash -> BlockHash \cup {NoBlock}]
<1>1. Indexes!Stays(V, BlockHash)
  BY DEF Indexes!Stays, Indexed
<1>2. trace[0] = [t \in TxHash |-> NoBlock]
  <2>1. trace[0] = IndexOf(<< >>) /\ TxsIn(<< >>) = {}
    BY UptoSteps DEF TxsIn, BlocksIn
  <2>2. QED
    BY <2>1 DEF IndexOf
<1>3. trace[Len(chain)] = IndexOf(chain) /\ trace[0] \in V
  BY <1>2, UptoSteps
<1>4. ASSUME NEW k \in 1 .. Len(chain)
      PROVE  trace[k] = Indexed(trace[k - 1], chain[k])
  <2>1. k - 1 \in 0 .. Len(chain) /\ k \in 0 .. Len(chain)
    OBVIOUS
  <2>2. /\ chain[k] \in BlockHash
        /\ Upto(chain, k - 1) \in Seq(BlockHash)
        /\ Upto(chain, k) = Append(Upto(chain, k - 1), chain[k])
    BY UptoAt
  <2>3. TransactionsOnceIn(Upto(chain, k - 1)) /\ TransactionsOnceIn(Upto(chain, k))
    BY <2>1, BuiltSound
  <2>4. QED
    BY <2>1, <2>2, <2>3, IndexAppend
<1>5. Indexes!IsTrace(trace, chain)
  BY <1>4 DEF Indexes!IsTrace
<1> HIDE DEF trace, V
<1>6. Indexes!FoldOf(trace[0], chain) = trace[Len(chain)]
  BY <1>1, <1>3, <1>5, Indexes!FoldLeftSteps
<1>7. QED
  BY <1>2, <1>3, <1>6

\* It ends with what the chain as a whole created and did not spend.
LEMMA LoadedUnspent ==
  ASSUME NEW chain \in Seq(BlockHash), Built(chain)
  PROVE  Unspent!FoldOf({}, chain) = Created(chain) \ Spent(chain)
<1> DEFINE left(list) == Created(list) \ Spent(list)
           trace == [k \in 0 .. Len(chain) |-> left(Upto(chain, k))]
           V == SUBSET (TransactionOutputIdentifier \cup (TxHash \X Int))
<1>1. Unspent!Stays(V, BlockHash)
  <2>1. ASSUME NEW unspent \in V, NEW b \in BlockHash
        PROVE  UnspentAfter(unspent, TxsOf(b)) \in V
    <3>1. \A k \in DOMAIN TxsOf(b) : Creates(TxsOf(b)[k]) \subseteq TxHash \X Int
      BY TransactionAt, OutpointType
    <3>2. QED
      BY <3>1 DEF UnspentAfter
  <2>2. QED
    BY <2>1 DEF Unspent!Stays, AfterBlock
<1>2. trace[0] = {} /\ trace[0] \in V
  BY UptoSteps DEF Created
<1>3. trace[Len(chain)] = left(chain)
  BY UptoSteps
<1>4. ASSUME NEW k \in 1 .. Len(chain)
      PROVE  trace[k] = AfterBlock(trace[k - 1], chain[k])
  <2>1. k - 1 \in 0 .. Len(chain) /\ k \in 0 .. Len(chain)
    OBVIOUS
  <2>2. /\ chain[k] \in BlockHash /\ CanExtend(Upto(chain, k - 1), chain[k])
        /\ Upto(chain, k - 1) \in Seq(BlockHash)
        /\ Upto(chain, k) = Append(Upto(chain, k - 1), chain[k])
    BY UptoAt
  <2>3. Shaped(Upto(chain, k - 1)) /\ SpentOnceIn(Upto(chain, k - 1))
    BY <2>1, BuiltSound
  <2>4. UnspentAfter(left(Upto(chain, k - 1)), TxsOf(chain[k])) = left(Upto(chain, k))
    BY <2>2, <2>3, ExtendUtxo
  <2>5. QED
    BY <2>1, <2>4 DEF AfterBlock
<1>5. Unspent!IsTrace(trace, chain)
  BY <1>4 DEF Unspent!IsTrace
<1> HIDE DEF trace, V
<1>6. Unspent!FoldOf(trace[0], chain) = trace[Len(chain)]
  BY <1>1, <1>2, <1>5, Unspent!FoldLeftSteps
<1>7. QED
  BY <1>2, <1>3, <1>6

-----------------------------------------------------------------------------
(* Verification, apart from the storage and clock it reads                 *)

\* What Validation asks, given the blocks and transactions that can be looked
\* up and the time.
InputVerifies(input, txs, now) ==
  /\ input.InputHash \in txs
  /\ now >= TxOf[input.InputHash].TimeStamp
  /\ OutputExists(OutpointOf(input))
  /\ input.unlocks

HeaderVerifies(b, known, now) ==
  LET H == BlockOf[b]
      P == BlockOf[H.HashPreviousBlock]
  IN  /\ H.BlockHeight > 0 =>
           /\ H.HashPreviousBlock \in known
           /\ H.BlockHeight = P.BlockHeight + 1
           /\ H.DifficultyTarget >=
                calculateDifficultyTarget(Wrap(H.Time - P.Time), P.DifficultyTarget)
      /\ Wrap(H.Time - TimeVarianceAllowedSeconds) <= now

\* The conjuncts of transactionVerify that read neither.
TransactionFits(t) ==
  /\ verifyOutputs(t)
  /\ getFees(t) > TxOf[t].Size * MinSatPerByte
  /\ InputsOf(t) # << >> /\ OutputsOf(t) # << >>
  /\ TxOf[t].TimeStamp < LongMax /\ TxOf[t].Size < MaxTransactionSize
  /\ getFees(t) > 0 /\ getInputTotal(t) > 0 /\ getOutputTotal(t) > 0

BlockVerifies(b, known, txs, now) ==
  /\ HeaderVerifies(b, known, now)
  /\ BlockOf[b].BlockHeight # 0 => Len(TxsOf(b)) >= 2
  /\ TxsOf(b) # << >> => verifyCoinbase(TxsOf(b)[1], BlockOf[b].BlockHeight)
  /\ SpendsOnce(TxsOf(b))
  /\ \A k \in 2 .. Len(TxsOf(b)) :
       /\ TransactionFits(TxsOf(b)[k])
       /\ \A i \in DOMAIN InputsOf(TxsOf(b)[k]) :
            InputVerifies(InputsOf(TxsOf(b)[k])[i], txs, now)
  /\ verifyBlockReward(b)
  /\ BlockOf[b].sealed

\* It is what Validation asks.
LEMMA VerifiesHere ==
  ASSUME NEW b, NEW txs, \A t : canGetTransaction(t) <=> t \in txs
  PROVE  blockVerify(b) <=> BlockVerifies(b, blocks, txs, clock)
<1>1. \A input : inputVerify(input) <=> InputVerifies(input, txs, clock)
  BY DEF inputVerify, InputVerifies
<1>2. \A t : transactionVerify(t)
        <=> TransactionFits(t) /\ \A i \in DOMAIN InputsOf(t) : InputVerifies(InputsOf(t)[i], txs, clock)
  BY <1>1 DEF transactionVerify, TransactionFits, verifyInputs
<1>3. headerVerify(b) <=> HeaderVerifies(b, blocks, clock)
  BY DEF headerVerify, HeaderVerifies
<1>4. QED
  BY <1>2, <1>3 DEF blockVerify, BlockVerifies, verifyTransactions

\* It is what Validation asks after a step, too.
LEMMA VerifiesThere ==
  ASSUME NEW b, NEW txs, \A t : canGetTransaction(t)' <=> t \in txs
  PROVE  blockVerify(b)' <=> BlockVerifies(b, blocks', txs, clock')
<1>1. \A input : inputVerify(input)' <=> InputVerifies(input, txs, clock')
  BY DEF inputVerify, InputVerifies
<1>2. \A t : transactionVerify(t)'
        <=> TransactionFits(t) /\ \A i \in DOMAIN InputsOf(t) : InputVerifies(InputsOf(t)[i], txs, clock')
  BY <1>1 DEF transactionVerify, TransactionFits, verifyInputs, verifyOutputs, getFees,
              getInputTotal, InputAmount
<1>3. headerVerify(b)' <=> HeaderVerifies(b, blocks', clock')
  BY DEF headerVerify, HeaderVerifies
<1>4. verifyBlockReward(b)' <=> verifyBlockReward(b)
  BY DEF verifyBlockReward, getBlockFees, getFees, getInputTotal, InputAmount
<1>5. \A t, h : verifyCoinbase(t, h)' <=> verifyCoinbase(t, h)
  BY DEF verifyCoinbase, verifyOutputs
<1>6. QED
  BY <1>2, <1>3, <1>4, <1>5 DEF blockVerify, BlockVerifies, verifyTransactions

\* A later time changes nothing.
LEMMA VerifiesLater ==
  ASSUME NEW b \in BlockHash, NEW known, NEW txs \in SUBSET TxHash, NEW now \in Int, NEW later \in Int,
         now <= later, BlockVerifies(b, known, txs, now)
  PROVE  BlockVerifies(b, known, txs, later)
<1>1. BlockOf[b].Time \in Int /\ TimeVarianceAllowedSeconds \in Int
  BY DataAssumption, ParameterAssumption DEF Block
<1>2. Wrap(BlockOf[b].Time - TimeVarianceAllowedSeconds) \in Int
  BY <1>1, WrapType
<1>3. HeaderVerifies(b, known, later)
  BY <1>2 DEF BlockVerifies, HeaderVerifies
<1>4. ASSUME NEW input, InputVerifies(input, txs, now)
      PROVE  InputVerifies(input, txs, later)
  <2>1. TxOf[input.InputHash].TimeStamp \in Int
    BY <1>4, DataAssumption DEF InputVerifies, Transaction
  <2>2. QED
    BY <1>4, <2>1 DEF InputVerifies
<1>5. QED
  BY <1>3, <1>4 DEF BlockVerifies

-----------------------------------------------------------------------------
(* The node while it runs                                                  *)

\* What of Node's invariants also holds of a node that restored its chain.
\* (That what is stored was relayed does not: a restored block was relayed in
\* an earlier life.)
KInv ==
  /\ IInv
  /\ Built(blocksByHeight)
  /\ \A b \in blocks : blockVerify(b)

\* What a node that is running can look up is on its chain.
LEMMA LooksUpChain ==
  ASSUME IInv
  PROVE  /\ blocks = BlocksIn(blocksByHeight)
         /\ \A t : canGetTransaction(t) <=> t \in TxsIn(blocksByHeight)
<1>1. blocks = BlocksIn(blocksByHeight)
  BY DEF IInv, ViewsAgree, BlocksIn
<1>2. blocks \subseteq BlockHash
  BY DEF IInv, TypeOK, StorageTypeOK
<1>3. \A t \in TxHash : \A b \in BlockHash :
        blockHashesByTransaction[t] = b <=> b \in blocks /\ Includes(b, t)
  BY DEF IInv, ViewsAgree, Includes
<1>4. QED
  BY <1>1, <1>2, <1>3 DEF canGetTransaction, TxsIn

\* A step of a running node keeps the invariant, and at most extends the chain.
LEMMA RunKeepsKInv ==
  ASSUME KInv, [Next]_nodeVars
  PROVE  /\ KInv'
         /\ \/ blocksByHeight' = blocksByHeight
            \/ \E b \in BlockHash : blocksByHeight' = Append(blocksByHeight, b)
<1>1. Grown /\ IInv
  BY StepGrown DEF KInv
<1>2. blocks \subseteq BlockHash
  BY DEF KInv, IInv, TypeOK, StorageTypeOK
<1>3. CASE \E b \in BlockHash : StoreBlock(b)
  <2>1. PICK b \in BlockHash : StoreBlock(b)
    BY <1>3
  <2>2. /\ IInv' /\ CanExtend(blocksByHeight, b) /\ blocksByHeight' = Append(blocksByHeight, b)
        /\ blocksByHeight \in Seq(BlockHash)
    BY <1>1, <2>1, StoreKeepsIInv DEF IInv
  <2>3. Built(blocksByHeight')
    BY <2>2, BuiltAppend DEF KInv
  <2>4. blocks' = blocks \cup {b} /\ blockVerify(b)
    BY <2>1 DEF StoreBlock, putBlock
  <2>5. \A c \in blocks' : blockVerify(c)'
    BY <1>1, <1>2, <2>4, BlockStable DEF KInv
  <2>6. QED
    BY <2>2, <2>3, <2>5 DEF KInv
<1>4. CASE ~\E b \in BlockHash : StoreBlock(b)
  <2>1. IInv' /\ UNCHANGED chainVars
    BY <1>1, <1>4, OthersLeaveChain
  <2>2. blocks' = blocks /\ blocksByHeight' = blocksByHeight
    BY <2>1 DEF chainVars
  <2>3. \A c \in blocks' : blockVerify(c)'
    BY <1>1, <1>2, <2>2, BlockStable DEF KInv
  <2>4. QED
    BY <2>1, <2>2, <2>3 DEF KInv
<1>5. QED
  BY <1>3, <1>4

-----------------------------------------------------------------------------
(* What is restored                                                        *)

\* A chain that a node can be restored from at a time.
Restorable(chain, now) ==
  /\ chain \in Seq(BlockHash)
  /\ Built(chain)
  /\ \A b \in BlocksIn(chain) : BlockVerifies(b, BlocksIn(chain), TxsIn(chain), now)

\* The chain of a node is one.
LEMMA RunningRestorable ==
  ASSUME KInv
  PROVE  Restorable(blocksByHeight, clock)
<1>1. blocksByHeight \in Seq(BlockHash) /\ Built(blocksByHeight)
  BY DEF KInv, IInv
<1>2. /\ blocks = BlocksIn(blocksByHeight)
      /\ \A t : canGetTransaction(t) <=> t \in TxsIn(blocksByHeight)
  BY LooksUpChain DEF KInv
<1>3. \A b \in BlocksIn(blocksByHeight) :
        BlockVerifies(b, BlocksIn(blocksByHeight), TxsIn(blocksByHeight), clock)
  BY <1>2, VerifiesHere DEF KInv
<1>4. QED
  BY <1>1, <1>3 DEF Restorable

\* It stays one.
LEMMA RestorableLater ==
  ASSUME NEW chain, NEW now \in Int, NEW later \in Int, now <= later, Restorable(chain, now)
  PROVE  Restorable(chain, later)
<1>1. BlocksIn(chain) \subseteq BlockHash /\ TxsIn(chain) \in SUBSET TxHash
  BY DEF Restorable, BlocksIn, TxsIn
<1>2. QED
  BY <1>1, VerifiesLater DEF Restorable

\* The empty chain is one, and what its collections are.
LEMMA NothingRestorable ==
  ASSUME NEW now
  PROVE  /\ Restorable(<< >>, now)
         /\ BlocksIn(<< >>) = {} /\ Created(<< >>) = {} /\ Len(<< >>) - 1 = -1
         /\ IndexOf(<< >>) = [t \in TxHash |-> NoBlock]
<1>1. BlocksIn(<< >>) = {} /\ Created(<< >>) = {} /\ Built(<< >>) /\ << >> \in Seq(BlockHash)
  BY DEF BlocksIn, Created, Built
<1>2. IndexOf(<< >>) = [t \in TxHash |-> NoBlock]
  BY <1>1 DEF IndexOf, TxsIn
<1>3. QED
  BY <1>1, <1>2 DEF Restorable

\* A node whose collections describe such a chain is as good as one that
\* received it.
LEMMA RestoredKInv ==
  ASSUME NEW chain, Restorable(chain, clock'),
         blockheight' = Len(chain) - 1, blocks' = BlocksIn(chain), blocksByHeight' = chain,
         blockHashesByTransaction' = IndexOf(chain),
         unspentTransactionOutputSet' = Created(chain) \ Spent(chain),
         mempool' \subseteq TxHash, clock' \in ClockTimes,
         relays' \in [Relayable -> Nat], heightsTold' \subseteq Int
  PROVE  KInv'
<1>1. chain \in Seq(BlockHash) /\ Built(chain) /\ Upto(chain, Len(chain)) = chain
      /\ Len(chain) \in 0 .. Len(chain) /\ BlocksIn(chain) \subseteq BlockHash
  BY UptoSteps DEF Restorable, BlocksIn
<1>2. Linked(chain) /\ Shaped(chain) /\ SpentOnceIn(chain) /\ TransactionsOnceIn(chain)
  BY <1>1, BuiltSound
<1>3. /\ IndexOf(chain) \in [TxHash -> BlockHash \cup {NoBlock}]
      /\ \A t \in TxHash, b \in BlockHash :
           IndexOf(chain)[t] = b <=> b \in BlocksIn(chain) /\ Includes(b, t)
  BY <1>1, <1>2, IndexFinds
<1>4. TypeOK'
  <2>1. Created(chain) \subseteq TransactionOutputIdentifier
    BY <1>1, CreatedType DEF TransactionOutputIdentifier
  <2>2. chain \in Seq(BlockHash \cup {NoBlock}) /\ Len(chain) - 1 \in Int
    BY <1>1, SeqMonotonic
  <2>3. QED
    BY <1>1, <1>3, <2>1, <2>2 DEF TypeOK, StorageTypeOK
<1>5. ViewsAgree'
  BY <1>3 DEF ViewsAgree, BlocksIn, Includes
<1>6. UtxoExact'
  BY DEF UtxoExact
<1>7. IInv'
  BY <1>1, <1>2, <1>4, <1>5, <1>6 DEF IInv
<1>8. \A t : canGetTransaction(t)' <=> t \in TxsIn(chain)
  BY <1>1, <1>3 DEF canGetTransaction, TxsIn
<1>9. \A b \in blocks' : blockVerify(b)'
  BY <1>8, VerifiesThere DEF Restorable
<1>10. QED
  BY <1>1, <1>7, <1>9 DEF KInv

\* A process that ended is as one that never ran, but for the clock.
LEMMA ForgetKInv ==
  ASSUME KInv, Forget
  PROVE  KInv'
<1>1. clock \in ClockTimes /\ clock' = clock
  BY DEF Forget, KInv, IInv, TypeOK
<1>2. QED
  BY <1>1, NothingRestorable, RestoredKInv DEF Forget

\* What open makes of empty collections and a whole file.
LEMMA LoadKInv ==
  ASSUME KInv, NEW chain, Restorable(chain, clock), Load(chain),
         blockheight = -1, blocks = {}, blocksByHeight = << >>,
         blockHashesByTransaction = [t \in TxHash |-> NoBlock],
         unspentTransactionOutputSet = {}, UNCHANGED <<clock, relays, heightsTold>>
  PROVE  KInv' /\ blocksByHeight' = chain
<1>1. chain \in Seq(BlockHash) /\ Built(chain)
  BY DEF Restorable
<1>2. blockheight' = Len(chain) - 1
  BY <1>1, FoldNames, LoadedHeight DEF Load
<1>3. blocksByHeight' = chain
  BY <1>1, FoldNames, LoadedList DEF Load
<1>4. blockHashesByTransaction' = IndexOf(chain)
  BY <1>1, FoldNames, LoadedIndex DEF Load
<1>5. unspentTransactionOutputSet' = Created(chain) \ Spent(chain)
  BY <1>1, FoldNames, LoadedUnspent DEF Load
<1>6. blocks' = BlocksIn(chain) /\ mempool' = mempool
  BY DEF Load, BlocksIn
<1>7. /\ mempool \subseteq TxHash /\ clock \in ClockTimes
      /\ relays \in [Relayable -> Nat] /\ heightsTold \subseteq Int
  BY DEF KInv, IInv, TypeOK, StorageTypeOK
<1>8. QED
  BY <1>2, <1>3, <1>4, <1>5, <1>6, <1>7, RestoredKInv

-----------------------------------------------------------------------------
(* The lives of a node                                                     *)

\* Before open nothing is stored.
Fresh ==
  /\ blockheight = -1 /\ blocks = {} /\ blocksByHeight = << >>
  /\ blockHashesByTransaction = [t \in TxHash |-> NoBlock]
  /\ unspentTransactionOutputSet = {}

\* A whole file holds what was saved last, and that can be restored.
FileInv ==
  /\ \/ file \in {Missing, Torn}
     \/ file = Whole(file.chain) /\ saved = file.chain
  /\ Restorable(saved, clock)
  /\ file = Missing => saved = << >>

\* A life that began with open goes on from what was saved.
GoesOn ==
  AppOpens /\ phase \in {"opened", "running", "closing"} /\ ~diskFailed
    => IsPrefix(saved, blocksByHeight)

FInv ==
  /\ KInv
  /\ phase \in Phases /\ diskFailed \in BOOLEAN
  /\ phase \in {"off", "constructed"} => Fresh
  /\ FileInv
  /\ GoesOn

\* The kinds of file are told apart.
LEMMA FileKinds ==
  /\ Missing # Torn /\ Missing.kind = "missing" /\ Torn.kind = "torn"
  /\ \A chain : Whole(chain).kind = "whole" /\ Whole(chain).chain = chain
                /\ Whole(chain) # Missing /\ Whole(chain) # Torn
<1>1. Missing.kind = "missing" /\ Torn.kind = "torn"
  BY DEF Missing, Torn
<1>2. \A chain : Whole(chain).kind = "whole" /\ Whole(chain).chain = chain
  BY DEF Whole
<1>3. QED
  BY <1>1, <1>2

\* A chain is a prefix of itself.
LEMMA PrefixSelf ==
  ASSUME NEW s \in Seq(BlockHash)
  PROVE  IsPrefix(s, s)
BY DEF IsPrefix

\* The empty chain is a prefix of every one.
LEMMA PrefixEmpty ==
  ASSUME NEW s \in Seq(BlockHash)
  PROVE  IsPrefix(<< >>, s)
<1>1. << >> \in Seq(BlockHash) /\ Len(<< >>) = 0 /\ Len(s) >= 0
  OBVIOUS
<1>2. SubSeq(s, 1, 0) = << >> /\ SubSeq(<< >>, 1, 0) = << >>
  BY <1>1, UptoSteps DEF Upto
<1>3. QED
  BY <1>1, <1>2 DEF IsPrefix

\* Extending a chain keeps its prefixes.
LEMMA PrefixAppend ==
  ASSUME NEW s \in Seq(BlockHash), NEW t \in Seq(BlockHash), NEW b \in BlockHash,
         IsPrefix(s, t)
  PROVE  IsPrefix(s, Append(t, b))
<1>1. Len(s) \in Nat /\ Len(s) <= Len(t) /\ Len(Append(t, b)) = Len(t) + 1
  BY DEF IsPrefix
<1>2. SubSeq(Append(t, b), 1, Len(s)) = SubSeq(t, 1, Len(s))
  BY <1>1
<1>3. QED
  BY <1>1, <1>2 DEF IsPrefix

\* A node that does nothing stays as it is.
LEMMA KeepsKInv ==
  ASSUME KInv, UNCHANGED nodeVars
  PROVE  KInv' /\ clock \in Int /\ clock' = clock
<1>1. [Next]_nodeVars
  OBVIOUS
<1>2. KInv'
  BY <1>1, RunKeepsKInv
<1>3. QED
  BY <1>2, ClockAssumption DEF KInv, IInv, TypeOK, nodeVars

\* What is saved survives the steps that leave the disk alone.
LEMMA FileKept ==
  ASSUME FileInv, UNCHANGED <<file, saved>>, clock \in Int, clock' \in Int, clock <= clock'
  PROVE  FileInv'
<1>1. Restorable(saved', clock')
  BY RestorableLater DEF FileInv
<1>2. QED
  BY <1>1 DEF FileInv

\* Constructing the storage and starting a node on it.
LEMMA ConstructKeeps ==
  ASSUME FInv, Construct \/ StartNode
  PROVE  FInv'
<1>1. /\ UNCHANGED nodeVars /\ UNCHANGED <<file, saved, diskFailed>> /\ phase' \in Phases
      /\ phase' \in {"off", "constructed"} => phase \in {"off", "constructed"}
      /\ AppOpens /\ phase' \in {"opened", "running", "closing"}
           => phase \in {"opened", "running", "closing"}
  BY DEF Construct, StartNode, Phases
<1>2. KInv'
  BY <1>1, KeepsKInv DEF FInv
<1>3. Fresh' <=> Fresh
  BY <1>1 DEF Fresh, nodeVars, storageVars, chainVars
<1>4. FileInv'
  BY <1>1, KeepsKInv, FileKept DEF FInv
<1>5. GoesOn'
  BY <1>1 DEF FInv, GoesOn, nodeVars, storageVars, chainVars
<1>6. QED
  BY <1>1, <1>2, <1>3, <1>4, <1>5 DEF FInv

\* The types FInv gives.
LEMMA Typed ==
  ASSUME FInv
  PROVE  blocksByHeight \in Seq(BlockHash) /\ saved \in Seq(BlockHash) /\ clock \in Int
BY ClockAssumption DEF FInv, KInv, IInv, TypeOK, FileInv, Restorable

\* Ending the process, or reading a torn file.
LEMMA ForgetKeeps ==
  ASSUME FInv, Forget, UNCHANGED <<file, saved, diskFailed>>
  PROVE  FInv'
<1>1. KInv'
  BY ForgetKInv DEF FInv
<1>2. phase' = "off" /\ clock' = clock /\ clock \in Int
  BY Typed DEF Forget
<1>3. Fresh'
  BY DEF Forget, Fresh
<1>4. FileInv'
  BY <1>2, FileKept DEF FInv
<1>5. GoesOn'
  BY <1>2 DEF GoesOn
<1>6. QED
  BY <1>1, <1>2, <1>3, <1>4, <1>5 DEF FInv, Phases

\* Opening: the file is read, or reading fails, or there is none.
LEMMA OpenKeeps ==
  ASSUME FInv, Open
  PROVE  FInv'
<1>1. phase = "constructed" /\ UNCHANGED <<file, saved>> /\ Fresh /\ FileInv
  BY DEF Open, FInv
<1>2. CASE OpenEmpty
  <2>1. KInv' /\ clock \in Int /\ clock' = clock
    BY <1>2, KeepsKInv DEF OpenEmpty, FInv
  <2>2. FileInv'
    BY <1>1, <2>1, FileKept
  <2>3. GoesOn'
    <3> SUFFICES ASSUME ~diskFailed'
                 PROVE  IsPrefix(saved', blocksByHeight')
      BY DEF GoesOn
    <3>1. saved' = << >> /\ blocksByHeight' \in Seq(BlockHash)
      BY <1>1, <1>2, <2>1 DEF OpenEmpty, FileInv, FInv, KInv, IInv
    <3>2. QED
      BY <3>1, PrefixEmpty
  <2>4. phase' = "opened" /\ diskFailed' \in BOOLEAN
    BY <1>2 DEF OpenEmpty, FInv
  <2>5. QED
    BY <2>1, <2>2, <2>3, <2>4 DEF FInv, Phases
<1>3. CASE OpenWhole
  <2>1. file = Whole(file.chain) /\ saved = file.chain
    BY <1>1, <1>3, FileKinds DEF OpenWhole, FileInv
  <2>2. /\ Load(saved) /\ Restorable(saved, clock) /\ UNCHANGED <<clock, relays, heightsTold>>
        /\ phase' = "opened" /\ diskFailed' = diskFailed
    BY <1>1, <1>3, <2>1 DEF OpenWhole, FileInv
  <2>3. KInv' /\ blocksByHeight' = saved
    BY <1>1, <2>2, LoadKInv DEF FInv, Fresh
  <2>4. FileInv'
    BY <1>1, <2>2, Typed, FileKept
  <2>5. GoesOn'
    BY <1>1, <2>3, Typed, PrefixSelf DEF GoesOn
  <2>6. QED
    BY <2>2, <2>3, <2>4, <2>5 DEF FInv, Phases
<1>4. CASE OpenTorn
  BY <1>1, <1>4, ForgetKeeps DEF OpenTorn
<1>5. QED
  BY <1>2, <1>3, <1>4 DEF Open

\* A step of the node while it runs.
LEMMA RunKeeps ==
  ASSUME FInv, Run
  PROVE  FInv'
<1>1. [Next]_nodeVars /\ phase = "running" /\ UNCHANGED lifeVars
  BY DEF Run
<1>2. /\ KInv'
      /\ \/ blocksByHeight' = blocksByHeight
         \/ \E b \in BlockHash : blocksByHeight' = Append(blocksByHeight, b)
  BY <1>1, RunKeepsKInv DEF FInv
<1>3. clock \in Int /\ clock' \in Int /\ clock <= clock'
  BY <1>1, StepGrown DEF FInv, KInv, Grown
<1>4. FileInv'
  BY <1>1, <1>3, FileKept DEF FInv, lifeVars
<1>5. GoesOn'
  BY <1>1, <1>2, Typed, PrefixAppend DEF FInv, GoesOn, lifeVars
<1>6. QED
  BY <1>1, <1>2, <1>4, <1>5 DEF FInv, lifeVars

\* Closing, in its two steps, and a disk that fails.
LEMMA CloseKeeps ==
  ASSUME FInv, CloseTruncate \/ CloseFails \/ CloseWrite
  PROVE  FInv'
<1>1. UNCHANGED nodeVars /\ phase' \in {"closing", "closed"} /\ diskFailed' \in BOOLEAN
  BY DEF CloseTruncate, CloseFails, CloseWrite, FInv
<1>2. KInv' /\ clock \in Int /\ clock' = clock
  BY <1>1, KeepsKInv DEF FInv
<1>3. blocksByHeight' = blocksByHeight
  BY <1>1 DEF nodeVars, storageVars, chainVars
<1>4. CASE CloseTruncate
  <2>1. FileInv'
    BY <1>2, <1>4, FileKinds DEF CloseTruncate, FInv, FileInv
  <2>2. GoesOn'
    BY <1>3, <1>4 DEF CloseTruncate, FInv, GoesOn
  <2>3. QED
    BY <1>1, <1>2, <2>1, <2>2 DEF FInv, Phases
<1>5. CASE CloseFails
  <2>1. FileInv'
    BY <1>2, <1>5, FileKept DEF CloseFails, FInv
  <2>2. GoesOn'
    BY <1>5 DEF CloseFails, GoesOn
  <2>3. QED
    BY <1>1, <1>2, <2>1, <2>2 DEF FInv, Phases
<1>6. CASE CloseWrite
  <2>1. Restorable(saved', clock')
    BY <1>2, <1>6, RunningRestorable DEF CloseWrite, FInv
  <2>2. FileInv'
    BY <1>6, <2>1, FileKinds DEF CloseWrite, FileInv
  <2>3. GoesOn'
    BY <1>6 DEF CloseWrite, GoesOn
  <2>4. QED
    BY <1>1, <1>2, <2>2, <2>3 DEF FInv, Phases
<1>7. QED
  BY <1>4, <1>5, <1>6

\* FInv holds of every reachable state.
LEMMA FInvInductive ==
  /\ LifeInit => FInv
  /\ FInv /\ [LifeNext]_vars => FInv'
<1>1. ASSUME LifeInit
      PROVE  FInv
  <2>1. Init /\ IInv /\ phase = "off" /\ file = Missing /\ saved = << >> /\ diskFailed = FALSE
    BY <1>1, IInvInductive DEF LifeInit
  <2>2. Fresh
    BY <2>1 DEF Init, StorageInit, Fresh
  <2>3. KInv
    BY <2>1, <2>2 DEF KInv, Built, Fresh
  <2>4. FileInv
    BY <2>1, NothingRestorable DEF FileInv
  <2>5. GoesOn
    BY <2>1 DEF GoesOn
  <2>6. QED
    BY <2>1, <2>2, <2>3, <2>4, <2>5 DEF FInv, Phases
<1>2. ASSUME FInv, [LifeNext]_vars
      PROVE  FInv'
  <2>1. CASE Construct \/ StartNode
    BY <1>2, <2>1, ConstructKeeps
  <2>2. CASE Open
    BY <1>2, <2>2, OpenKeeps
  <2>3. CASE Run
    BY <1>2, <2>3, RunKeeps
  <2>4. CASE CloseTruncate \/ CloseFails \/ CloseWrite
    BY <1>2, <2>4, CloseKeeps
  <2>5. CASE Die
    BY <1>2, <2>5, ForgetKeeps DEF Die
  <2>6. CASE UNCHANGED vars
    <3>1. UNCHANGED nodeVars /\ UNCHANGED <<phase, file, saved, diskFailed>>
      BY <2>6 DEF vars, lifeVars
    <3>2. KInv' /\ clock \in Int /\ clock' = clock
      BY <1>2, <3>1, KeepsKInv DEF FInv
    <3>3. (Fresh' <=> Fresh) /\ blocksByHeight' = blocksByHeight
      BY <3>1 DEF Fresh, nodeVars, storageVars, chainVars
    <3>4. FileInv'
      BY <1>2, <3>1, <3>2, FileKept DEF FInv
    <3>5. QED
      BY <1>2, <3>1, <3>2, <3>3, <3>4 DEF FInv, GoesOn
  <2>7. QED
    BY <1>2, <2>1, <2>2, <2>3, <2>4, <2>5, <2>6 DEF LifeNext
<1>3. QED
  BY <1>1, <1>2

-----------------------------------------------------------------------------
\* Through any number of lives every value keeps its type, and a whole file
\* holds a chain of blocks, with no gap that close would write past.
THEOREM SingleFileTypeOK == LifeSpec => []LifeTypeOK
<1>1. FInv => LifeTypeOK
  BY FileKinds DEF FInv, KInv, IInv, FileInv, Restorable, LifeTypeOK
<1>2. QED
  BY <1>1, FInvInductive, PTL DEF LifeSpec

\* A node that goes on from its file has views that agree, an exact UTXO set
\* that is also what a rebuild would compute, and a sound chain that verifies,
\* however often it ended and wherever it died.
THEOREM SingleFileRestoredWell == LifeSpec => []RestoredWell
<1>1. FInv => RestoredWell
  <2> SUFFICES ASSUME KInv
               PROVE  RestoredWell
    BY DEF FInv
  <2>1. /\ blocksByHeight \in Seq(BlockHash) /\ Built(blocksByHeight)
        /\ ViewsAgree /\ UtxoExact
        /\ Linked(blocksByHeight) /\ Shaped(blocksByHeight) /\ SpentOnceIn(blocksByHeight)
    BY DEF KInv, IInv
  <2>2. ChainSound
    BY <2>1, SpentOnceTransactionsOnce, LedgerOperators DEF ChainSound, L!Sound
  <2>3. UtxoMatchesRebuild
    BY <2>1, FoldNames, LoadedUnspent
       DEF UtxoMatchesRebuild, UtxoExact, buildUnspentTransactionOutputSet
  <2>4. ChainKeepsVerifying
    <3> SUFFICES ASSUME NEW i \in DOMAIN blocksByHeight
                 PROVE  blocksByHeight[i] # NoBlock /\ blockVerify(blocksByHeight[i])
      BY DEF ChainKeepsVerifying, storageVerify
    <3>1. blocksByHeight[i] \in BlockHash /\ blocksByHeight[i] \in blocks
      BY <2>1 DEF ViewsAgree
    <3>2. QED
      BY <3>1, DataAssumption DEF KInv
  <2>5. QED
    BY <2>1, <2>2, <2>3, <2>4 DEF RestoredWell
<1>2. QED
  BY <1>1, FInvInductive, PTL DEF LifeSpec

\* A file that can be read holds all that was saved last, whatever happened to
\* the process while it was written.
THEOREM SingleFileSavedSurvives == LifeSpec => []SavedSurvives
<1>1. FInv => SavedSurvives
  BY FileKinds, Typed, PrefixSelf DEF FInv, FileInv, SavedSurvives
<1>2. QED
  BY <1>1, FInvInductive, PTL DEF LifeSpec

\* When the application opens the storage before it runs a node, a close never
\* replaces what was saved by a chain that does not extend it, unless the disk
\* has failed. (Without that call it may: the next close saves the empty chain
\* the node began with.)
THEOREM SingleFileSavedOnlyGrows ==
  ASSUME AppOpens
  PROVE  LifeSpec => SavedOnlyGrows
<1>1. FInv /\ [LifeNext]_vars => [diskFailed' \/ IsPrefix(saved, saved')]_vars
  <2> SUFFICES ASSUME FInv, [LifeNext]_vars, ~diskFailed'
               PROVE  IsPrefix(saved, saved')
    OBVIOUS
  <2>1. CASE CloseWrite
    <3>1. GoesOn /\ phase = "closing" /\ ~diskFailed /\ saved' = blocksByHeight
      BY <2>1 DEF FInv, CloseWrite
    <3>2. QED
      BY <3>1 DEF GoesOn
  <2>2. CASE ~CloseWrite
    <3>1. saved' = saved
      BY <2>2 DEF LifeNext, Construct, Open, StartNode, Run, CloseTruncate, CloseFails, Die,
                  vars, lifeVars
    <3>2. QED
      BY <3>1, Typed, PrefixSelf
  <2>3. QED
    BY <2>1, <2>2
<1>2. QED
  BY <1>1, FInvInductive, PTL DEF LifeSpec, SavedOnlyGrows

-----------------------------------------------------------------------------
(* The payments that TransactionBuilder builds                             *)

\* A multiple of a positive number by a positive number is no less.
LEMMA Larger ==
  ASSUME NEW M \in Nat \ {0}, NEW d \in Int, d >= 1
  PROVE  M * d >= M
OBVIOUS

\* A remainder is what it is: no other number below M fits.
LEMMA DivUnique ==
  ASSUME NEW M \in Nat \ {0}, NEW q \in Int, NEW r \in Int, 0 <= r, r < M
  PROVE  ((M * q) + r) % M = r
<1> DEFINE b == (M * q) + r
           p == b \div M
           s == b % M
<1>1. b \in Int /\ p \in Int /\ s \in Int /\ 0 <= s /\ s < M /\ b = (M * p) + s
  OBVIOUS
<1>2. M * (q - p) = s - r /\ M * (p - q) = r - s
  BY <1>1
<1>3. ~(q - p >= 1)
  BY <1>1, <1>2, Larger
<1>4. ~(p - q >= 1)
  BY <1>1, <1>2, Larger
<1>5. p = q
  BY <1>1, <1>3, <1>4
<1>6. QED
  BY <1>1, <1>5

\* Sums and differences may wrap on the way: what they come to is the same.
LEMMA WrapAdd ==
  ASSUME NEW x \in Int, NEW y \in Int
  PROVE  Wrap(x + Wrap(y)) = Wrap(x + y) /\ Wrap(x - Wrap(y)) = Wrap(x - y)
<1> DEFINE H == LongMax + 1
           M == 2 * H
           q == (y + H) \div M
<1>1. H \in Nat \ {0} /\ M \in Nat \ {0} /\ \A n \in Int : Wrap(n) = ((n + H) % M) - H
  BY ParameterAssumption DEF Wrap
<1> HIDE DEF H, M
<1> DEFINE r == (y + H) % M
<1>2. q \in Int /\ r \in Int /\ y + H = (M * q) + r
  BY <1>1
<1>3. Wrap(y) = r - H
  BY <1>1
<1> HIDE DEF q, r
<1>4. ASSUME NEW n \in Int, NEW k \in Int
      PROVE  Wrap(n + (M * k)) = Wrap(n)
  <2> DEFINE p == (n + H) \div M
             d == (n + H) % M
  <2>1. p \in Int /\ d \in Int /\ 0 <= d /\ d < M /\ n + H = (M * p) + d
    BY <1>1
  <2>2. Wrap(n) = d - H
    BY <1>1
  <2> HIDE DEF p, d
  <2> DEFINE s == p + k
             m == n + (M * k)
  <2>3. s \in Int /\ M * s = (M * p) + (M * k) /\ m \in Int
    BY <1>1, <2>1
  <2>4. m + H = (M * s) + d
    BY <1>1, <2>1, <2>3
  <2>5. Wrap(m) = ((m + H) % M) - H
    BY <1>1, <2>3
  <2> HIDE DEF s, m
  <2>6. ((M * s) + d) % M = d
    BY <1>1, <2>1, <2>3, DivUnique
  <2>7. Wrap(m) = Wrap(n)
    BY <2>2, <2>4, <2>5, <2>6
  <2>8. QED
    BY <2>7 DEF m
<1>5. -q \in Int /\ x + Wrap(y) = (x + y) + (M * (-q)) /\ x - Wrap(y) = (x - y) + (M * q)
  BY <1>1, <1>2, <1>3
<1>6. x + y \in Int /\ x - y \in Int
  OBVIOUS
<1>7. QED
  BY <1>2, <1>4, <1>5, <1>6

\* What the outputs of the payment are, and which order they serve.
Ordered ==
  /\ "Outputs" \in DOMAIN payment
  /\ paying # "nothing" => order \in Orders
  /\ paying \notin {"nothing", "built"} => payment.Outputs = <<OutputFor(order.Amount)>>
  /\ paying = "built" =>
       payment.Outputs = IF Change = 0
                         THEN <<OutputFor(order.Amount)>>
                         ELSE Append(<<OutputFor(order.Amount)>>, OutputFor(Change))

\* Nothing but addOutput and the change writes outputs.
LEMMA OrderedInductive ==
  WalletSpec => []Ordered
<1>1. WalletInit => Ordered
  BY DEF WalletInit, NoPayment, Ordered
<1>2. Ordered /\ [WalletNext]_walletVars => Ordered'
  <2> SUFFICES ASSUME Ordered, [WalletNext]_walletVars
               PROVE  Ordered'
    OBVIOUS
  <2>1. CASE UNCHANGED <<paying, order, payment>>
    BY <2>1 DEF Ordered, Change, InputAmount
  <2>2. CASE AddOutput
    BY <2>2 DEF AddOutput, Ordered, NoPayment
  <2>3. CASE BeginMatching
    BY <2>3 DEF BeginMatching, Ordered
  <2>4. CASE EndMatching
    BY <2>4 DEF EndMatching, NextKey, Ordered
  <2>5. CASE Collect
    BY <2>5 DEF Collect, NextKey, Ordered
  <2>6. CASE Select
    <3>1. DOMAIN payment' = DOMAIN payment /\ payment'.Outputs = payment.Outputs
      BY <2>6 DEF Select
    <3>2. QED
      BY <2>6, <3>1 DEF Select, Ordered
  <2>7. CASE TakeAll
    <3>1. CASE Drop
      BY <3>1 DEF Drop, NoPayment, Ordered
    <3>2. CASE paying = "iterateAll" /\ paying' = "change" /\ order' = order
               /\ \E inputs : payment' = [payment EXCEPT !.Inputs = inputs]
      <4>1. DOMAIN payment' = DOMAIN payment /\ payment'.Outputs = payment.Outputs
        BY <3>2
      <4>2. QED
        BY <3>2, <4>1 DEF Ordered
    <3>3. QED
      BY <2>7, <3>1, <3>2 DEF TakeAll
  <2>8. CASE AddChange
    <3>1. /\ payment'.Inputs = payment.Inputs /\ order' = order
          /\ DOMAIN payment' = DOMAIN payment
      BY <2>8 DEF AddChange
    <3>2. Change' = Change
      BY <3>1 DEF Change, InputAmount
    <3>3. payment.Outputs = <<OutputFor(order.Amount)>>
      BY <2>8 DEF AddChange, Ordered
    <3>4. payment'.Outputs = IF Change = 0 THEN payment.Outputs
                             ELSE Append(payment.Outputs, OutputFor(Change))
      BY <2>8 DEF AddChange, Ordered
    <3>5. QED
      BY <2>8, <3>1, <3>2, <3>3, <3>4 DEF AddChange, Ordered
  <2>9. CASE Finish
    BY <2>9 DEF Finish, Drop, NoPayment, Ordered
  <2>10. CASE Serve
    BY <2>1, <2>10 DEF Serve
  <2>11. CASE UNCHANGED walletVars
    BY <2>1, <2>11 DEF walletVars, builderVars
  <2>12. QED
    BY <2>2, <2>3, <2>4, <2>5, <2>6, <2>7, <2>8, <2>9, <2>10, <2>11 DEF WalletNext, Pay
<1>3. QED
  BY <1>1, <1>2, PTL DEF WalletSpec

\* One output, or two, are worth what they say.
LEMMA FewOutputs ==
  ASSUME NEW a \in Int, NEW c \in Int, NEW t \in TxHash
  PROVE  /\ OutputsOf(t) = <<OutputFor(a)>> => getOutputTotal(t) = Wrap(a)
         /\ OutputsOf(t) = Append(<<OutputFor(a)>>, OutputFor(c)) => getOutputTotal(t) = Wrap(a + c)
<1> DEFINE f == [i \in DOMAIN OutputsOf(t) |-> OutputsOf(t)[i].Amount]
<1>1. getOutputTotal(t) = Wrap(SumFunctionOnSet(f, DOMAIN f))
  BY DEF getOutputTotal, Total, SumFunction
<1>2. ASSUME OutputsOf(t) = <<OutputFor(a)>>
      PROVE  getOutputTotal(t) = Wrap(a)
  <2>1. DOMAIN f = {1} /\ f[1] = a
    BY <1>2 DEF OutputFor
  <2> HIDE DEF f
  <2>2. IsFiniteSet({1}) /\ Integral(f, {1}) /\ {1} \ {1} = {} /\ 1 \in {1}
    BY <2>1, FS_Singleton DEF Integral
  <2>3. SumFunctionOnSet(f, {1}) = f[1] + SumFunctionOnSet(f, {1} \ {1})
    BY <2>2, SumSplit
  <2>4. SumFunctionOnSet(f, {}) = 0
    BY <2>2, SumAdd
  <2>5. SumFunctionOnSet(f, {1}) = a
    BY <2>1, <2>2, <2>3, <2>4
  <2>6. QED
    BY <1>1, <2>1, <2>5
<1>3. ASSUME OutputsOf(t) = Append(<<OutputFor(a)>>, OutputFor(c))
      PROVE  getOutputTotal(t) = Wrap(a + c)
  <2> DEFINE I == 1 .. 2
  <2>1. DOMAIN f = I /\ f[1] = a /\ f[2] = c
    <3>1. <<OutputFor(a)>> \in Seq({OutputFor(a), OutputFor(c)}) /\ Len(<<OutputFor(a)>>) = 1
      OBVIOUS
    <3>2. DOMAIN f = 1 .. 2
      BY <1>3, <3>1
    <3>3. OutputsOf(t)[1] = OutputFor(a) /\ OutputsOf(t)[2] = OutputFor(c)
      BY <1>3, <3>1
    <3>4. QED
      BY <3>2, <3>3 DEF OutputFor
  <2> HIDE DEF f
  <2>2. IsFiniteSet(I)
    <3>1. \A i, j \in Int : IsFiniteSet(i .. j)
      BY FS_Interval
    <3>2. 1 \in Int /\ 2 \in Int
      OBVIOUS
    <3>3. QED
      BY <3>1, <3>2, Zenon
  <2>3. Integral(f, I)
    BY <2>1 DEF Integral
  <2>4. I \ {1} = {2} /\ {2} \ {2} = {} /\ 1 \in I /\ 2 \in {2} /\ {2} \subseteq I
    OBVIOUS
  <2>5. IsFiniteSet({2}) /\ Integral(f, {2})
    BY <2>1, FS_Singleton DEF Integral
  <2> HIDE DEF I
  <2>6. SumFunctionOnSet(f, I) = f[1] + SumFunctionOnSet(f, I \ {1})
    BY <2>2, <2>3, <2>4, SumSplit
  <2>7. SumFunctionOnSet(f, {2}) = f[2] + SumFunctionOnSet(f, {2} \ {2})
    BY <2>4, <2>5, SumSplit
  <2>8. SumFunctionOnSet(f, {}) = 0
    BY <2>5, SumAdd
  <2>9. SumFunctionOnSet(f, I) = a + c
    BY <2>1, <2>4, <2>6, <2>7, <2>8
  <2>10. QED
    BY <1>1, <2>1, <2>9
<1>4. QED
  BY <1>2, <1>3

\* PaysExactFee: a payment of TransactionBuilder that verifies leaves exactly the
\* fee that was asked for, whatever the races hide from it and however often the
\* long sums of verify wrap.
THEOREM WalletPaysExactFee ==
  WalletSpec => []PaysExactFee
<1>1. Ordered => PaysExactFee
  <2> SUFFICES ASSUME Ordered, paying = "built",
                      NEW t \in TxHash, IsPayment(t), transactionVerify(t)
               PROVE  getFees(t) = order.Fee
    BY DEF PaysExactFee
  <2> DEFINE a == order.Amount
             f == order.Fee
             n == getInputTotal(t)
  <2>1. order \in Orders
    BY DEF Ordered
  <2>2. a \in Nat /\ f \in Nat /\ f <= LongMax
    <3>1. order \in [Amount : Nat \ {0}, Fee : Nat] /\ order.Amount + order.Fee <= LongMax
      BY <2>1, WalletAssumption
    <3>2. LongMax \in Nat
      BY ParameterAssumption
    <3>3. QED
      BY <3>1, <3>2
  <2>3. n \in Int /\ getFees(t) = Wrap(n - getOutputTotal(t))
    BY FeesType DEF transactionVerify, getFees
  <2>4. Change = Wrap((n - a) - f)
    BY DEF Change, IsPayment, getInputTotal
  <2>5. OutputsOf(t) = IF Change = 0 THEN <<OutputFor(a)>> ELSE Append(<<OutputFor(a)>>, OutputFor(Change))
    BY DEF Ordered, IsPayment
  <2> HIDE DEF a, f, n
  <2>6. Wrap(f) = f
    BY <2>2, WrapSame, ParameterAssumption
  <2>7. (n - a) - f \in Int /\ Change \in Int
    BY <2>2, <2>3, <2>4, WrapType
  <2>8. CASE Change = 0
    <3>1. getFees(t) = Wrap(n - Wrap(a))
      BY <2>2, <2>3, <2>5, <2>7, <2>8, FewOutputs
    <3>2. Wrap(n - Wrap(a)) = Wrap(n - a)
      BY <2>2, <2>3, WrapAdd
    <3>3. Wrap(f + Wrap((n - a) - f)) = Wrap(f + ((n - a) - f))
      BY <2>2, <2>7, WrapAdd
    <3>4. f + ((n - a) - f) = n - a /\ f + 0 = f
      BY <2>2, <2>3
    <3>5. QED
      BY <2>4, <2>6, <2>8, <3>1, <3>2, <3>3, <3>4 DEF f
  <2>9. CASE Change # 0
    <3>1. getFees(t) = Wrap(n - Wrap(a + Change))
      BY <2>2, <2>3, <2>5, <2>7, <2>9, FewOutputs
    <3>2. Wrap(a + Wrap((n - a) - f)) = Wrap(a + ((n - a) - f))
      BY <2>2, <2>7, WrapAdd
    <3>3. a + ((n - a) - f) = n - f /\ n - f \in Int /\ n - (n - f) = f
      BY <2>2, <2>3
    <3>4. Wrap(n - Wrap(n - f)) = Wrap(n - (n - f))
      BY <2>3, <3>3, WrapAdd
    <3>5. QED
      BY <2>4, <2>6, <3>1, <3>2, <3>3, <3>4 DEF f
  <2>10. QED
    BY <2>8, <2>9
<1>2. QED
  BY <1>1, OrderedInductive, PTL

-----------------------------------------------------------------------------
(* The payments that TransactionBuilder builds when nothing comes between   *)

\* Any order of a finite set goes through each of its elements once.
LEMMA AnyOrder ==
  ASSUME NEW S, IsFiniteSet(S), NEW s \in SetToSeqs(S)
  PROVE  /\ Cardinality(S) \in Nat /\ s \in [1 .. Cardinality(S) -> S]
         /\ DOMAIN s = 1 .. Cardinality(S) /\ IsFiniteSet(DOMAIN s)
         /\ \A i, j \in DOMAIN s : s[i] = s[j] => i = j
         /\ {s[i] : i \in DOMAIN s} = S
<1> DEFINE n == Cardinality(S)
           D == 1 .. n
<1>1. n \in Nat
  BY FS_CardinalityType
<1>2. s \in [D -> S] /\ \A i, j \in D : i # j => s[i] # s[j]
  BY DEF SetToSeqs
<1>3. IsFiniteSet(D) /\ Cardinality(D) = n
  BY <1>1, FS_Interval
<1> HIDE DEF D, n
<1>4. s \in Injection(D, S)
  BY <1>2 DEF Injection, IsInjective
<1>5. s \in Surjection(D, S)
  BY <1>3, <1>4, FS_Injection DEF n
<1>6. {s[i] : i \in D} = S
  BY <1>2, <1>5 DEF Surjection
<1>7. QED
  BY <1>1, <1>2, <1>3, <1>6 DEF D, n

\* A finite set of integers can be put in order: each goes where its rank is.
LEMMA AscendingOrder ==
  ASSUME NEW S \in SUBSET Int, IsFiniteSet(S)
  PROVE  Ascending(S) \in SetToSeqs(S)
<1> DEFINE n == Cardinality(S)
           D == 1 .. n
           Below(a) == {b \in S : b <= a}
           rank == [a \in S |-> Cardinality(Below(a))]
<1>1. n \in Nat /\ IsFiniteSet(D) /\ Cardinality(D) = n
  BY FS_CardinalityType, FS_Interval
<1>2. ASSUME NEW a \in S
      PROVE  rank[a] \in D
  <2>1. Below(a) \in SUBSET S /\ Below(a) # {}
    OBVIOUS
  <2>2. Cardinality(Below(a)) \in Nat /\ Cardinality(Below(a)) <= n /\ Cardinality(Below(a)) # 0
    BY <2>1, FS_Subset, FS_CardinalityType, FS_EmptySet
  <2>3. QED
    BY <1>1, <2>2
<1>3. ASSUME NEW a \in S, NEW b \in S, a < b
      PROVE  rank[a] < rank[b]
  <2>1. Below(a) \subseteq Below(b) /\ b \in Below(b) /\ b \notin Below(a) /\ Below(b) \in SUBSET S
    <3>1. a \in Int /\ b \in Int /\ a < b /\ \A c \in S : c \in Int
      BY <1>3
    <3>2. \A c \in S : c <= a => c <= b
      BY <3>1
    <3>3. ~(b <= a) /\ b <= b
      BY <3>1
    <3>4. QED
      BY <3>2, <3>3
  <2>2. IsFiniteSet(Below(b)) /\ Below(a) # Below(b)
    BY <2>1, FS_Subset
  <2>3. Cardinality(Below(a)) < Cardinality(Below(b))
    <3> HIDE DEF Below
    <3>1. Cardinality(Below(a)) <= Cardinality(Below(b))
          /\ (Cardinality(Below(a)) = Cardinality(Below(b)) => Below(a) = Below(b))
          /\ Cardinality(Below(a)) \in Nat /\ Cardinality(Below(b)) \in Nat
      BY <2>1, <2>2, FS_Subset, FS_CardinalityType
    <3>2. QED
      BY <2>2, <3>1
  <2>4. QED
    BY <2>3
<1> HIDE DEF D, n, rank
<1>4. rank \in [S -> D]
  BY <1>2 DEF rank
<1>5. rank \in Injection(S, D)
  BY <1>1, <1>3, <1>4 DEF Injection, IsInjective, D
<1>6. rank \in Surjection(S, D)
  BY <1>1, <1>5, FS_Injection DEF n
<1> DEFINE s == [i \in D |-> CHOOSE a \in S : rank[a] = i]
<1>7. ASSUME NEW i \in D
      PROVE  s[i] \in S /\ rank[s[i]] = i
  BY <1>6 DEF Surjection
<1>8. ASSUME NEW i \in D, NEW j \in D, i < j
      PROVE  s[i] < s[j]
  <2>1. s[i] \in S /\ s[j] \in S /\ s[i] \in Int /\ s[j] \in Int
        /\ rank[s[i]] = i /\ rank[s[j]] = j
    BY <1>7
  <2> HIDE DEF s
  <2>2. ~(s[j] < s[i]) /\ s[i] # s[j]
    BY <1>1, <1>3, <1>8, <2>1 DEF D
  <2>3. QED
    BY <2>1, <2>2
<1>9. s \in SetToSeqs(S) /\ DOMAIN s = D
  <2>1. \A i, j \in D : i # j => s[i] # s[j]
    BY <1>7
  <2>2. s \in [D -> S]
    BY <1>7
  <2> HIDE DEF s
  <2>3. QED
    BY <2>1, <2>2 DEF SetToSeqs, D, n
<1>10. \E q \in SetToSeqs(S) : \A i, j \in DOMAIN q : i < j => q[i] < q[j]
  <2> HIDE DEF s
  <2>1. \A i, j \in DOMAIN s : i < j => s[i] < s[j]
    BY <1>8, <1>9
  <2>2. QED
    BY <1>9, <2>1
<1>11. QED
  BY <1>10 DEF Ascending

\* Amounts as they are.
Itself == [a \in Int |-> a]

\* The builder's sum of amounts is a sum over the set.
LEMMA SumOfItself ==
  ASSUME NEW S \in SUBSET Int, IsFiniteSet(S)
  PROVE  SumOf(S) = SumFunctionOnSet(Itself, S) /\ SumOf(S) \in Int
<1> DEFINE f == [a \in S |-> a]
<1>1. Integral(Itself, S) /\ \A a \in S : Itself[a] = f[a]
  BY DEF Integral, Itself
<1>2. SumOf(S) = SumFunctionOnSet(f, S)
  BY DEF SumOf, SumFunction
<1> HIDE DEF f
<1>3. SumFunctionOnSet(Itself, S) = SumFunctionOnSet(f, S)
  BY <1>1, SumSame
<1>4. SumFunctionOnSet(Itself, S) \in Int
  BY <1>1, SumSplit
<1>5. QED
  BY <1>2, <1>3, <1>4

\* The amounts before which there is not yet enough are enough, if all are.
LEMMA SmallestEnough ==
  ASSUME NEW S \in SUBSET Nat, IsFiniteSet(S), NEW n \in Int, SumOf(S) >= n
  PROVE  SumOf({a \in S : SumOf({c \in S : c < a}) < n}) >= n
<1> DEFINE Before(a) == {c \in S : c < a}
           A == {a \in S : SumOf(Before(a)) < n}
<1>1. CASE A = S
  BY <1>1
<1>2. CASE A # S
  <2>1. S \ A \in SUBSET Nat /\ S \ A # {}
    BY <1>2
  <2>2. PICK m \in S \ A : \A a \in S \ A : m <= a
    <3> DEFINE T == S \ A
               less == {p \in Nat \X Nat : p[1] < p[2]}
    <3> HIDE DEF A
    <3>1. IsWellFoundedOn(less, Nat)
      <4>1. less = OpToRel(<, Nat)
        BY DEF OpToRel
      <4>2. QED
        BY <4>1, NatLessThanWellFounded
    <3>2. PICK m \in T : \A a \in T : ~(<<a, m>> \in less)
      <4> HIDE DEF less, T
      <4>1. QED
        BY <2>1, <3>1, WFMin DEF T
    <3>3. \A a \in T : a \in Nat /\ ~(a < m)
      BY <2>1, <3>2
    <3>4. \A a \in T : m <= a
      BY <3>2, <3>3
    <3>5. QED
      BY <3>2, <3>4
  <2>3. Before(m) \subseteq A /\ A \in SUBSET S /\ A \in SUBSET Int /\ Before(m) \in SUBSET Int
    <3>1. S \subseteq Int /\ m \in Int
      BY <2>1, <2>2
    <3>2. ASSUME NEW c \in Before(m)
          PROVE  c \in A
      <4>1. c \in S /\ c \in Int /\ c < m
        BY <3>1
      <4>2. ~(m <= c)
        BY <3>1, <4>1
      <4>3. QED
        BY <2>2, <4>1, <4>2
    <3>3. QED
      BY <3>1, <3>2
  <2>4. SumOf(Before(m)) \in Int /\ ~(SumOf(Before(m)) < n)
    <3>1. IsFiniteSet(Before(m))
      BY <2>3, FS_Subset
    <3>2. SumOf(Before(m)) \in Int
      BY <2>3, <3>1, SumOfItself
    <3>3. QED
      BY <2>2, <3>2
  <2> HIDE DEF A, Before
  <2>5. IsFiniteSet(A) /\ IsFiniteSet(Before(m))
    BY <2>3, FS_Subset
  <2>6. Integral(Itself, A) /\ \A a \in A : Itself[a] >= 0
    BY <2>3 DEF Integral, Itself
  <2>7. SumFunctionOnSet(Itself, Before(m)) <= SumFunctionOnSet(Itself, A)
    BY <2>3, <2>5, <2>6, SumSubset
  <2>8. SumOf(Before(m)) <= SumOf(A) /\ SumOf(A) \in Int
    BY <2>3, <2>5, <2>7, SumOfItself
  <2>9. SumOf(A) >= n
    BY <2>4, <2>8
  <2>10. QED
    BY <2>9 DEF A, Before
<1>3. QED
  BY <1>1, <1>2
-----------------------------------------------------------------------------
\* What the blocks minted fits into a long.
SumsFit == Minted(blocksByHeight) <= LongMax

\* What the UTXO set holds are coins, and they fit into a long.
LEMMA UnspentFits ==
  ASSUME VInv, SumsFit
  PROVE  /\ Coins(unspentTransactionOutputSet)
         /\ Worth(unspentTransactionOutputSet) \in Nat
         /\ Worth(unspentTransactionOutputSet) <= LongMax
         /\ \A o \in unspentTransactionOutputSet : AmountOf(o) = Amounts[o]
<1>1. HInv /\ Coins(unspentTransactionOutputSet)
      /\ Worth(unspentTransactionOutputSet) <= Minted(blocksByHeight)
  BY DEF VInv
<1>2. Minted(blocksByHeight) <= LongMax /\ Minted(blocksByHeight) \in Int
  <2>1. blocksByHeight \in Seq(BlockHash)
    BY <1>1 DEF HInv, IInv
  <2>2. Minted(blocksByHeight) = SumFunctionOnSet(Mints(blocksByHeight), DOMAIN blocksByHeight)
        /\ IsFiniteSet(DOMAIN blocksByHeight)
        /\ Integral(Mints(blocksByHeight), DOMAIN blocksByHeight)
    BY <2>1, MintsType
  <2>3. Minted(blocksByHeight) \in Int
    BY <2>2, SumSplit
  <2>4. QED
    BY <2>3 DEF SumsFit
<1>3. Worth(unspentTransactionOutputSet) \in Nat
  BY <1>1, CoinsParts
<1>4. \A o \in unspentTransactionOutputSet : AmountOf(o) = Amounts[o]
  BY <1>1 DEF Coins, AmountOf, Amounts
<1>5. QED
  BY <1>1, <1>2, <1>3, <1>4, ParameterAssumption

\* The balances of distinct keys are what their outputs are worth together.
LEMMA BalancesWorth ==
  ASSUME VInv, SumsFit, NEW K, IsFiniteSet(K)
  PROVE  /\ OwnedBy(K) \in SUBSET unspentTransactionOutputSet
         /\ Worth(OwnedBy(K)) \in Nat /\ Worth(OwnedBy(K)) <= LongMax
         /\ SumFunction([k \in K |-> getBalanceForP2phkAddress(k)]) = Worth(OwnedBy(K))
<1> DEFINE U == unspentTransactionOutputSet
           paid(k) == matchP2pkh(U, k)
           part == [k \in K |-> paid(k)]
           g == [k \in K |-> getBalanceForP2phkAddress(k)]
<1>1. Coins(U) /\ Worth(U) \in Nat /\ Worth(U) <= LongMax /\ \A o \in U : AmountOf(o) = Amounts[o]
  BY UnspentFits
<1>2. IsFiniteSet(U) /\ Integral(Amounts, U)
  BY <1>1, CoinsParts DEF Coins
<1>3. ASSUME NEW k \in K
      PROVE  part[k] \in SUBSET U /\ g[k] = SumFunctionOnSet(Amounts, part[k])
  <2> DEFINE T == paid(k)
             f == [o \in T |-> AmountOf(o)]
  <2>1. T \in SUBSET U /\ part[k] = T
    BY DEF matchP2pkh
  <2>2. g[k] = Wrap(SumFunctionOnSet(f, T))
    BY DEF getBalanceForP2phkAddress, Total, SumFunction
  <2>3. \A o \in T : Amounts[o] = f[o]
    BY <1>1, <2>1
  <2> HIDE DEF T, f, U, g, part
  <2>4. IsFiniteSet(T) /\ Integral(Amounts, T)
    BY <1>2, <2>1, FS_Subset DEF Integral
  <2>5. SumFunctionOnSet(Amounts, T) = SumFunctionOnSet(f, T)
    BY <2>3, <2>4, SumSame
  <2>6. Worth(T) \in Nat /\ Worth(T) <= LongMax
    <3>1. Worth(T) \in Nat /\ Worth(T) <= Worth(U)
      BY <1>1, <2>1, CoinsParts
    <3>2. QED
      BY <1>1, <3>1, ParameterAssumption
  <2>7. Wrap(Worth(T)) = Worth(T)
    BY <2>6, WrapSame, ParameterAssumption
  <2>8. QED
    BY <2>1, <2>2, <2>5, <2>7 DEF Worth
<1>4. part \in [K -> SUBSET U]
  BY <1>3
<1>5. \A j, k \in K : j # k => part[j] \cap part[k] = {}
  BY DEF matchP2pkh
<1>6. OwnedBy(K) = UNION {part[k] : k \in K}
  BY DEF OwnedBy
<1>7. SumFunction(g) = SumFunctionOnSet(g, K)
  BY DEF SumFunction
<1> HIDE DEF part, g, U
<1>8. SumFunctionOnSet(Amounts, UNION {part[k] : k \in K}) = SumFunctionOnSet(g, K)
  BY <1>2, <1>3, <1>4, <1>5, SumUnion
<1>9. OwnedBy(K) \in SUBSET U
  BY <1>4, <1>6
<1>10. Worth(OwnedBy(K)) \in Nat /\ Worth(OwnedBy(K)) <= Worth(U)
  BY <1>1, <1>9, CoinsParts
<1>11. QED
  BY <1>1, <1>6, <1>7, <1>8, <1>9, <1>10, ParameterAssumption DEF Worth, U, g

-----------------------------------------------------------------------------
\* The key whose owner an output that matches pays.
PaidTo(o) == LockingScript[o][3].data

\* What pays to the first n keys.
OwnedUpto(n) == OwnedBy({keypairs[i] : i \in 1 .. n})

\* No two outputs share an amount, and so a place in the map.
Apart(outputs) == \A o, p \in outputs : o # p => AmountOf(o) # AmountOf(p)

\* What the map is made from, wherever the builder is.
Gathered ==
  CASE paying \in {"match", "iterate"} -> OwnedUpto(key - 1)
    [] paying = "collect"              -> OwnedUpto(key) \ matched
    [] OTHER                           -> OwnedUpto(Len(keypairs))

\* The total and the map hold just that.
MapHolds ==
  /\ total = Wrap(Worth(Gathered))
  /\ DOMAIN utxos = {Amounts[o] : o \in Gathered}
  /\ \A a \in DOMAIN utxos : \E o \in Gathered : Amounts[o] = a /\ utxos[a] = <<o, PaidTo(o)>>

\* What the sources own, and what they have.
Sourced == OwnedBy(Sources)
Funds   == SumFunction([k \in Sources |-> getBalanceForP2phkAddress(k)])

\* Inputs that spend distinct ones of these outputs, enough of them.
Chosen(inputs, outputs, needed) ==
  \E n \in Nat : \E s \in [1 .. n -> outputs] :
    /\ \A i, j \in 1 .. n : s[i] = s[j] => i = j
    /\ inputs = [i \in 1 .. n |-> InputFor(s[i], PaidTo(s[i]))]
    /\ Worth({s[i] : i \in 1 .. n}) >= needed

\* The payment has such inputs, if the sources have enough and their outputs can
\* be told apart.
Covered ==
  Funds >= Needed /\ Apart(Sourced) => Chosen(payment.Inputs, Sourced, Needed)

\* How far the builder is, while the chain stays the same and no script stops it.
Progress ==
  /\ paying \in {"match", "iterate", "collect", "select"} => MapHolds
  /\ paying \in {"iterate", "iterateAll"} => iterated = unspentTransactionOutputSet
  /\ paying = "collect" =>
       matched \subseteq matchP2pkh(unspentTransactionOutputSet, keypairs[key])
  /\ paying \in {"matchAll", "iterateAll"} => utxos = << >>
  /\ paying \in {"change", "built"} => Covered

BInv ==
  /\ key \in DOMAIN keypairs
  /\ "Inputs" \in DOMAIN payment
  /\ paying = "nothing" => key = 1 /\ total = 0 /\ utxos = << >>
  /\ undisturbed /\ ~matchFails(unspentTransactionOutputSet) => Progress

\* No key is listed twice.
KeysApart == \A i, j \in DOMAIN keypairs : keypairs[i] = keypairs[j] => i = j

\* One key more: what pays to it pays to none of those before.
LEMMA OneKeyMore ==
  ASSUME NEW n \in DOMAIN keypairs
  PROVE  LET paid == matchP2pkh(unspentTransactionOutputSet, keypairs[n])
         IN  /\ OwnedUpto(n) = OwnedUpto(n - 1) \cup paid
             /\ \A o \in paid : o \in unspentTransactionOutputSet /\ PaidTo(o) = keypairs[n]
             /\ KeysApart => OwnedUpto(n - 1) \cap paid = {}
<1> DEFINE paid(k) == matchP2pkh(unspentTransactionOutputSet, k)
<1>1. DOMAIN keypairs = 1 .. Len(keypairs) /\ Len(keypairs) \in Nat
  BY WalletAssumption
<1>2. /\ 1 .. n = (1 .. (n - 1)) \cup {n} /\ n \notin 1 .. (n - 1)
      /\ 1 .. n \subseteq DOMAIN keypairs
  BY <1>1
<1>3. \A m : OwnedUpto(m) = UNION {paid(keypairs[i]) : i \in 1 .. m}
  BY DEF OwnedUpto, OwnedBy
<1>4. \A k, o : o \in paid(k) => o \in unspentTransactionOutputSet /\ PaidTo(o) = k
  BY DEF matchP2pkh, PaidTo
<1> HIDE DEF paid
<1>5. OwnedUpto(n) = OwnedUpto(n - 1) \cup paid(keypairs[n])
  BY <1>2, <1>3
<1>6. ASSUME KeysApart
      PROVE  OwnedUpto(n - 1) \cap paid(keypairs[n]) = {}
  BY <1>2, <1>3, <1>4, <1>6 DEF KeysApart
<1>7. QED
  BY <1>4, <1>5, <1>6 DEF paid

\* While the chain stays the same, so does what the sources have.
LEMMA SameSources ==
  ASSUME UNCHANGED <<unspentTransactionOutputSet, utxos, key, order>>
  PROVE  Sourced' = Sourced /\ Funds' = Funds /\ Needed' = Needed
<1>1. Sources' = Sources /\ Needed' = Needed
  BY DEF Sources, Needed
<1>2. Sourced' = Sourced
  BY <1>1 DEF Sourced, OwnedBy, matchP2pkh
<1>3. Funds' = Funds
  BY <1>1 DEF Funds, getBalanceForP2phkAddress, matchP2pkh, AmountOf
<1>4. QED
  BY <1>1, <1>2, <1>3

\* What the node does is seen only if it changes the chain.
LEMMA QuietKeepsBInv ==
  ASSUME BInv, Serve \/ UNCHANGED walletVars
  PROVE  BInv'
<1>1. UNCHANGED <<paying, order, key, iterated, matched, total, utxos, payment>>
  BY DEF walletVars, builderVars, Serve
<1>2. CASE undisturbed'
  <2>1. undisturbed /\ UNCHANGED unspentTransactionOutputSet
    BY <1>2 DEF Serve, chainVars, walletVars, builderVars, nodeVars, storageVars
  <2>2. MapHolds' <=> MapHolds
    BY <1>1, <2>1 DEF MapHolds, Gathered, OwnedUpto, OwnedBy, matchP2pkh
  <2>3. Covered' <=> Covered
    BY <1>1, <2>1, SameSources DEF Covered
  <2>4. Progress' <=> Progress
    BY <1>1, <2>1, <2>2, <2>3 DEF Progress, matchP2pkh
  <2>5. QED
    BY <1>1, <2>1, <2>4 DEF BInv, matchFails
<1>3. CASE ~undisturbed'
  BY <1>1, <1>3 DEF BInv
<1>4. QED
  BY <1>2, <1>3

\* A step of the builder leaves the chain, and gives up or goes on.
LEMMA PayLeavesChain ==
  ASSUME Pay
  PROVE  UNCHANGED nodeVars
BY DEF Pay, AddOutput, BeginMatching, EndMatching, Collect, Select, TakeAll, AddChange, Finish,
       Leave

\* Giving up, or being done, begins anew.
LEMMA DropKeepsBInv ==
  ASSUME Drop
  PROVE  BInv'
BY WalletAssumption DEF Drop, BInv, NoPayment

\* An order is taken.
LEMMA AddOutputKeepsBInv ==
  ASSUME BInv, AddOutput
  PROVE  BInv'
<1>1. /\ paying = "nothing" /\ key' \in DOMAIN keypairs /\ total' = 0 /\ utxos' = << >>
      /\ paying' \in {"match", "matchAll"} /\ (paying' = "match" => key' = 1)
      /\ "Inputs" \in DOMAIN payment'
  BY WalletAssumption DEF AddOutput, BInv, NoPayment
<1>2. CASE paying' = "match"
  <2>1. Gathered' = {}
    <3>1. key' = 1 /\ 1 .. (key' - 1) = {}
      BY <1>1, <1>2
    <3>2. Gathered' = OwnedUpto(key - 1)'
      BY <1>2 DEF Gathered
    <3>3. QED
      BY <3>1, <3>2 DEF OwnedUpto, OwnedBy
  <2>2. Worth({}) = 0 /\ Wrap(0) = 0
    <3>1. IsFiniteSet({}) /\ Integral(Amounts, {})
      BY FS_EmptySet DEF Integral
    <3>2. QED
      BY <3>1, SumSplit, WrapSame, ParameterAssumption DEF Worth
  <2>3. MapHolds'
    BY <1>1, <2>1, <2>2 DEF MapHolds
  <2>4. QED
    BY <1>1, <1>2, <2>3 DEF BInv, Progress
<1>3. CASE paying' = "matchAll"
  BY <1>1, <1>3 DEF BInv, Progress
<1>4. QED
  BY <1>1, <1>2, <1>3

\* An iteration over the UTXO set begins.
LEMMA BeginKeepsBInv ==
  ASSUME BInv, BeginMatching
  PROVE  BInv'
<1>1. /\ UNCHANGED <<unspentTransactionOutputSet, undisturbed, key, matched, total, utxos, payment>>
      /\ iterated' = unspentTransactionOutputSet
      /\ \/ paying = "match" /\ paying' = "iterate"
         \/ paying = "matchAll" /\ paying' = "iterateAll"
  BY DEF BeginMatching, Leave, nodeVars, storageVars, chainVars
<1>2. ASSUME paying = "match", MapHolds
      PROVE  MapHolds'
  <2>1. paying' = "iterate"
    BY <1>1, <1>2
  <2>2. Gathered' = Gathered
    BY <1>1, <1>2, <2>1 DEF Gathered, OwnedUpto, OwnedBy, matchP2pkh
  <2>3. QED
    BY <1>1, <1>2, <2>2 DEF MapHolds
<1>3. ASSUME Progress
      PROVE  Progress'
  BY <1>1, <1>2, <1>3 DEF Progress
<1>4. QED
  BY <1>1, <1>3 DEF BInv, matchFails

\* After one key comes the next, and after the last the choice.
LEMMA NextKeyGathers ==
  ASSUME BInv, NextKey, UNCHANGED unspentTransactionOutputSet
  PROVE  /\ key' \in DOMAIN keypairs
         /\ paying' \in {"match", "select"}
         /\ Gathered' = OwnedUpto(key)
<1>1. DOMAIN keypairs = 1 .. Len(keypairs) /\ Len(keypairs) \in Nat /\ key \in DOMAIN keypairs
  BY WalletAssumption DEF BInv
<1>2. CASE key < Len(keypairs)
  <2>1. key' = key + 1 /\ key' \in DOMAIN keypairs /\ key' - 1 = key /\ paying' = "match"
    BY <1>1, <1>2 DEF NextKey
  <2>2. Gathered' = OwnedUpto(key - 1)'
    BY <2>1 DEF Gathered
  <2>3. {keypairs[i] : i \in 1 .. (key' - 1)} = {keypairs[i] : i \in 1 .. key}
    BY <2>1
  <2>4. Gathered' = OwnedUpto(key)
    BY <2>2, <2>3 DEF OwnedUpto, OwnedBy, matchP2pkh
  <2>5. QED
    BY <2>1, <2>4
<1>3. CASE ~(key < Len(keypairs))
  <2>1. key' = key /\ key = Len(keypairs) /\ paying' = "select"
    BY <1>1, <1>3 DEF NextKey
  <2>2. Gathered' = OwnedUpto(Len(keypairs))'
    BY <2>1 DEF Gathered
  <2>3. Gathered' = OwnedUpto(key)
    BY <2>1, <2>2 DEF OwnedUpto, OwnedBy, matchP2pkh
  <2>4. QED
    BY <1>1, <2>1, <2>3
<1>4. QED
  BY <1>2, <1>3

\* The iteration ends; nothing hid from it.
LEMMA EndKeepsBInv ==
  ASSUME BInv, EndMatching, KeysApart
  PROVE  BInv'
<1> DEFINE U == unspentTransactionOutputSet
           paid == matchP2pkh(U, keypairs[key])
<1>1. /\ UNCHANGED <<unspentTransactionOutputSet, undisturbed, total, utxos, payment>>
      /\ paying = "iterate" /\ key \in DOMAIN keypairs
  BY DEF EndMatching, Leave, nodeVars, storageVars, chainVars, BInv
<1>2. key' \in DOMAIN keypairs /\ paying' # "nothing"
  BY <1>1, NextKeyGathers DEF EndMatching
<1>3. ASSUME undisturbed, ~matchFails(U)
      PROVE  Progress'
  <2>1. MapHolds /\ iterated = U
    BY <1>1, <1>3 DEF BInv, Progress
  <2>2. matched' = paid /\ paying' = "collect" /\ key' = key
    BY <1>3, <2>1 DEF EndMatching, IterationFails, Found
  <2>3. Gathered' = OwnedUpto(key) \ paid
    BY <1>1, <2>2 DEF Gathered, OwnedUpto, OwnedBy, matchP2pkh
  <2>4. Gathered = OwnedUpto(key - 1)
    BY <1>1 DEF Gathered
  <2>5. Gathered' = Gathered
    <3>1. OwnedUpto(key) = OwnedUpto(key - 1) \cup paid /\ OwnedUpto(key - 1) \cap paid = {}
      BY <1>1, OneKeyMore
    <3> HIDE DEF paid
    <3>2. QED
      BY <2>3, <2>4, <3>1
  <2>6. MapHolds'
    BY <1>1, <2>1, <2>5 DEF MapHolds
  <2>7. matched' \subseteq matchP2pkh(unspentTransactionOutputSet', keypairs[key'])
    BY <1>1, <2>2
  <2>8. QED
    BY <2>2, <2>6, <2>7 DEF Progress, matchP2pkh
<1>4. QED
  BY <1>1, <1>2, <1>3 DEF BInv, matchFails

\* One output more goes into the map, or the key is done.
LEMMA CollectKeepsBInv ==
  ASSUME VInv, SumsFit, BInv, Collect, KeysApart
  PROVE  BInv'
<1> DEFINE U == unspentTransactionOutputSet
           paid == matchP2pkh(U, keypairs[key])
<1>1. /\ UNCHANGED <<unspentTransactionOutputSet, undisturbed, iterated, payment>>
      /\ paying = "collect" /\ key \in DOMAIN keypairs
  BY DEF Collect, Leave, nodeVars, storageVars, chainVars, BInv
<1>2. key' \in DOMAIN keypairs /\ paying' # "nothing"
  BY <1>1, NextKeyGathers DEF Collect
<1>3. ASSUME undisturbed, ~matchFails(U)
      PROVE  Progress'
  <2>1. MapHolds /\ matched \subseteq paid /\ Gathered = OwnedUpto(key) \ matched
    BY <1>1, <1>3 DEF BInv, Progress, Gathered
  <2>2. /\ OwnedUpto(key) = OwnedUpto(key - 1) \cup paid
        /\ \A o \in paid : o \in U /\ PaidTo(o) = keypairs[key]
    BY <1>1, OneKeyMore
  <2>3. CASE matched = {} /\ NextKey /\ UNCHANGED <<matched, total, utxos>>
    <3>1. Gathered' = Gathered /\ paying' \in {"match", "select"}
      BY <1>1, <2>1, <2>3, NextKeyGathers
    <3>2. MapHolds'
      BY <2>1, <2>3, <3>1 DEF MapHolds
    <3>3. QED
      BY <3>1, <3>2 DEF Progress
  <2>4. ASSUME NEW o \in matched, matched' = matched \ {o}, UNCHANGED <<paying, key>>,
               IF isTransactionOutputSpent(o)
               THEN UNCHANGED <<total, utxos>>
               ELSE /\ total' = Wrap(total + AmountOf(o))
                    /\ utxos' = [a \in DOMAIN utxos \cup {AmountOf(o)} |->
                         IF a = AmountOf(o) THEN <<o, keypairs[key]>> ELSE utxos[a]]
        PROVE  Progress'
    <3>1. o \in U /\ PaidTo(o) = keypairs[key] /\ o \in OwnedUpto(key) /\ AmountOf(o) = Amounts[o]
      <4>1. \A p \in U : AmountOf(p) = Amounts[p]
        BY UnspentFits
      <4>2. QED
        BY <2>1, <2>2, <2>4, <4>1
    <3>2. /\ total' = Wrap(total + Amounts[o])
          /\ DOMAIN utxos' = DOMAIN utxos \cup {Amounts[o]}
          /\ \A a \in DOMAIN utxos' :
               utxos'[a] = IF a = Amounts[o] THEN <<o, PaidTo(o)>> ELSE utxos[a]
      BY <2>4, <3>1 DEF isTransactionOutputSpent
    <3>3. Gathered' = Gathered \cup {o}
      <4>1. Gathered' = OwnedUpto(key) \ matched'
        BY <1>1, <2>4 DEF Gathered, OwnedUpto, OwnedBy, matchP2pkh
      <4>2. QED
        BY <2>1, <2>4, <3>1, <4>1
    <3>4. Wrap(Wrap(Worth(Gathered)) + Amounts[o]) = Wrap(Worth(Gathered \cup {o}))
      <4> DEFINE T == Gathered
      <4>1. T \in SUBSET U /\ o \in U \ T
        <5>1. OwnedUpto(key) \in SUBSET U
          BY DEF OwnedUpto, OwnedBy, matchP2pkh
        <5>2. QED
          BY <2>1, <2>4, <3>1, <5>1
      <4>2. IsFiniteSet(U) /\ Integral(Amounts, U)
        BY UnspentFits, CoinsParts DEF Coins
      <4> HIDE DEF T, U
      <4>3. /\ Worth(T \cup {o}) = Amounts[o] + Worth(T) /\ Worth(T) \in Int
            /\ Amounts[o] \in Int
        BY <4>1, <4>2, SumAdd DEF Worth, Integral
      <4>4. Wrap(Amounts[o] + Wrap(Worth(T))) = Wrap(Amounts[o] + Worth(T))
        BY <4>3, WrapAdd
      <4>5. Wrap(Worth(T)) + Amounts[o] = Amounts[o] + Wrap(Worth(T))
        <5>1. Wrap(Worth(T)) \in Int
          BY <4>3, WrapType
        <5>2. QED
          BY <4>3, <5>1
      <4>6. QED
        BY <4>3, <4>4, <4>5 DEF T
    <3>5. total' = Wrap(Worth(Gathered'))
      BY <2>1, <3>2, <3>3, <3>4 DEF MapHolds
    <3>6. DOMAIN utxos' = {Amounts[p] : p \in Gathered'}
      BY <2>1, <3>2, <3>3 DEF MapHolds
    <3>7. \A a \in DOMAIN utxos' :
            \E p \in Gathered' : Amounts[p] = a /\ utxos'[a] = <<p, PaidTo(p)>>
      <4> SUFFICES ASSUME NEW a \in DOMAIN utxos'
                   PROVE  \E p \in Gathered' : Amounts[p] = a /\ utxos'[a] = <<p, PaidTo(p)>>
        OBVIOUS
      <4>1. CASE a = Amounts[o]
        BY <3>2, <3>3, <4>1
      <4>2. CASE a # Amounts[o]
        <5>1. a \in DOMAIN utxos /\ utxos'[a] = utxos[a]
          BY <3>2, <4>2
        <5>2. PICK p \in Gathered : Amounts[p] = a /\ utxos[a] = <<p, PaidTo(p)>>
          BY <2>1, <5>1 DEF MapHolds
        <5>3. QED
          BY <3>3, <5>1, <5>2
      <4>3. QED
        BY <4>1, <4>2
    <3>8. MapHolds'
      BY <3>5, <3>6, <3>7 DEF MapHolds, PaidTo
    <3>9. matched' \subseteq matchP2pkh(unspentTransactionOutputSet', keypairs[key'])
      BY <1>1, <2>1, <2>4
    <3>10. QED
      BY <1>1, <2>4, <3>8, <3>9 DEF Progress, matchP2pkh
  <2>5. QED
    BY <2>3, <2>4 DEF Collect
<1>4. QED
  BY <1>1, <1>2, <1>3 DEF BInv, matchFails

\* Every output of one key is enough, if that key has enough.
LEMMA TakeAllKeepsBInv ==
  ASSUME VInv, SumsFit, BInv, TakeAll
  PROVE  BInv'
<1> DEFINE U == unspentTransactionOutputSet
           k == keypairs[key]
           paid == matchP2pkh(U, k)
<1>1. CASE Drop
  BY <1>1, DropKeepsBInv
<1>2. ASSUME NEW outputs \in Found(k), NEW inOrder \in SetToSeqs(outputs),
             paying = "iterateAll", paying' = "change",
             payment' = [payment EXCEPT !.Inputs =
               [i \in DOMAIN inOrder |-> InputFor(inOrder[i], k)]],
             UNCHANGED <<order, key, matched, total, utxos>>, Leave
      PROVE  BInv'
  <2>1. UNCHANGED <<U, undisturbed>> /\ key \in DOMAIN keypairs
    BY <1>2 DEF Leave, nodeVars, storageVars, chainVars, BInv
  <2>2. /\ payment'.Inputs = [i \in DOMAIN inOrder |-> InputFor(inOrder[i], k)]
        /\ "Inputs" \in DOMAIN payment'
    BY <1>2 DEF BInv
  <2>3. ASSUME undisturbed, ~matchFails(U)
        PROVE  Covered'
    <3>1. utxos = << >> /\ outputs = paid
      BY <1>2, <2>3 DEF BInv, Progress, Found
    <3>2. Sources = {k} /\ Sourced = paid
      BY <3>1 DEF Sources, Sourced, OwnedBy
    <3>3. \A o \in paid : PaidTo(o) = k
      BY <2>1, OneKeyMore
    <3>4. /\ paid \in SUBSET U /\ Worth(paid) \in Nat
          /\ Funds = Worth(paid)
      <4>1. IsFiniteSet(Sources)
        BY <3>2, FS_Singleton
      <4> HIDE DEF paid, U
      <4>2. QED
        BY <3>2, <4>1, BalancesWorth DEF U, Sourced, Funds
    <3>5. IsFiniteSet(paid)
      BY <3>4, UnspentFits, FS_Subset DEF Coins
    <3> DEFINE n == Cardinality(paid)
               s == inOrder
    <3> HIDE DEF paid, n, k, U
    <3>6. /\ n \in Nat /\ s \in [1 .. n -> paid] /\ DOMAIN s = 1 .. n
          /\ \A i, j \in 1 .. n : s[i] = s[j] => i = j
          /\ {s[i] : i \in 1 .. n} = paid
      BY <1>2, <3>1, <3>5, AnyOrder DEF n
    <3>7. payment'.Inputs = [i \in 1 .. n |-> InputFor(s[i], PaidTo(s[i]))]
      BY <2>2, <3>3, <3>6
    <3>8. Funds >= Needed => Chosen(payment'.Inputs, Sourced, Needed)
      BY <3>2, <3>4, <3>6, <3>7 DEF Chosen
    <3>9. QED
      BY <1>2, <2>1, <3>8, SameSources DEF Covered, U
  <2>4. QED
    BY <1>2, <2>1, <2>2, <2>3 DEF BInv, Progress, matchFails
<1>3. QED
  BY <1>1, <1>2 DEF TakeAll

\* Adding the change leaves the inputs alone.
LEMMA AddChangeKeepsBInv ==
  ASSUME BInv, AddChange
  PROVE  BInv'
<1>1. /\ UNCHANGED <<unspentTransactionOutputSet, undisturbed, key, order, matched, total, utxos>>
      /\ paying = "change" /\ paying' = "built"
      /\ payment'.Inputs = payment.Inputs /\ "Inputs" \in DOMAIN payment'
  BY DEF AddChange, Leave, nodeVars, storageVars, chainVars, BInv
<1>2. Covered => Covered'
  BY <1>1, SameSources DEF Covered
<1>3. QED
  BY <1>1, <1>2 DEF BInv, Progress, matchFails

\* The sources are finitely many, and what they have are amounts of the UTXO set.
LEMMA SourcesWorth ==
  ASSUME VInv, SumsFit, key \in DOMAIN keypairs
  PROVE  /\ Sourced \in SUBSET unspentTransactionOutputSet
         /\ Worth(Sourced) \in Nat /\ Worth(Sourced) <= LongMax
         /\ Funds = Worth(Sourced)
<1> DEFINE I == DOMAIN keypairs
<1>1. IsFiniteSet(I) /\ keypairs \in [I -> {keypairs[i] : i \in I}]
  <2>1. I = 1 .. Len(keypairs) /\ Len(keypairs) \in Nat
    BY WalletAssumption
  <2>2. IsFiniteSet(1 .. Len(keypairs))
    BY <2>1, FS_Interval
  <2>3. keypairs \in [I -> {keypairs[i] : i \in I}]
    BY WalletAssumption
  <2>4. QED
    BY <2>1, <2>2, <2>3
<1> HIDE DEF I
<1>2. IsFiniteSet({keypairs[i] : i \in I})
  BY <1>1, FiniteImage
<1>3. IsFiniteSet({keypairs[key]})
  BY FS_Singleton
<1>4. IsFiniteSet(Sources)
  BY <1>2, <1>3 DEF Sources, I
<1>5. QED
  BY <1>4, BalancesWorth DEF Sourced, Funds

\* The smallest amounts of the map are enough, if the keys have enough.
LEMMA SelectKeepsBInv ==
  ASSUME VInv, SumsFit, Ordered, BInv, Select
  PROVE  BInv'
<1> DEFINE U == unspentTransactionOutputSet
           all == OwnedUpto(Len(keypairs))
           few == {a \in DOMAIN utxos : SumOf(Smaller(a)) < Needed}
<1>1. /\ UNCHANGED <<unspentTransactionOutputSet, undisturbed, key, order, matched, total, utxos>>
      /\ paying = "select" /\ paying' = "change" /\ key \in DOMAIN keypairs
      /\ payment'.Inputs = IF total < Needed THEN << >> ELSE InputsFor(few)
      /\ "Inputs" \in DOMAIN payment'
  BY DEF Select, Leave, nodeVars, storageVars, chainVars, BInv
<1>2. Needed \in Nat /\ Needed > 0
  <2>1. order \in [Amount : Nat \ {0}, Fee : Nat]
    BY <1>1, WalletAssumption DEF Ordered
  <2>2. QED
    BY <2>1 DEF Needed
<1>3. ASSUME undisturbed, ~matchFails(U), Funds >= Needed, Apart(Sourced)
      PROVE  Chosen(payment'.Inputs, Sourced, Needed)
  <2>1. MapHolds /\ Gathered = all
    BY <1>1, <1>3 DEF BInv, Progress, Gathered
  <2>2. all = OwnedBy({keypairs[i] : i \in DOMAIN keypairs})
    BY WalletAssumption DEF OwnedUpto
  <2>3. Sourced \in SUBSET U /\ Worth(Sourced) \in Nat /\ Worth(Sourced) <= LongMax
        /\ Funds = Worth(Sourced)
    BY <1>1, SourcesWorth
  <2>4. Sourced = all
    <3>1. CASE utxos = << >>
      <4>1. all = {}
        BY <2>1, <3>1 DEF MapHolds
      <4>2. Sourced \subseteq all
        BY <1>1, <2>2, <3>1 DEF Sourced, Sources, OwnedBy
      <4>3. QED
        BY <4>1, <4>2
    <3>2. CASE utxos # << >>
      BY <2>2, <3>2 DEF Sourced, Sources
    <3>3. QED
      BY <3>1, <3>2
  <2>5. Coins(Sourced) /\ IsFiniteSet(Sourced) /\ Integral(Amounts, Sourced)
        /\ (\A o \in Sourced : AmountOf(o) = Amounts[o] /\ Amounts[o] \in Nat)
    <3>1. Coins(Sourced)
      BY <2>3, UnspentFits, CoinsParts
    <3>2. QED
      BY <2>3, <3>1, UnspentFits DEF Coins, Integral
  <2>6. total = Worth(Sourced)
    BY <2>1, <2>3, <2>4, WrapSame, ParameterAssumption DEF MapHolds
  <2>7. payment'.Inputs = InputsFor(few)
    BY <1>1, <1>2, <1>3, <2>3, <2>6
  <2>8. /\ DOMAIN utxos = {Amounts[o] : o \in Sourced}
        /\ \A a \in DOMAIN utxos :
             \E o \in Sourced : Amounts[o] = a /\ utxos[a] = <<o, PaidTo(o)>>
    BY <2>1, <2>4 DEF MapHolds
  <2>9. DOMAIN utxos \in SUBSET Nat /\ IsFiniteSet(DOMAIN utxos)
    <3>1. IsFiniteSet({Amounts[o] : o \in Sourced})
      <4> DEFINE at == [o \in Sourced |-> Amounts[o]]
      <4>1. at \in [Sourced -> {at[o] : o \in Sourced}]
        OBVIOUS
      <4>2. {at[o] : o \in Sourced} = {Amounts[o] : o \in Sourced}
        OBVIOUS
      <4> HIDE DEF at
      <4>3. IsFiniteSet({at[o] : o \in Sourced})
        BY <2>5, <4>1, FiniteImage
      <4>4. QED
        BY <4>2, <4>3
    <3>2. QED
      BY <2>5, <2>8, <3>1
  <2>10. SumOf(DOMAIN utxos) = Worth(Sourced)
    <3> DEFINE S == DOMAIN utxos
               K == Sourced
               at == [o \in K |-> Amounts[o]]
    <3>1. /\ IsFiniteSet(S) /\ Integral(Itself, S) /\ IsFiniteSet(K) /\ at \in [K -> S]
          /\ (\A j, k \in K : at[j] = at[k] => j = k)
          /\ (\A k \in K : Amounts[k] = Itself[at[k]])
          /\ {at[k] : k \in K} = S
      BY <1>3, <2>5, <2>8, <2>9 DEF Integral, Itself, Apart
    <3>2. SumOf(S) = SumFunctionOnSet(Itself, S)
      BY <2>9, SumOfItself
    <3> HIDE DEF S, K, at
    <3>3. SumFunctionOnSet(Amounts, K) = SumFunctionOnSet(Itself, {at[k] : k \in K})
      BY <3>1, SumReindex
    <3>4. QED
      BY <3>1, <3>2, <3>3 DEF Worth, S, K
  <2>11. /\ few \in SUBSET DOMAIN utxos /\ few \in SUBSET Int /\ IsFiniteSet(few)
         /\ SumOf(few) >= Needed
    <3>1. SumOf({a \in DOMAIN utxos : SumOf({c \in DOMAIN utxos : c < a}) < Needed}) >= Needed
      BY <1>2, <1>3, <2>3, <2>9, <2>10, SmallestEnough
    <3>2. few \in SUBSET DOMAIN utxos
      OBVIOUS
    <3>3. few \in SUBSET Int /\ IsFiniteSet(few)
      BY <2>9, <3>2, FS_Subset
    <3>4. QED
      BY <3>1, <3>2, <3>3 DEF Smaller
  <2> DEFINE n == Cardinality(few)
             q == Ascending(few)
             s == [i \in 1 .. n |-> utxos[q[i]][1]]
  <2> HIDE DEF few, n, q
  <2>12. /\ n \in Nat /\ q \in [1 .. n -> few] /\ DOMAIN q = 1 .. n /\ IsFiniteSet(1 .. n)
         /\ (\A i, j \in 1 .. n : q[i] = q[j] => i = j)
         /\ {q[i] : i \in 1 .. n} = few
    BY <2>11, AscendingOrder, AnyOrder DEF n, q
  <2>13. ASSUME NEW i \in 1 .. n
         PROVE  /\ s[i] \in Sourced /\ Amounts[s[i]] = q[i]
                /\ utxos[q[i]] = <<s[i], PaidTo(s[i])>>
    <3>1. q[i] \in DOMAIN utxos
      BY <2>11, <2>12
    <3>2. PICK o \in Sourced : Amounts[o] = q[i] /\ utxos[q[i]] = <<o, PaidTo(o)>>
      BY <2>8, <3>1
    <3>3. s[i] = o
      BY <3>2
    <3>4. QED
      BY <3>2, <3>3
  <2>14. s \in [1 .. n -> Sourced] /\ \A i, j \in 1 .. n : s[i] = s[j] => i = j
    <3>1. s \in [1 .. n -> Sourced]
      BY <2>13
    <3>2. \A i, j \in 1 .. n : s[i] = s[j] => i = j
      <4> HIDE DEF s
      <4>1. QED
        BY <2>12, <2>13
    <3>3. QED
      BY <3>1, <3>2
  <2>15. InputsFor(few) = [i \in 1 .. n |-> InputFor(s[i], PaidTo(s[i]))]
    <3>1. InputsFor(few) = [i \in 1 .. n |-> InputFor(utxos[q[i]][1], utxos[q[i]][2])]
      BY <2>12 DEF InputsFor, q
    <3> HIDE DEF s
    <3>2. \A i \in 1 .. n : utxos[q[i]][1] = s[i] /\ utxos[q[i]][2] = PaidTo(s[i])
      BY <2>13
    <3>3. QED
      BY <3>1, <3>2
  <2>16. Worth({s[i] : i \in 1 .. n}) = SumOf(few)
    <3> DEFINE K == 1 .. n
    <3> HIDE DEF s
    <3>0. /\ IsFiniteSet(K) /\ s \in [K -> Sourced]
          /\ (\A j, k \in K : s[j] = s[k] => j = k) /\ (\A k \in K : q[k] = Amounts[s[k]])
      BY <2>12, <2>13, <2>14
    <3> HIDE DEF K
    <3>1. SumFunctionOnSet(q, K) = SumFunctionOnSet(Amounts, {s[i] : i \in K})
      BY <2>5, <3>0, SumReindex
    <3>2. SumFunctionOnSet(q, K) = SumFunctionOnSet(Itself, {q[i] : i \in K})
      <4>1. Integral(Itself, few) /\ \A i \in K : q[i] = Itself[q[i]]
        BY <2>11, <2>12 DEF Integral, Itself, K
      <4>2. QED
        BY <2>11, <2>12, <4>1, SumReindex DEF K
    <3>3. QED
      BY <2>11, <2>12, <3>1, <3>2, SumOfItself DEF Worth, K
  <2> HIDE DEF s
  <2>17. Worth({s[i] : i \in 1 .. n}) >= Needed
    BY <2>11, <2>16
  <2>18. payment'.Inputs = [i \in 1 .. n |-> InputFor(s[i], PaidTo(s[i]))]
    BY <2>7, <2>15
  <2>19. QED
    BY <2>12, <2>14, <2>17, <2>18 DEF Chosen
<1>4. ASSUME undisturbed, ~matchFails(U)
      PROVE  Covered'
  <2> HIDE DEF few
  <2>1. QED
    BY <1>1, <1>3, <1>4, SameSources DEF Covered
<1>5. QED
  BY <1>1, <1>4 DEF BInv, Progress, matchFails

\* The builder's steps, and those of the node beside it.
LEMMA BInvInductive ==
  ASSUME KeysApart
  PROVE  /\ WalletInit => BInv
         /\ VInv /\ SumsFit /\ Ordered /\ BInv /\ [WalletNext]_walletVars => BInv'
<1>1. WalletInit => BInv
  BY WalletAssumption DEF WalletInit, BInv, NoPayment
<1>2. ASSUME VInv, SumsFit, Ordered, BInv, [WalletNext]_walletVars
      PROVE  BInv'
  <2>1. CASE Serve \/ UNCHANGED walletVars
    BY <1>2, <2>1, QuietKeepsBInv
  <2>2. CASE AddOutput \/ BeginMatching
    BY <1>2, <2>2, AddOutputKeepsBInv, BeginKeepsBInv
  <2>3. CASE EndMatching \/ Collect
    BY <1>2, <2>3, EndKeepsBInv, CollectKeepsBInv
  <2>4. CASE Select
    BY <1>2, <2>4, SelectKeepsBInv
  <2>5. CASE TakeAll
    BY <1>2, <2>5, TakeAllKeepsBInv
  <2>6. CASE AddChange
    BY <1>2, <2>6, AddChangeKeepsBInv
  <2>7. CASE Finish
    BY <2>7, DropKeepsBInv DEF Finish
  <2>8. QED
    BY <1>2, <2>1, <2>2, <2>3, <2>4, <2>5, <2>6, <2>7 DEF WalletNext, Pay
<1>3. QED
  BY <1>1, <1>2

\* A payment that is paid for is among the transactions, and neither too large
\* nor dated beyond what a long can say.
PaymentInPlay ==
  paying = "built" /\ undisturbed /\ payment.Inputs # << >> /\ Change >= 0 =>
    \E t \in TxHash : /\ IsPayment(t)
                      /\ TxOf[t].TimeStamp < LongMax
                      /\ TxOf[t].Size < MaxTransactionSize

\* An unspent output is that of an indexed transaction.
LEMMA UnspentIndexed ==
  ASSUME VInv, NEW o \in unspentTransactionOutputSet
  PROVE  canGetTransaction(o[1]) /\ OutputExists(o) /\ o = <<o[1], o[2]>> /\ o[1] # ZeroHash
<1>1. IInv /\ o \in Created(blocksByHeight)
  BY DEF VInv, HInv, IInv, UtxoExact
<1>2. PICK i \in DOMAIN blocksByHeight : o \in CreatedBy(blocksByHeight[i])
  BY <1>1 DEF Created
<1>3. PICK k \in DOMAIN TxsOf(blocksByHeight[i]) : o \in Creates(TxsOf(blocksByHeight[i])[k])
  BY <1>2 DEF CreatedBy
<1> DEFINE b == blocksByHeight[i]
           t == TxsOf(b)[k]
<1>4. b \in BlockHash /\ b \in blocks /\ t \in TxHash
  BY <1>1, <1>2, <1>3, TransactionAt DEF IInv, ViewsAgree
<1>5. PICK j \in DOMAIN OutputsOf(t) : o = <<t, j - 1>>
  BY <1>3 DEF Creates
<1>6. blockHashesByTransaction[t] = b
  BY <1>1, <1>3, <1>4 DEF IInv, ViewsAgree
<1> HIDE DEF b, t
<1>7. canGetTransaction(o[1]) /\ o = <<o[1], o[2]>> /\ o[1] # ZeroHash
  BY <1>4, <1>5, <1>6, DataAssumption DEF canGetTransaction
<1>8. OutputsOf(t) \in Seq(Output)
  BY <1>4, TransactionTypes
<1>9. o[1] = t /\ o[2] = j - 1 /\ (j - 1) + 1 = j
  BY <1>5, <1>8
<1>10. OutputExists(o)
  BY <1>5, <1>9 DEF OutputExists
<1>11. QED
  BY <1>7, <1>10

\* Outputs taken one by one, each of them once, add up to what they are worth.
LEMMA WorthInOrder ==
  ASSUME NEW T, Coins(T), NEW D, IsFiniteSet(D), NEW s \in [D -> T],
         \A i, j \in D : s[i] = s[j] => i = j
  PROVE  SumFunction([i \in D |-> Amounts[s[i]]]) = Worth({s[i] : i \in D})
<1> DEFINE h == [i \in D |-> Amounts[s[i]]]
<1>1. IsFiniteSet(T) /\ Integral(Amounts, T)
  BY CoinsParts DEF Coins
<1>2. \A k \in D : h[k] = Amounts[s[k]]
  OBVIOUS
<1>3. SumFunction(h) = SumFunctionOnSet(h, D)
  BY DEF SumFunction
<1> HIDE DEF h
<1>4. SumFunctionOnSet(h, D) = SumFunctionOnSet(Amounts, {s[k] : k \in D})
  BY <1>1, <1>2, SumReindex
<1>5. QED
  BY <1>3, <1>4 DEF h, Worth

\* A payment whose inputs were chosen from what the sources own is accepted.
LEMMA BuiltPays ==
  ASSUME VInv, SumsFit, Ordered, BInv, PaymentInPlay, paying = "built", undisturbed, Payable
  PROVE  \E t \in TxHash :
           /\ IsPayment(t)
           /\ TxOf[t].Size * MinSatPerByte < order.Fee => acceptable(t)
<1> DEFINE U == unspentTransactionOutputSet
           a == order.Amount
           f == order.Fee
<1>1. /\ Funds >= Needed /\ Apart(Sourced) /\ ~matchFails(U)
      /\ \A o \in Sourced : /\ \E k \in Sources : Unlocks(o, k)
                           /\ clock >= TxOf[o[1]].TimeStamp
                           /\ ~doTransactionsContainTXO(o)
  BY DEF Payable, Funds, Sourced, Apart
<1>2. Chosen(payment.Inputs, Sourced, Needed) /\ key \in DOMAIN keypairs
  BY <1>1 DEF BInv, Progress, Covered
<1>3. PICK n \in Nat : \E s \in [1 .. n -> Sourced] :
        /\ \A i, j \in 1 .. n : s[i] = s[j] => i = j
        /\ payment.Inputs = [i \in 1 .. n |-> InputFor(s[i], PaidTo(s[i]))]
        /\ Worth({s[i] : i \in 1 .. n}) >= Needed
  BY <1>2 DEF Chosen
<1>4. PICK s \in [1 .. n -> Sourced] :
        /\ \A i, j \in 1 .. n : s[i] = s[j] => i = j
        /\ payment.Inputs = [i \in 1 .. n |-> InputFor(s[i], PaidTo(s[i]))]
        /\ Worth({s[i] : i \in 1 .. n}) >= Needed
  BY <1>3
<1> DEFINE K == 1 .. n
           S == {s[i] : i \in K}
           W == Worth(S)
<1>5. Sourced \in SUBSET U /\ Worth(Sourced) <= LongMax /\ Coins(Sourced)
      /\ \A o \in Sourced : AmountOf(o) = Amounts[o]
  <2>1. Sourced \in SUBSET U /\ Worth(Sourced) <= LongMax
    BY <1>2, SourcesWorth
  <2>2. QED
    BY <2>1, UnspentFits, CoinsParts
<1>6. a \in Nat /\ a > 0 /\ f \in Nat /\ Needed = a + f /\ a + f <= LongMax
  BY WalletAssumption DEF Ordered, Needed
<1>7. W \in Nat /\ W <= LongMax /\ W >= a + f
  <2>1. S \in SUBSET Sourced
    OBVIOUS
  <2>2. W >= a + f
    BY <1>4, <1>6
  <2> HIDE DEF S
  <2>3. W \in Nat /\ W <= Worth(Sourced) /\ Worth(Sourced) \in Nat
    BY <1>5, <2>1, CoinsParts
  <2> HIDE DEF W
  <2>4. QED
    BY <1>5, <2>2, <2>3, ParameterAssumption
<1> HIDE DEF U, a, f
<1>8. ASSUME NEW i \in K
      PROVE  /\ s[i] \in Sourced
             /\ OutpointOf(payment.Inputs[i]) = s[i]
             /\ inputVerify(payment.Inputs[i])
             /\ InputAmount(payment.Inputs[i]) = Amounts[s[i]]
  <2> DEFINE o == s[i]
             input == payment.Inputs[i]
  <2>1. o \in Sourced /\ o \in U
    BY <1>5
  <2>2. /\ input.InputHash = o[1] /\ input.IndexNumber = o[2]
        /\ input.unlocks = Unlocks(o, PaidTo(o))
    BY <1>4 DEF InputFor
  <2>3. Unlocks(o, PaidTo(o))
    BY <1>1, <2>1 DEF Unlocks, matchP2pkh, PaidTo
  <2> HIDE DEF o, input
  <2>4. canGetTransaction(o[1]) /\ OutputExists(o) /\ o = <<o[1], o[2]>> /\ o[1] # ZeroHash
    BY <2>1, UnspentIndexed DEF U
  <2>5. OutpointOf(input) = o
    BY <2>2, <2>4 DEF OutpointOf
  <2>6. inputVerify(input)
    BY <1>1, <2>1, <2>2, <2>3, <2>4, <2>5 DEF inputVerify
  <2>7. InputAmount(input) = Amounts[o]
    BY <1>5, <2>1, <2>2, <2>4 DEF InputAmount, AmountOf
  <2>8. QED
    BY <2>1, <2>5, <2>6, <2>7 DEF o, input
<1>9. Total([i \in DOMAIN payment.Inputs |-> InputAmount(payment.Inputs[i])]) = W
  <2> DEFINE g == [i \in K |-> InputAmount(payment.Inputs[i])]
  <2>1. DOMAIN payment.Inputs = K
    BY <1>4
  <2>2. IsFiniteSet(K)
    <3>1. \A j, k \in Int : IsFiniteSet(j .. k)
      BY FS_Interval
    <3>2. 1 \in Int /\ n \in Int
      OBVIOUS
    <3>3. QED
      BY <3>1, <3>2
  <2>3. g = [i \in K |-> Amounts[s[i]]]
    BY <1>8
  <2>4. SumFunction([i \in K |-> Amounts[s[i]]]) = Worth({s[i] : i \in K})
    <3>1. Coins(Sourced) /\ s \in [K -> Sourced] /\ \A i, j \in K : s[i] = s[j] => i = j
      BY <1>4, <1>5
    <3> HIDE DEF K
    <3>2. QED
      BY <2>2, <3>1, WorthInOrder
  <2>5. SumFunction(g) = W
    BY <2>3, <2>4
  <2> HIDE DEF g
  <2> HIDE DEF W, S
  <2>8. Wrap(W) = W
    BY <1>7, WrapSame, ParameterAssumption
  <2>9. Total(g) = W
    BY <2>5, <2>8 DEF Total
  <2>10. QED
    BY <2>1, <2>9 DEF g
<1>10. n > 0 /\ payment.Inputs # << >> /\ DOMAIN payment.Inputs = K
  <2>1. CASE n = 0
    <3>1. S = {}
      BY <2>1
    <3>2. IsFiniteSet({}) /\ Integral(Amounts, {})
      BY FS_EmptySet DEF Integral
    <3>3. W = 0
      BY <3>1, <3>2, SumSplit DEF Worth
    <3> HIDE DEF W
    <3>4. QED
      BY <1>6, <1>7, <3>3
  <2>2. CASE n # 0
    <3>1. 1 \in K /\ DOMAIN payment.Inputs = K
      BY <1>4, <2>2
    <3>2. QED
      BY <2>2, <3>1
  <2>3. QED
    BY <2>1, <2>2
<1> HIDE DEF W, S
<1>11. Change = (W - a) - f /\ Change >= 0 /\ Change <= LongMax /\ Change \in Int
  <2>1. Change = Wrap((W - a) - f)
    BY <1>9 DEF Change, a, f
  <2>2. (W - a) - f \in Int /\ 0 <= (W - a) - f /\ (W - a) - f <= LongMax
    BY <1>6, <1>7, ParameterAssumption
  <2>3. QED
    BY <2>1, <2>2, WrapSame, ParameterAssumption
<1>12. PICK t \in TxHash : IsPayment(t) /\ TxOf[t].TimeStamp < LongMax
                          /\ TxOf[t].Size < MaxTransactionSize
  BY <1>10, <1>11 DEF PaymentInPlay
<1>13. SUFFICES ASSUME TxOf[t].Size * MinSatPerByte < f
                PROVE  acceptable(t)
  BY <1>12 DEF f
<1>14. /\ InputsOf(t) = payment.Inputs
       /\ OutputsOf(t) = IF Change = 0 THEN <<OutputFor(a)>>
                         ELSE Append(<<OutputFor(a)>>, OutputFor(Change))
  BY <1>12 DEF IsPayment, Ordered, a
<1>15. getInputTotal(t) = W
  BY <1>9, <1>14 DEF getInputTotal
<1>16. getOutputTotal(t) = W - f
  <2>1. Wrap(W - f) = W - f
    BY <1>6, <1>7, WrapSame, ParameterAssumption
  <2>2. CASE Change = 0
    <3>1. getOutputTotal(t) = Wrap(a) /\ a = W - f
      BY <1>6, <1>7, <1>11, <1>14, <2>2, FewOutputs
    <3>2. QED
      BY <2>1, <3>1
  <2>3. CASE Change # 0
    <3>1. getOutputTotal(t) = Wrap(a + Change)
      BY <1>6, <1>11, <1>14, <2>3, FewOutputs
    <3>2. a + Change = W - f
      BY <1>6, <1>7, <1>11
    <3>3. QED
      BY <2>1, <3>1, <3>2
  <2>4. QED
    BY <2>2, <2>3
<1>17. getFees(t) = f
  <2>1. W - (W - f) = f /\ f <= LongMax
    BY <1>6, <1>7, ParameterAssumption
  <2>2. Wrap(f) = f
    BY <1>6, <2>1, WrapSame, ParameterAssumption
  <2>3. QED
    BY <1>15, <1>16, <2>1, <2>2 DEF getFees
<1>18. verifyInputs(t) /\ InputsOf(t) # << >>
  BY <1>8, <1>10, <1>14 DEF verifyInputs
<1>19. verifyOutputs(t) /\ OutputsOf(t) # << >>
  <2>1. CASE Change = 0
    BY <1>6, <1>14, <2>1 DEF verifyOutputs, OutputFor
  <2>2. CASE Change # 0
    <3>1. /\ DOMAIN OutputsOf(t) = 1 .. 2
          /\ OutputsOf(t)[1] = OutputFor(a) /\ OutputsOf(t)[2] = OutputFor(Change)
      <4>1. <<OutputFor(a)>> \in Seq({OutputFor(a), OutputFor(Change)}) /\ Len(<<OutputFor(a)>>) = 1
        OBVIOUS
      <4>2. OutputsOf(t) = Append(<<OutputFor(a)>>, OutputFor(Change))
        BY <1>14, <2>2
      <4>3. QED
        BY <4>1, <4>2
    <3>2. Change > 0
      BY <1>11, <2>2
    <3>3. \A i \in 1 .. 2 : i = 1 \/ i = 2
      OBVIOUS
    <3>4. \A i \in 1 .. 2 : OutputsOf(t)[i].lockFits /\ OutputsOf(t)[i].Amount > 0
      BY <1>6, <3>1, <3>2, <3>3 DEF OutputFor
    <3>5. OutputsOf(t) # << >>
      BY <3>1
    <3>6. QED
      BY <3>1, <3>4, <3>5 DEF verifyOutputs
  <2>3. QED
    BY <2>1, <2>2
<1>20. transactionVerify(t)
  <2>1. TxOf[t].Size * MinSatPerByte \in Nat
    <3>1. TxOf[t].Size \in Nat /\ MinSatPerByte \in Nat
      BY DataAssumption, ParameterAssumption DEF Transaction
    <3>2. QED
      BY <3>1
  <2>2. getFees(t) > TxOf[t].Size * MinSatPerByte /\ getFees(t) > 0
    BY <1>6, <1>13, <1>17, <2>1
  <2>3. getInputTotal(t) > 0 /\ getOutputTotal(t) > 0
    BY <1>6, <1>7, <1>15, <1>16
  <2>4. QED
    BY <1>12, <1>18, <1>19, <2>2, <2>3 DEF transactionVerify
<1>21. \A o \in Spends(t) : o \in Sourced /\ o \in U
  BY <1>5, <1>8, <1>10, <1>14 DEF Spends
<1>22. t \notin mempool
  <2>1. 1 \in DOMAIN InputsOf(t)
    BY <1>10, <1>14
  <2>2. OutpointOf(InputsOf(t)[1]) \in Spends(t)
    BY <2>1 DEF Spends
  <2>3. QED
    BY <1>1, <1>21, <2>2 DEF doTransactionsContainTXO
<1>23. QED
  BY <1>1, <1>20, <1>21, <1>22
     DEF acceptable, verifyInputsUnspent, isTransactionOutputSpent, U

\* UndisturbedPays: when the keys have enough and nothing stands in the way, what
\* TransactionBuilder builds is a payment the node accepts, if no key is listed
\* twice (its outputs would count twice, in a total that may then wrap), amounts
\* add up to longs, and the payment is among the transactions of the instance.
THEOREM WalletUndisturbedPays ==
  ASSUME KeysApart
  PROVE  WalletSpec /\ []SumsFit /\ []PaymentInPlay => []UndisturbedPays
<1> DEFINE Known == sent \subseteq TxHash
<1>1. WalletInit => Init /\ Known
  BY DEF WalletInit
<1>2. Known /\ [WalletNext]_walletVars => [Next]_nodeVars /\ Known'
  <2> SUFFICES ASSUME Known, [WalletNext]_walletVars
               PROVE  [Next]_nodeVars /\ Known'
    OBVIOUS
  <2>1. CASE Pay
    <3>1. UNCHANGED nodeVars
      BY <2>1, PayLeavesChain
    <3>2. sent' = sent \/ Finish
      BY <2>1 DEF Pay, AddOutput, BeginMatching, EndMatching, Collect, Select, TakeAll,
                  AddChange, Leave
    <3>3. sent' \subseteq TxHash
      BY <3>2 DEF Finish
    <3>4. QED
      BY <3>1, <3>3
  <2>2. CASE Serve
    BY <2>2 DEF Serve, Next
  <2>3. CASE UNCHANGED walletVars
    BY <2>3 DEF walletVars
  <2>4. QED
    BY <2>1, <2>2, <2>3 DEF WalletNext
<1>3. VInv /\ SumsFit /\ Ordered /\ BInv /\ PaymentInPlay => UndisturbedPays
  BY BuiltPays DEF UndisturbedPays
<1>4. QED
  BY <1>1, <1>2, <1>3, VInvInductive, BInvInductive, OrderedInductive, PTL DEF WalletSpec
=============================================================================
