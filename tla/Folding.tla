------------------------------- MODULE Folding -------------------------------
(***************************************************************************)
(* What FoldLeft of SequencesExt computes, for any operator: the values it *)
(* goes through, item by item. The library states induction over operators *)
(* only, which no prover here can instantiate, so it is stated of sets     *)
(* instead; and the operator that is folded is a parameter of the module,  *)
(* which whoever needs it instantiates.                                    *)
(***************************************************************************)
EXTENDS Integers, SequencesExt, FiniteSetTheorems, WellFoundedInduction, TLAPS

CONSTANT Op(_, _)   \* what is done with the value so far and the next item

-----------------------------------------------------------------------------
(* Induction                                                               *)

LessThan == {p \in Nat \X Nat : p[1] < p[2]}

\* From smaller to larger numbers, every descent ends.
LEMMA LessThanWellFounded == IsWellFoundedOn(LessThan, Nat)
<1>1. LessThan = OpToRel(<, Nat)
  BY DEF LessThan, OpToRel
<1>2. QED
  BY <1>1, NatLessThanWellFounded

\* A set with 0, and with the successor of each of its numbers, has them all.
LEMMA SetInduction ==
  ASSUME NEW S, 0 \in S, \A n \in Nat : n \in S => n + 1 \in S
  PROVE  Nat \subseteq S
<1> DEFINE T == Nat \ S
<1>1. SUFFICES ASSUME T # {} PROVE FALSE
  OBVIOUS
<1>3. PICK x \in T : \A y \in T : ~ (<<y, x>> \in LessThan)
  BY <1>1, LessThanWellFounded, WFMin
<1>4. x \in Nat /\ x # 0 /\ x - 1 \in Nat /\ x - 1 < x
  OBVIOUS
<1>5. <<x - 1, x>> \in LessThan
  BY <1>4 DEF LessThan
<1>6. x - 1 \in S
  BY <1>3, <1>4, <1>5
<1>7. QED
  BY <1>4, <1>6

\* Max finds the greatest element.
LEMMA MaxFacts ==
  ASSUME NEW S \in SUBSET Nat, NEW n \in S, \A k \in S : k <= n
  PROVE  Max(S) = n
<1>1. \A x : x \in S /\ (\A y \in S : y <= x) => x = n
  OBVIOUS
<1>2. QED
  BY <1>1 DEF Max

\* A set of places has its greatest among it.
LEMMA MaxIn ==
  ASSUME NEW n \in Nat, NEW s \in SUBSET (1 .. n), s # {}
  PROVE  Max(s) \in s
<1> DEFINE S == {k \in Nat : \A u \in SUBSET (1 .. k) : u # {} => \E x \in u : \A y \in u : y <= x}
<1>1. 0 \in S
  <2>1. \A u \in SUBSET (1 .. 0) : u = {}
    OBVIOUS
  <2>2. QED
    BY <2>1
<1>2. ASSUME NEW k \in Nat, k \in S
      PROVE  k + 1 \in S
  <2>1. ASSUME NEW u \in SUBSET (1 .. (k + 1)), u # {}
        PROVE  \E x \in u : \A y \in u : y <= x
    <3>1. CASE k + 1 \in u
      BY <3>1
    <3>2. CASE k + 1 \notin u
      <4>1. u \in SUBSET (1 .. k)
        BY <3>2
      <4>2. QED
        BY <1>2, <2>1, <4>1
    <3>3. QED
      BY <3>1, <3>2
  <2>2. QED
    BY <2>1
<1>3. n \in S
  <2> HIDE DEF S
  <2>1. QED
    BY <1>1, <1>2, SetInduction
<1>4. PICK x \in s : \A y \in s : y <= x
  BY <1>3
<1>5. Max(s) = x
  BY <1>4, MaxFacts
<1>6. QED
  BY <1>5

-----------------------------------------------------------------------------
(* Folds                                                                   *)

\* A fold from the left.
FoldOf(base, chain) == FoldLeft(Op, base, chain)

\* Folding items never leaves V.
Stays(V, Items) == \A v \in V : \A i \in Items : Op(v, i) \in V

\* The values a fold goes through.
IsTrace(trace, chain) ==
  \A k \in 1 .. Len(chain) : trace[k] = Op(trace[k - 1], chain[k])

\* What the recursive function inside a fold of F over the places 1 .. n does.
IsFold(h, base, n, F) ==
  \A s \in SUBSET (1 .. n) :
    h[s] = IF s = {} THEN base ELSE F[Max(s)][h[s \ {Max(s)}]]

\* There is such a function.
LEMMA FoldExists ==
  ASSUME NEW V, NEW base \in V, NEW n \in Nat, NEW F,
         \A k \in 1 .. n : \A v \in V : F[k][v] \in V
  PROVE  \E h \in [SUBSET (1 .. n) -> V] : IsFold(h, base, n, F)
<1> DEFINE Rec(h, k) == IsFold(h, base, k, F)
           Has(k) == \E h \in [SUBSET (1 .. k) -> V] : Rec(h, k)
           S == {k \in Nat : k <= n => Has(k)}
<1>0. \A k \in Nat : k \in S <=> (k <= n => Has(k))
  <2> HIDE DEF Has
  <2>1. QED
    OBVIOUS
<1>1. 0 \in S
  <2>1. SUBSET (1 .. 0) = {{}}
    OBVIOUS
  <2>2. [s \in SUBSET (1 .. 0) |-> base] \in [SUBSET (1 .. 0) -> V]
    OBVIOUS
  <2>3. Rec([s \in SUBSET (1 .. 0) |-> base], 0)
    BY <2>1 DEF IsFold
  <2>4. Has(0)
    BY <2>2, <2>3
  <2> HIDE DEF Has, S
  <2>5. QED
    BY <1>0, <2>4
<1>2. ASSUME NEW k \in Nat, k \in S
      PROVE  k + 1 \in S
  <2> SUFFICES ASSUME k + 1 <= n
               PROVE  Has(k + 1)
    <3> HIDE DEF Has, S
    <3>1. QED
      BY <1>0
  <2>0. Has(k)
    <3> HIDE DEF Has, S
    <3>1. QED
      BY <1>0, <1>2
  <2>1. PICK g \in [SUBSET (1 .. k) -> V] : Rec(g, k)
    BY <2>0
  <2> DEFINE h == [s \in SUBSET (1 .. (k + 1)) |->
                     IF k + 1 \in s THEN F[k + 1][g[s \ {k + 1}]] ELSE g[s]]
  <2>2. \A s \in SUBSET (1 .. (k + 1)) : s \ {k + 1} \in SUBSET (1 .. k)
    OBVIOUS
  <2>3. h \in [SUBSET (1 .. (k + 1)) -> V]
    <3>1. k + 1 \in 1 .. n
      OBVIOUS
    <3>2. \A v \in V : F[k + 1][v] \in V
      BY <3>1
    <3>3. ASSUME NEW s \in SUBSET (1 .. (k + 1))
          PROVE  (IF k + 1 \in s THEN F[k + 1][g[s \ {k + 1}]] ELSE g[s]) \in V
      <4>1. CASE k + 1 \in s
        BY <2>2, <3>2, <4>1
      <4>2. CASE k + 1 \notin s
        <5>1. s \in SUBSET (1 .. k)
          BY <2>2, <4>2
        <5>2. QED
          BY <5>1, <4>2
      <4>3. QED
        BY <4>1, <4>2
    <3>4. QED
      BY <3>3
  <2>4. ASSUME NEW s \in SUBSET (1 .. (k + 1))
        PROVE  h[s] = IF s = {} THEN base ELSE F[Max(s)][h[s \ {Max(s)}]]
    <3>1. CASE k + 1 \in s
      <4>1. Max(s) = k + 1
        <5> HIDE DEF h
        <5>1. s \in SUBSET Nat /\ \A j \in s : j <= k + 1
          OBVIOUS
        <5>2. QED
          BY <3>1, <5>1, MaxFacts
      <4>2. s \ {k + 1} \in SUBSET (1 .. (k + 1)) /\ k + 1 \notin s \ {k + 1}
        OBVIOUS
      <4>3. h[s \ {k + 1}] = g[s \ {k + 1}]
        BY <4>2
      <4>4. h[s] = F[k + 1][g[s \ {k + 1}]]
        BY <3>1
      <4> HIDE DEF h
      <4>5. QED
        BY <3>1, <4>1, <4>3, <4>4
    <3>2. CASE k + 1 \notin s
      <4>1. s \in SUBSET (1 .. k) /\ h[s] = g[s]
        BY <2>2, <3>2
      <4>2. g[s] = IF s = {} THEN base ELSE F[Max(s)][g[s \ {Max(s)}]]
        BY <2>1, <4>1 DEF IsFold
      <4>3. h[s \ {Max(s)}] = g[s \ {Max(s)}]
        <5>1. s \ {Max(s)} \in SUBSET (1 .. (k + 1)) /\ k + 1 \notin s \ {Max(s)}
          BY <3>2
        <5>2. QED
          BY <5>1
      <4> HIDE DEF h
      <4>4. QED
        BY <4>1, <4>2, <4>3
    <3>3. QED
      BY <3>1, <3>2
  <2>5. Rec(h, k + 1)
    <3> HIDE DEF h
    <3>1. QED
      BY <2>4 DEF IsFold
  <2>6. QED
    BY <2>3, <2>5
<1>3. n \in S
  <2> HIDE DEF S
  <2>1. QED
    BY <1>1, <1>2, SetInduction
<1>4. Has(n)
  <2> HIDE DEF Has, S
  <2>1. QED
    BY <1>0, <1>3
<1>5. QED
  BY <1>4

\* What holds of each step of a fold holds of all of it.
LEMMA FoldSteps ==
  ASSUME NEW n \in Nat, NEW iter, NEW trace,
         iter[{}] = trace[0],
         \A k \in 1 .. n : iter[1 .. (k - 1)] = trace[k - 1] => iter[1 .. k] = trace[k]
  PROVE  iter[1 .. n] = trace[n]
<1> DEFINE S == {k \in Nat : k <= n => iter[1 .. k] = trace[k]}
<1>1. 0 \in S
  <2>1. 1 .. 0 = {}
    OBVIOUS
  <2>2. QED
    BY <2>1
<1>2. ASSUME NEW k \in Nat, k \in S
      PROVE  k + 1 \in S
  <2>1. k + 1 <= n => iter[1 .. k] = trace[k] /\ k + 1 \in 1 .. n /\ (k + 1) - 1 = k
    BY <1>2
  <2>2. QED
    BY <2>1
<1>3. n \in S
  <2> HIDE DEF S
  <2>1. QED
    BY <1>1, <1>2, SetInduction
<1>4. QED
  BY <1>3

\* The initial segments of the places of a sequence.
LEMMA Segment ==
  ASSUME NEW n \in Nat, NEW k \in 1 .. n
  PROVE  /\ 1 .. k \in SUBSET (1 .. n) /\ 1 .. k # {}
         /\ Max(1 .. k) = k /\ (1 .. k) \ {k} = 1 .. (k - 1)
<1>1. 1 .. k \in SUBSET Nat /\ k \in 1 .. k /\ \A j \in 1 .. k : j <= k
  OBVIOUS
<1>2. Max(1 .. k) = k
  BY <1>1, MaxFacts
<1>3. QED
  BY <1>2

\* Folding a sequence from the left ends where going through it step by step
\* ends.
LEMMA FoldLeftSteps ==
  ASSUME NEW Items, NEW V, NEW chain \in Seq(Items), NEW trace,
         Stays(V, Items), trace[0] \in V, IsTrace(trace, chain)
  PROVE  FoldOf(trace[0], chain) = trace[Len(chain)]
<1> DEFINE n == Len(chain)
           base == trace[0]
           F == [k \in 1 .. n |-> [v \in V |-> Op(v, chain[k])]]
           iter[s \in SUBSET (DOMAIN chain)] ==
             IF s = {} THEN base ELSE Op(iter[s \ {Max(s)}], chain[Max(s)])
<1>1. n \in Nat /\ DOMAIN chain = 1 .. n /\ base \in V
  OBVIOUS
<1>2. \A k \in 1 .. n : \A v \in V : F[k][v] = Op(v, chain[k]) /\ F[k][v] \in V
  BY DEF Stays
<1>3. \E h : h = [s \in SUBSET (DOMAIN chain) |->
                    IF s = {} THEN base ELSE Op(h[s \ {Max(s)}], chain[Max(s)])]
  <2> HIDE DEF F, n, base
  <2>1. PICK h \in [SUBSET (1 .. n) -> V] : IsFold(h, base, n, F)
    BY <1>1, <1>2, FoldExists
  <2>2. ASSUME NEW s \in SUBSET (1 .. n)
        PROVE  h[s] = IF s = {} THEN base ELSE Op(h[s \ {Max(s)}], chain[Max(s)])
    <3>1. s # {} => Max(s) \in 1 .. n
      BY <1>1, MaxIn
    <3>2. h[s \ {Max(s)}] \in V
      BY <2>1
    <3>3. QED
      BY <1>2, <2>1, <3>1, <3>2 DEF IsFold
  <2>3. h = [s \in SUBSET (DOMAIN chain) |->
               IF s = {} THEN base ELSE Op(h[s \ {Max(s)}], chain[Max(s)])]
    BY <1>1, <2>1, <2>2
  <2>4. QED
    BY <2>3
<1>4. iter = [s \in SUBSET (DOMAIN chain) |->
                    IF s = {} THEN base ELSE Op(iter[s \ {Max(s)}], chain[Max(s)])]
  <2> HIDE DEF base
  <2>1. QED
    BY <1>3 DEF iter
<1>5. iter[{}] = base /\ \A k \in 1 .. n : iter[1 .. k] = Op(iter[1 .. (k - 1)], chain[k])
  <2> HIDE DEF iter, base, n
  <2>1. {} \in SUBSET (1 .. n)
    OBVIOUS
  <2>2. iter[{}] = base
    BY <1>1, <1>4, <2>1
  <2>3. ASSUME NEW k \in 1 .. n
        PROVE  iter[1 .. k] = Op(iter[1 .. (k - 1)], chain[k])
    <3>1. /\ 1 .. k \in SUBSET (1 .. n) /\ 1 .. k # {}
          /\ Max(1 .. k) = k /\ (1 .. k) \ {k} = 1 .. (k - 1)
      BY <1>1, Segment
    <3>2. QED
      BY <1>1, <1>4, <3>1
  <2>4. QED
    BY <2>2, <2>3
<1>6. iter[1 .. n] = trace[n]
  <2>1. \A k \in 1 .. n : trace[k] = Op(trace[k - 1], chain[k])
    BY DEF IsTrace
  <2> HIDE DEF iter, n
  <2>2. QED
    BY <1>1, <1>5, <2>1, FoldSteps
<1>7. QED
  BY <1>1, <1>6 DEF FoldOf, FoldLeft, MapThenFoldSet

\* There are such steps, and they stay where the operator stays.
LEMMA FoldLeftTraced ==
  ASSUME NEW Items, NEW V, NEW base \in V, NEW chain \in Seq(Items), Stays(V, Items)
  PROVE  \E trace \in [0 .. Len(chain) -> V] :
           trace[0] = base /\ IsTrace(trace, chain) /\ FoldOf(base, chain) = trace[Len(chain)]
<1> DEFINE n == Len(chain)
           F == [k \in 1 .. n |-> [v \in V |-> Op(v, chain[k])]]
<1>1. n \in Nat /\ \A k \in 1 .. n : chain[k] \in Items
  OBVIOUS
<1>2. \A k \in 1 .. n : \A v \in V : F[k][v] = Op(v, chain[k]) /\ F[k][v] \in V
  BY <1>1 DEF Stays
<1> HIDE DEF F, n
<1>3. PICK h \in [SUBSET (1 .. n) -> V] : IsFold(h, base, n, F)
  BY <1>1, <1>2, FoldExists
<1> DEFINE trace == [k \in 0 .. n |-> h[1 .. k]]
<1>4. \A k \in 0 .. n : 1 .. k \in SUBSET (1 .. n)
  BY <1>1
<1>5. trace \in [0 .. n -> V]
  BY <1>4
<1>6. trace[0] = base
  <2>1. 1 .. 0 = {} /\ {} \in SUBSET (1 .. n)
    OBVIOUS
  <2>2. h[{}] = base
    BY <1>3, <2>1 DEF IsFold
  <2>3. QED
    BY <1>1, <2>1, <2>2
<1>7. ASSUME NEW k \in 1 .. n
      PROVE  trace[k] = Op(trace[k - 1], chain[k])
  <2>1. /\ 1 .. k \in SUBSET (1 .. n) /\ 1 .. k # {}
        /\ Max(1 .. k) = k /\ (1 .. k) \ {k} = 1 .. (k - 1)
    BY <1>1, Segment
  <2>2. h[1 .. k] = F[k][h[1 .. (k - 1)]]
    BY <1>3, <2>1 DEF IsFold
  <2>3. k - 1 \in 0 .. n /\ trace[k] = h[1 .. k] /\ trace[k - 1] = h[1 .. (k - 1)]
    BY <1>1
  <2>4. trace[k - 1] \in V
    BY <1>5, <2>3
  <2>5. QED
    BY <1>2, <2>2, <2>3, <2>4
<1> HIDE DEF trace
<1>8. IsTrace(trace, chain)
  BY <1>7 DEF IsTrace, n
<1>9. trace[0] \in V
  BY <1>6
<1>10. FoldOf(trace[0], chain) = trace[Len(chain)]
  BY <1>8, <1>9, FoldLeftSteps
<1>11. QED
  BY <1>5, <1>6, <1>8, <1>10 DEF n

-----------------------------------------------------------------------------
(* Folds over sets                                                         *)

\* From {} on, one element after the other, every finite set is reached.
LEMMA FiniteInduction ==
  ASSUME NEW S, IsFiniteSet(S), NEW P, {} \in P,
         \A T \in SUBSET S : \A x \in S \ T : T \in P => T \cup {x} \in P
  PROVE  S \in P
<1> DEFINE Bad == {T \in FiniteSubsetsOf(S) : T \notin P}
<1>1. SUFFICES ASSUME Bad # {} PROVE FALSE
  BY DEF FiniteSubsetsOf
<1>2. PICK T \in Bad : \A U \in Bad : ~ (<<U, T>> \in StrictSubsetOrdering(S))
  <2>1. Bad \subseteq FiniteSubsetsOf(S)
    OBVIOUS
  <2>2. IsWellFoundedOn(StrictSubsetOrdering(S), FiniteSubsetsOf(S))
    BY FS_StrictSubsetOrderingWellFounded
  <2>3. QED
    BY <1>1, <2>1, <2>2, WFMin
<1>3. T \in SUBSET S /\ IsFiniteSet(T) /\ T \notin P /\ T # {}
  BY <1>2 DEF FiniteSubsetsOf
<1>4. PICK x : x \in T
  BY <1>3
<1>5. T \ {x} \in FiniteSubsetsOf(S)
  BY <1>3, FS_Subset DEF FiniteSubsetsOf
<1>6. <<T \ {x}, T>> \in StrictSubsetOrdering(S)
  BY <1>3, <1>4 DEF StrictSubsetOrdering
<1>7. T \ {x} \in P
  BY <1>2, <1>5, <1>6
<1>8. (T \ {x}) \cup {x} = T /\ x \in S \ (T \ {x}) /\ T \ {x} \in SUBSET S
  BY <1>3, <1>4
<1>9. QED
  BY <1>3, <1>7, <1>8

\* A fold of the values of f over a set of places, in some order.
FoldOver(base, f, S) == FoldFunctionOnSet(Op, base, f, S)

\* Some element: the one a fold takes first.
Some(S) == CHOOSE x \in S : TRUE

\* What the recursive function inside such a fold does.
IsFoldOver(h, base, f, S) ==
  \A s \in SUBSET S : h[s] = IF s = {} THEN base ELSE Op(f[Some(s)], h[s \ {Some(s)}])

\* Folding values of f never leaves V.
StaysOver(V, f, S) == \A x \in S : \A v \in V : Op(f[x], v) \in V

\* There is such a function, for the subsets of ever more elements.
LEMMA FoldOverExists ==
  ASSUME NEW S, IsFiniteSet(S), NEW V, NEW base \in V, NEW f, StaysOver(V, f, S)
  PROVE  \E h \in [SUBSET S -> V] : IsFoldOver(h, base, f, S)
<1> DEFINE Small(k) == {s \in SUBSET S : Cardinality(s) <= k}
           Rec(h, k) == \A s \in Small(k) :
                          h[s] = IF s = {} THEN base ELSE Op(f[Some(s)], h[s \ {Some(s)}])
           Has(k) == \E h \in [Small(k) -> V] : Rec(h, k)
           K == {k \in Nat : Has(k)}
<1>a. \A s \in SUBSET S : Cardinality(s) \in Nat /\ (Cardinality(s) = 0 <=> s = {})
  BY FS_Subset, FS_CardinalityType, FS_EmptySet
<1>b. ASSUME NEW s \in SUBSET S, s # {}
      PROVE  /\ Some(s) \in s /\ Some(s) \in S /\ s \ {Some(s)} \in SUBSET S
             /\ Cardinality(s \ {Some(s)}) = Cardinality(s) - 1
  <2>1. IsFiniteSet(s)
    BY FS_Subset
  <2>2. Some(s) \in s
    BY <1>b DEF Some
  <2>3. QED
    BY <2>1, <2>2, FS_RemoveElement
<1>1. 0 \in K
  <2>1. ASSUME NEW s \in Small(0) PROVE s = {}
    <3>1. s \in SUBSET S /\ Cardinality(s) <= 0
      OBVIOUS
    <3>2. Cardinality(s) = 0
      BY <1>a, <3>1
    <3>3. QED
      BY <1>a, <3>1, <3>2
  <2>2. [s \in Small(0) |-> base] \in [Small(0) -> V] /\ Rec([s \in Small(0) |-> base], 0)
    BY <2>1
  <2>3. QED
    BY <2>2
<1>2. ASSUME NEW k \in Nat, k \in K
      PROVE  k + 1 \in K
  <2>1. PICK g \in [Small(k) -> V] : Rec(g, k)
    BY <1>2
  <2> DEFINE h == [s \in Small(k + 1) |->
                     IF Cardinality(s) <= k THEN g[s] ELSE Op(f[Some(s)], g[s \ {Some(s)}])]
  <2>2. ASSUME NEW s \in Small(k + 1)
        PROVE  /\ s \in SUBSET S /\ (Cardinality(s) <= k => s \in Small(k))
               /\ s # {} => s \ {Some(s)} \in Small(k) /\ s \ {Some(s)} \in Small(k + 1) /\ Some(s) \in S
               /\ ~(Cardinality(s) <= k) => s # {}
    BY <1>a, <1>b
  <2>3. h \in [Small(k + 1) -> V]
    <3>1. ASSUME NEW s \in Small(k + 1)
          PROVE  (IF Cardinality(s) <= k THEN g[s] ELSE Op(f[Some(s)], g[s \ {Some(s)}])) \in V
      <4>1. CASE Cardinality(s) <= k
        BY <2>2, <4>1
      <4>2. CASE ~(Cardinality(s) <= k)
        <5>1. s \ {Some(s)} \in Small(k) /\ Some(s) \in S
          BY <2>2, <4>2
        <5>2. g[s \ {Some(s)}] \in V
          BY <5>1
        <5>3. QED
          BY <4>2, <5>1, <5>2 DEF StaysOver
      <4>3. QED
        BY <4>1, <4>2
    <3>2. QED
      BY <3>1
  <2>4. ASSUME NEW s \in Small(k + 1)
        PROVE  h[s] = IF s = {} THEN base ELSE Op(f[Some(s)], h[s \ {Some(s)}])
    <3>1. s # {} => h[s \ {Some(s)}] = g[s \ {Some(s)}]
      <4>1. s # {} => s \ {Some(s)} \in Small(k) /\ s \ {Some(s)} \in Small(k + 1)
        BY <2>2
      <4>2. QED
        BY <4>1
    <3>2. CASE Cardinality(s) <= k
      <4>1. s \in Small(k) /\ h[s] = g[s]
        BY <2>2, <3>2
      <4>2. g[s] = IF s = {} THEN base ELSE Op(f[Some(s)], g[s \ {Some(s)}])
        BY <2>1, <4>1
      <4> HIDE DEF h, Small
      <4>3. QED
        BY <3>1, <4>1, <4>2
    <3>3. CASE ~(Cardinality(s) <= k)
      <4>1. s # {} /\ h[s] = Op(f[Some(s)], g[s \ {Some(s)}])
        BY <2>2, <3>3
      <4> HIDE DEF h, Small
      <4>2. QED
        BY <3>1, <4>1
    <3>4. QED
      BY <3>2, <3>3
  <2>5. Has(k + 1)
    <3>1. Rec(h, k + 1)
      <4> HIDE DEF h
      <4>1. QED
        BY <2>4
    <3> HIDE DEF h, Rec
    <3>2. QED
      BY <2>3, <3>1
  <2> HIDE DEF Has
  <2>6. QED
    BY <2>5
<1>3. Cardinality(S) \in K
  <2>1. Cardinality(S) \in Nat
    BY FS_CardinalityType
  <2> HIDE DEF K
  <2>2. QED
    BY <1>1, <1>2, <2>1, SetInduction
<1>4. Small(Cardinality(S)) = SUBSET S
  BY FS_Subset
<1>5. PICK h \in [Small(Cardinality(S)) -> V] : Rec(h, Cardinality(S))
  BY <1>3
<1>6. IsFoldOver(h, base, f, S)
  <2> HIDE DEF Small
  <2>1. QED
    BY <1>4, <1>5 DEF IsFoldOver
<1>7. QED
  BY <1>4, <1>5, <1>6

\* Two such functions agree where both are defined.
LEMMA FoldOverUnique ==
  ASSUME NEW S, NEW T \in SUBSET S, IsFiniteSet(T), NEW base, NEW f, NEW h, NEW g,
         IsFoldOver(h, base, f, S), IsFoldOver(g, base, f, T)
  PROVE  \A s \in SUBSET T : h[s] = g[s]
<1> DEFINE Bad == {s \in FiniteSubsetsOf(T) : h[s] # g[s]}
<1>1. SUFFICES ASSUME Bad # {} PROVE FALSE
  BY FS_FiniteSubsetsOfFinite
<1>2. PICK s \in Bad : \A r \in Bad : ~ (<<r, s>> \in StrictSubsetOrdering(T))
  <2>1. Bad \subseteq FiniteSubsetsOf(T)
    OBVIOUS
  <2> HIDE DEF Bad
  <2>2. QED
    BY <1>1, <2>1, FS_StrictSubsetOrderingWellFounded, WFMin
<1>3. s \in SUBSET T /\ s \in SUBSET S /\ h[s] # g[s]
  BY <1>2 DEF FiniteSubsetsOf
<1>4. s # {}
  BY <1>3 DEF IsFoldOver
<1>5. Some(s) \in s /\ s \ {Some(s)} \in SUBSET T /\ s \ {Some(s)} # s
  BY <1>3, <1>4 DEF Some
<1>6. <<s \ {Some(s)}, s>> \in StrictSubsetOrdering(T)
  BY <1>3, <1>5 DEF StrictSubsetOrdering
<1>7. h[s \ {Some(s)}] = g[s \ {Some(s)}]
  BY <1>2, <1>5, <1>6, FS_FiniteSubsetsOfFinite
<1>8. QED
  BY <1>3, <1>4, <1>7 DEF IsFoldOver

\* Function h goes through a fold over S.
GoesThrough(h, V, base, f, S) ==
  /\ h \in [SUBSET S -> V]
  /\ IsFoldOver(h, base, f, S)
  /\ FoldOver(base, f, S) = h[S]

\* A fold over a set is what such a function has for it.
LEMMA FoldOverUnfolds ==
  ASSUME NEW S, IsFiniteSet(S), NEW V, NEW base \in V, NEW f, StaysOver(V, f, S)
  PROVE  \E h : GoesThrough(h, V, base, f, S)
<1> DEFINE iter[s \in SUBSET S] ==
             IF s = {} THEN base ELSE Op(f[Some(s)], iter[s \ {Some(s)}])
<1>1. PICK h \in [SUBSET S -> V] : IsFoldOver(h, base, f, S)
  BY FoldOverExists
<1>2. iter = [s \in SUBSET S |-> IF s = {} THEN base ELSE Op(f[Some(s)], iter[s \ {Some(s)}])]
  <2>1. h = [s \in SUBSET S |-> IF s = {} THEN base ELSE Op(f[Some(s)], h[s \ {Some(s)}])]
    BY <1>1 DEF IsFoldOver
  <2>2. \E g : g = [s \in SUBSET S |-> IF s = {} THEN base ELSE Op(f[Some(s)], g[s \ {Some(s)}])]
    BY <2>1
  <2>3. QED
    BY <2>2 DEF iter
<1>3. FoldOver(base, f, S) = iter[S]
  BY DEF FoldOver, FoldFunctionOnSet, MapThenFoldSet, Some
<1> HIDE DEF iter
<1>4. IsFoldOver(iter, base, f, S)
  BY <1>2 DEF IsFoldOver
<1>5. \A s \in SUBSET S : iter[s] = h[s]
  BY <1>1, <1>4, FoldOverUnique
<1>6. iter \in [SUBSET S -> V]
  BY <1>1, <1>2, <1>5
<1>7. QED
  BY <1>3, <1>4, <1>6 DEF GoesThrough

\* What folding over a set takes its value from: nothing, or the rest of the set.
LEMMA FoldOverStep ==
  ASSUME NEW S, IsFiniteSet(S), NEW V, NEW base \in V, NEW f, StaysOver(V, f, S)
  PROVE  /\ FoldOver(base, f, S) \in V
         /\ S = {} => FoldOver(base, f, S) = base
         /\ S # {} => FoldOver(base, f, S) = Op(f[Some(S)], FoldOver(base, f, S \ {Some(S)}))
<1>1. PICK h : GoesThrough(h, V, base, f, S)
  BY FoldOverUnfolds
<1> DEFINE rest == S \ {Some(S)}
<1>2. rest \in SUBSET S /\ IsFiniteSet(rest) /\ StaysOver(V, f, rest)
  BY FS_Subset DEF StaysOver
<1>3. PICK g : GoesThrough(g, V, base, f, rest)
  <2> HIDE DEF rest
  <2>1. QED
    BY <1>2, FoldOverUnfolds
<1>4. h[rest] = g[rest]
  <2> HIDE DEF rest
  <2>1. QED
    BY <1>1, <1>2, <1>3, FoldOverUnique DEF GoesThrough
<1>5. QED
  BY <1>1, <1>3, <1>4 DEF GoesThrough, IsFoldOver

\* The order in which two values are folded does not matter.
Commutes(V, f, S) ==
  \A x, y \in S : \A v \in V : Op(f[x], Op(f[y], v)) = Op(f[y], Op(f[x], v))

\* Then any element may be the first.
LEMMA FoldOverSplit ==
  ASSUME NEW S, IsFiniteSet(S), NEW V, NEW base \in V, NEW f,
         StaysOver(V, f, S), Commutes(V, f, S)
  PROVE  \A x \in S : FoldOver(base, f, S) = Op(f[x], FoldOver(base, f, S \ {x}))
<1> DEFINE Good(s) == \A x \in s : FoldOver(base, f, s) = Op(f[x], FoldOver(base, f, s \ {x}))
           Bad == {s \in FiniteSubsetsOf(S) : ~Good(s)}
<1>1. SUFFICES ASSUME Bad # {} PROVE FALSE
  <2>1. S \in FiniteSubsetsOf(S)
    BY DEF FiniteSubsetsOf
  <2> HIDE DEF Good
  <2>2. S \in Bad \/ Good(S)
    BY <2>1
  <2>3. Good(S)
    BY <2>2
  <2>4. QED
    BY <2>3 DEF Good
<1>2. PICK s \in Bad : \A r \in Bad : ~ (<<r, s>> \in StrictSubsetOrdering(S))
  <2>1. Bad \subseteq FiniteSubsetsOf(S)
    OBVIOUS
  <2> HIDE DEF Bad
  <2>2. QED
    BY <1>1, <2>1, FS_StrictSubsetOrderingWellFounded, WFMin
<1>3. s \in SUBSET S /\ IsFiniteSet(s) /\ ~Good(s)
  BY <1>2 DEF FiniteSubsetsOf
<1>4. ASSUME NEW r \in SUBSET s, r # s
      PROVE  /\ IsFiniteSet(r) /\ StaysOver(V, f, r) /\ FoldOver(base, f, r) \in V /\ Good(r)
  <2>1. r \in FiniteSubsetsOf(S) /\ <<r, s>> \in StrictSubsetOrdering(S) /\ IsFiniteSet(r)
    BY <1>3, <1>4, FS_Subset DEF FiniteSubsetsOf, StrictSubsetOrdering
  <2>2. Good(r)
    <3> HIDE DEF Good
    <3>1. QED
      BY <1>2, <2>1
  <2>3. StaysOver(V, f, r)
    BY <1>3 DEF StaysOver
  <2>4. FoldOver(base, f, r) \in V
    BY <2>1, <2>3, FoldOverStep
  <2> HIDE DEF Good
  <2>5. QED
    BY <2>1, <2>2, <2>3, <2>4
<1>5. ASSUME NEW x \in s
      PROVE  FoldOver(base, f, s) = Op(f[x], FoldOver(base, f, s \ {x}))
  <2> DEFINE c == Some(s)
  <2>1. c \in s
    BY DEF Some
  <2>2. FoldOver(base, f, s) = Op(f[c], FoldOver(base, f, s \ {c}))
    <3>1. StaysOver(V, f, s)
      BY <1>3 DEF StaysOver
    <3>2. QED
      BY <1>3, <2>1, <3>1, FoldOverStep
  <2> HIDE DEF c
  <2>3. CASE x # c
    <3>1. FoldOver(base, f, s \ {c}) = Op(f[x], FoldOver(base, f, (s \ {c}) \ {x}))
      <4>1. s \ {c} \in SUBSET s /\ s \ {c} # s /\ x \in s \ {c}
        BY <2>1, <2>3
      <4>2. QED
        BY <1>4, <4>1
    <3>2. FoldOver(base, f, s \ {x}) = Op(f[c], FoldOver(base, f, (s \ {x}) \ {c}))
      <4>1. s \ {x} \in SUBSET s /\ s \ {x} # s /\ c \in s \ {x}
        BY <2>1, <2>3
      <4>2. QED
        BY <1>4, <4>1
    <3>3. (s \ {c}) \ {x} = (s \ {x}) \ {c} /\ FoldOver(base, f, (s \ {x}) \ {c}) \in V
      <4>1. (s \ {x}) \ {c} \in SUBSET s /\ (s \ {x}) \ {c} # s
        BY <2>1
      <4>2. QED
        BY <1>4, <4>1
    <3>4. QED
      BY <1>3, <2>1, <2>2, <3>1, <3>2, <3>3 DEF Commutes
  <2>4. QED
    BY <2>2, <2>3
<1>6. QED
  BY <1>3, <1>5
=============================================================================
