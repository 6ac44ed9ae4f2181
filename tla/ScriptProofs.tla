--------------------------- MODULE ScriptProofs ---------------------------
(* The script machine: what its scripts can reach, how far they get, and    *)
(* whose signatures they ask for.                                           *)
EXTENDS ScriptExecution, FiniteSetTheorems, SequenceTheorems, WellFoundedInduction, TLAPS

-----------------------------------------------------------------------------
(* Numbers in bytes                                                        *)

\* A power of two is the number of subsets of a set: not zero, and no less for
\* a larger set.
LEMMA Powers ==
  ASSUME NEW k \in Nat
  PROVE  /\ 2^k \in Nat \ {0} /\ (k # 0 => 2^k > 1)
         /\ \A j \in 0 .. k : 2^j <= 2^k
<1>1. ASSUME NEW j \in Nat
      PROVE  IsFiniteSet(SUBSET (1 .. j)) /\ Cardinality(SUBSET (1 .. j)) = 2^j
  <2>1. IsFiniteSet(1 .. j) /\ Cardinality(1 .. j) = j
    BY FS_Interval
  <2>2. QED
    BY <2>1, FS_SUBSET
<1>2. Cardinality(SUBSET (1 .. k)) # 0 /\ Cardinality(SUBSET (1 .. k)) \in Nat
  <2>1. SUBSET (1 .. k) # {}
    OBVIOUS
  <2>2. QED
    BY <1>1, <2>1, FS_EmptySet, FS_CardinalityType
<1>3. ASSUME NEW j \in 0 .. k
      PROVE  2^j <= 2^k
  <2>1. SUBSET (1 .. j) \subseteq SUBSET (1 .. k)
    OBVIOUS
  <2>2. Cardinality(SUBSET (1 .. j)) <= Cardinality(SUBSET (1 .. k))
    BY <1>1, <2>1, FS_Subset
  <2>3. Cardinality(SUBSET (1 .. j)) = 2^j /\ Cardinality(SUBSET (1 .. k)) = 2^k
    BY <1>1
  <2>4. QED
    BY <2>2, <2>3
<1>4. ASSUME k # 0
      PROVE  Cardinality(SUBSET (1 .. k)) # 1
  <2> DEFINE S == SUBSET (1 .. k)
  <2>1. {} \in S /\ {1} \in S /\ {} # {1}
    BY <1>4
  <2>2. IsFiniteSet(S)
    BY <1>1
  <2> HIDE DEF S
  <2>3. ~ \E x : S = {x}
    BY <2>1
  <2>4. Cardinality(S) # 1
    BY <2>2, <2>3, FS_Singleton
  <2>5. QED
    BY <2>4 DEF S
<1>5. Cardinality(SUBSET (1 .. k)) = 2^k
  BY <1>1
<1>6. 2^k \in Nat /\ 2^k # 0 /\ (k # 0 => 2^k # 1)
  BY <1>2, <1>4, <1>5
<1>7. QED
  BY <1>3, <1>6

\* Half of what bytes can hold.
LEMMA Halves ==
  /\ \A n \in Nat \ {0} : Half(n) \in Nat \ {0}
  /\ \A n \in Nat : Radix(n) \in Nat \ {0}
  /\ Half(1) <= Half(IntBytes)
<1>1. ASSUME NEW n \in Nat \ {0}
      PROVE  ByteBits * n - 1 \in Nat /\ ByteBits - 1 \in Nat /\ ByteBits - 1 <= ByteBits * n - 1
  <2>1. ByteBits \in Nat \ {0}
    BY WidthAssumption
  <2>2. \A a, b \in Nat \ {0} : a * b >= a
    OBVIOUS
  <2>3. ByteBits * n \in Nat /\ ByteBits * n >= ByteBits
    BY <2>1, <2>2
  <2>4. QED
    BY <2>1, <2>3
<1>2. ASSUME NEW n \in Nat
      PROVE  ByteBits * n \in Nat
  BY WidthAssumption
<1>3. \A n \in Nat \ {0} : Half(n) \in Nat \ {0}
  BY <1>1, Powers DEF Half
<1>4. \A n \in Nat : Radix(n) \in Nat \ {0}
  BY <1>2, Powers DEF Radix
<1>5. Half(1) <= Half(IntBytes)
  <2>1. ByteBits * 1 = ByteBits /\ IntBytes \in Nat \ {0}
    BY WidthAssumption
  <2> DEFINE j == ByteBits - 1
             k == ByteBits * IntBytes - 1
  <2>2. k \in Nat /\ j \in 0 .. k
    BY <1>1, <2>1
  <2>3. Half(1) = 2^j /\ Half(IntBytes) = 2^k
    BY <2>1 DEF Half
  <2> HIDE DEF j, k
  <2>4. QED
    BY <2>2, <2>3, Powers
<1>6. QED
  BY <1>3, <1>4, <1>5

\* The largest int is a number.
LEMMA IntMaxType == IntMax \in Nat
<1>1. IntBytes \in Nat \ {0}
  BY WidthAssumption
<1>2. Half(IntBytes) \in Nat \ {0}
  BY <1>1, Halves
<1>3. QED
  BY <1>2 DEF IntMax

\* What is left of a number is in its range, and lost what did not fit.
LEMMA NarrowType ==
  ASSUME NEW x \in Int, NEW n \in Nat \ {0}
  PROVE  /\ Narrow(x, n) \in Int
         /\ -Half(n) <= Narrow(x, n) /\ Narrow(x, n) <= Half(n) - 1
<1> DEFINE h == Half(n)
<1>1. h \in Nat \ {0}
  BY Halves
<1> HIDE DEF h
<1>2. \A y \in Int, m \in Nat \ {0} : y % m \in 0 .. m - 1
  OBVIOUS
<1>3. 2 * h \in Nat \ {0} /\ x + h \in Int
  BY <1>1
<1>4. (x + h) % (2 * h) \in 0 .. (2 * h) - 1
  BY <1>2, <1>3
<1> DEFINE r == (x + h) % (2 * h)
<1>5. Narrow(x, n) = r - h
  BY DEF Narrow, h
<1> HIDE DEF r
<1>6. r \in 0 .. (2 * h) - 1
  BY <1>4 DEF r
<1>7. QED
  BY <1>1, <1>5, <1>6 DEF h

\* One byte holds a byte.
LEMMA NarrowByte ==
  ASSUME NEW x \in Int
  PROVE  Narrow(x, 1) \in Byte
<1>1. Half(1) \in Nat
  BY Halves
<1>2. QED
  BY <1>1, NarrowType DEF Byte

\* A byte is a number; 0, 1 and -1 are bytes.
LEMMA ByteType == Byte \subseteq Int /\ {0, 1, -1} \subseteq Byte
<1>1. Half(1) \in Nat /\ Half(1) > 1
  <2>1. ByteBits * 1 = ByteBits /\ ByteBits - 1 \in Nat \ {0}
    BY WidthAssumption
  <2>2. QED
    BY <2>1, Powers DEF Half
<1>2. QED
  BY <1>1 DEF Byte

\* A number written to bytes.
LEMMA ToBytesType ==
  ASSUME NEW number \in Int, NEW n \in Nat
  PROVE  ToBytes(number, n) \in ByteArray /\ Len(ToBytes(number, n)) = n
<1>1. ASSUME NEW i \in 1 .. n
      PROVE  Narrow(number \div Radix(n - i), 1) \in Byte
  <2>1. Radix(n - i) \in Nat \ {0}
    BY Halves
  <2>2. number \div Radix(n - i) \in Int
    BY <2>1
  <2>3. QED
    BY <2>2, NarrowByte
<1>2. QED
  BY <1>1 DEF ToBytes, ByteArray

-----------------------------------------------------------------------------
(* Numbers from bytes                                                      *)

Sums  == INSTANCE Folding WITH Op <- Plus
Joins == INSTANCE Folding WITH Op <- Joined

\* A sum of numbers is a number.
LEMMA SumType ==
  ASSUME NEW f, IsFiniteSet(DOMAIN f), \A x \in DOMAIN f : f[x] \in Int
  PROVE  SumFunction(f) \in Int
<1> DEFINE S == DOMAIN f
           V == Int
           base == 0
<1>1. SumFunction(f) = Sums!FoldOver(base, f, S)
  BY DEF SumFunction, SumFunctionOnSet, FoldFunctionOnSet, MapThenFoldSet, Plus,
         Sums!FoldOver, Sums!FoldFunctionOnSet, Sums!MapThenFoldSet
<1>2. Sums!IsFiniteSet(S)
  BY DEF IsFiniteSet, Sums!IsFiniteSet
<1>3. base \in V /\ Sums!StaysOver(V, f, S)
  BY DEF Plus, Sums!StaysOver
<1> HIDE DEF S, V, base
<1>4. Sums!FoldOver(base, f, S) \in V
  BY <1>2, <1>3, Sums!FoldOverStep
<1>5. QED
  BY <1>1, <1>4 DEF V

\* The number in the first bytes of an array.
LEMMA NumberType ==
  ASSUME NEW bytes \in ByteArray, NEW n \in Nat \ {0}, n <= Len(bytes)
  PROVE  /\ Number(bytes, n) \in Int
         /\ -Half(n) <= Number(bytes, n) /\ Number(bytes, n) <= Half(n) - 1
<1> DEFINE f == [i \in 1 .. n |-> Unsigned(bytes[i]) * Radix(n - i)]
<1>1. ASSUME NEW i \in 1 .. n
      PROVE  Unsigned(bytes[i]) * Radix(n - i) \in Int
  <2>1. bytes[i] \in Int
    <3>1. bytes \in Seq(Byte) /\ i \in 1 .. Len(bytes)
      BY DEF ByteArray
    <3>2. bytes[i] \in Byte
      BY <3>1
    <3>3. QED
      BY <3>2, ByteType
  <2>2. Radix(1) \in Nat \ {0} /\ Radix(n - i) \in Nat \ {0}
    <3>1. 1 \in Nat /\ n - i \in Nat
      OBVIOUS
    <3>2. QED
      BY <3>1, Halves
  <2>3. Unsigned(bytes[i]) \in Int
    BY <2>1, <2>2 DEF Unsigned
  <2>4. QED
    BY <2>2, <2>3
<1>2. IsFiniteSet(1 .. n)
  BY FS_Interval
<1>3. DOMAIN f = 1 .. n /\ \A i \in DOMAIN f : f[i] \in Int
  BY <1>1
<1>4. Number(bytes, n) = Narrow(SumFunction(f), n)
  BY DEF Number
<1> HIDE DEF f
<1>5. SumFunction(f) \in Int
  BY <1>2, <1>3, SumType
<1>6. QED
  BY <1>4, <1>5, NarrowType

\* Arrays joined are an array.
LEMMA JoinType ==
  ASSUME NEW arrays \in Seq(ByteArray)
  PROVE  FoldLeft(Joined, << >>, arrays) \in ByteArray
<1> DEFINE V == ByteArray
           base == << >>
<1>1. FoldLeft(Joined, << >>, arrays) = Joins!FoldOf(base, arrays)
  BY DEF FoldLeft, MapThenFoldSet, Max, Joins!FoldOf, Joins!FoldLeft, Joins!MapThenFoldSet, Joins!Max
<1>2. base \in V /\ arrays \in Seq(V) /\ Joins!Stays(V, V)
  BY DEF Joins!Stays, Joined, ByteArray
<1> HIDE DEF V, base
<1>3. Joins!FoldOf(base, arrays) \in V
  BY <1>2, Joins!FoldLeftTraced
<1>4. QED
  BY <1>1, <1>3 DEF V

-----------------------------------------------------------------------------
(* What is always true of the machines                                     *)

Stages == {"unlocking", "locking", "verified", "rejected", "crashed"}

\* The arrays that stacks may hold: the transactions' own scripts only with
\* extended flow control.
Held == (IF extended THEN 1 ELSE 3) .. Len(heap)

Machines ==
  [Script : 1 .. Len(heap), InstructionCounter : Int, Stack : Seq(Held),
   Steps : 0 .. MaximumStepsAllowed + 1, bScriptFailed : BOOLEAN, going : BOOLEAN]

\* The machine that runs has the count of all of them.
Counted ==
  frames # << >> /\ (this.going \/ Len(frames) > 1) => this.Steps = executed

\* Only the last machine stops, and only one that stops may fail.
OneStops ==
  \A n \in DOMAIN frames :
    /\ n < Len(frames) => frames[n].going
    /\ frames[n].bScriptFailed => ~frames[n].going

Sound ==
  /\ extended \in FlowControl
  /\ heap \in Seq(ByteArray) /\ Len(heap) >= 2
  /\ stage \in Stages
  /\ executed \in 0 .. MaximumStepsAllowed + 1
  /\ frames \in Seq(Machines)
  /\ frames = << >> <=> stage \notin {"unlocking", "locking"}
  /\ Counted
  /\ OneStops

\* The first machine is sound.
LEMMA InitSound == Init => Sound
<1> SUFFICES ASSUME Init
             PROVE  Sound
  OBVIOUS
<1>1. PICK a \in ByteArray, b \in ByteArray : heap = <<a, b>>
  BY ScriptAssumption DEF Init
<1>2. heap \in Seq(ByteArray) /\ Len(heap) = 2
  BY <1>1
<1>3. Machine(UnlockingScript, << >>, 0) \in Machines
  BY <1>2, ScriptAssumption DEF Machine, Machines, UnlockingScript
<1>4. frames \in Seq(Machines) /\ Len(frames) = 1 /\ frames[1] = Machine(UnlockingScript, << >>, 0)
  BY <1>3 DEF Init
<1>5. Counted /\ OneStops
  BY <1>4 DEF Counted, OneStops, Init, this, Last, Machine
<1>6. QED
  BY <1>2, <1>4, <1>5, ScriptAssumption DEF Init, Sound, Stages

\* The last machine, and the array that it runs.
LEMMA LastMachine ==
  ASSUME Sound, frames # << >>
  PROVE  /\ Len(frames) \in Nat \ {0} /\ this \in Machines
         /\ this = frames[Len(frames)]
         /\ this.Script \in DOMAIN heap /\ code \in ByteArray /\ Len(code) \in Nat
         /\ depth \in Nat
<1>1. Len(frames) \in Nat \ {0} /\ this = frames[Len(frames)]
  BY DEF Sound, this, Last
<1>2. this \in Machines
  BY <1>1 DEF Sound
<1>3. this.Script \in 1 .. Len(heap) /\ this.Stack \in Seq(Held)
  BY <1>2 DEF Machines
<1>4. this.Script \in DOMAIN heap /\ code \in ByteArray /\ Len(code) \in Nat
  <2>1. heap \in Seq(ByteArray) /\ DOMAIN heap = 1 .. Len(heap)
    BY DEF Sound
  <2>2. code \in ByteArray
    BY <1>3, <2>1 DEF code
  <2>3. QED
    BY <1>3, <2>1, <2>2 DEF ByteArray
<1>5. depth \in Nat
  BY <1>3 DEF depth
<1>6. QED
  BY <1>1, <1>2, <1>4, <1>5

\* The operands on the stack.
LEMMA Operands ==
  ASSUME Sound, frames # << >>
  PROVE  /\ \A k \in 1 .. depth : Ref(k) \in Held /\ Operand(k) \in ByteArray
         /\ \A k \in 0 .. depth : Without(k) \in Seq(Held) /\ Len(Without(k)) = depth - k
         /\ this.Stack \in Seq(Held) /\ depth = Len(this.Stack)
         /\ \A i \in 1 .. depth : this.Stack[i] \in Held /\ heap[this.Stack[i]] \in ByteArray
<1>1. this.Stack \in Seq(Held) /\ depth = Len(this.Stack) /\ depth \in Nat
  BY LastMachine DEF Machines, depth
<1>2. \A i \in 1 .. depth : this.Stack[i] \in Held
  BY <1>1
<1>3. \A p \in Held : heap[p] \in ByteArray
  BY DEF Held, Sound
<1>4. ASSUME NEW k \in 1 .. depth
      PROVE  Ref(k) \in Held /\ Operand(k) \in ByteArray
  BY <1>1, <1>2, <1>3 DEF Ref, Operand
<1>5. ASSUME NEW k \in 0 .. depth
      PROVE  Without(k) \in Seq(Held) /\ Len(Without(k)) = depth - k
  BY <1>1 DEF Without
<1>6. QED
  BY <1>1, <1>2, <1>3, <1>4, <1>5

\* What is known of a machine that fetches an operator.
LEMMA Fetching ==
  ASSUME Sound, NEW operators, Fetches(operators)
  PROVE  /\ frames # << >> /\ stage \in {"unlocking", "locking"}
         /\ this.going /\ this.Steps = executed /\ executed <= MaximumStepsAllowed
         /\ executed' = executed + 1 /\ extended' = extended
         /\ this.InstructionCounter \in 0 .. Len(code) - 1
         /\ Fetched \in Machines
         /\ Fetched.Steps = executed' /\ Fetched.Stack = this.Stack
         /\ Fetched.InstructionCounter = this.InstructionCounter + 1
         /\ Fetched.Script = this.Script /\ Fetched.going /\ ~Fetched.bScriptFailed
<1>1. frames # << >> /\ this.going /\ this.Steps <= MaximumStepsAllowed
  BY DEF Fetches, running
<1>2. this \in Machines /\ this = frames[Len(frames)] /\ Len(frames) \in DOMAIN frames
  BY <1>1, LastMachine DEF Sound
<1>3. this.Steps = executed /\ ~this.bScriptFailed
  BY <1>1, <1>2 DEF Sound, Counted, OneStops
<1>4. executed' = executed + 1 /\ extended' = extended
      /\ this.InstructionCounter \in 0 .. Len(code) - 1
  BY DEF Fetches
<1>5. /\ Fetched.Steps = this.Steps + 1 /\ Fetched.Stack = this.Stack
      /\ Fetched.InstructionCounter = this.InstructionCounter + 1
      /\ Fetched.Script = this.Script /\ Fetched.going = this.going
      /\ Fetched.bScriptFailed = this.bScriptFailed
  BY <1>2 DEF Fetched, Machines
<1>6. Fetched \in Machines
  <2>1. /\ this.InstructionCounter + 1 \in Int
        /\ this.Steps + 1 \in 0 .. MaximumStepsAllowed + 1
    BY <1>1, <1>2, ScriptAssumption DEF Machines
  <2>2. QED
    BY <1>2, <2>1 DEF Fetched, Machines
<1>7. QED
  BY <1>1, <1>3, <1>4, <1>5, <1>6 DEF Sound

-----------------------------------------------------------------------------
(* What an instruction may come to                                         *)

\* Java's arrays are no longer than an int can say.
Lengths == \A n \in DOMAIN heap : Len(heap[n]) <= IntMax

\* A place an int counter can be at, and one that a machine may go on to.
Place(counter) == Lengths => counter \in -IntMax - 1 .. IntMax
Onward(counter) ==
  Lengths /\ ~extended => counter > this.InstructionCounter \/ counter < 0

\* Arrays are made and written, but without extended flow control not those of
\* the transactions.
HeapKept ==
  /\ heap' \in Seq(ByteArray) /\ Len(heap') >= Len(heap)
  /\ ~extended => \A n \in {UnlockingScript, LockingScript} : heap'[n] = heap[n]

\* The machine goes on, or stops by itself.
Advances ==
  /\ HeapKept
  /\ \E m \in Machines' :
       /\ Become(m)
       /\ m.Steps = executed' /\ Place(m.InstructionCounter)
       /\ IF m.going THEN ~m.bScriptFailed /\ Onward(m.InstructionCounter) ELSE TRUE

\* The machine calls another.
CallsAnother ==
  /\ UNCHANGED <<heap, stage>>
  /\ \E m, c \in Machines :
       /\ frames' = Front(frames) \o <<m, c>>
       /\ m.Steps = executed' /\ c.Steps = executed'
       /\ Place(m.InstructionCounter) /\ c.InstructionCounter = 0
       /\ Onward(m.InstructionCounter)
       /\ m.going /\ ~m.bScriptFailed /\ c.going /\ ~c.bScriptFailed

Outcome ==
  \/ Advances
  \/ CallsAnother
  \/ Crash
  \/ \E failing \in BOOLEAN : Throw(failing)

Counters ==
  \A n \in DOMAIN frames : frames[n].InstructionCounter \in -IntMax - 1 .. IntMax

Untouched ==
  ~extended => \A n \in {UnlockingScript, LockingScript} : heap'[n] = heap[n]

GoesForward ==
  LET n == Len(frames)
  IN  ~extended /\ Executes /\ n \in DOMAIN frames' /\ frames'[n].going =>
        \/ frames'[n].InstructionCounter > this.InstructionCounter
        \/ frames'[n].InstructionCounter < 0

\* What every step keeps.
Kept ==
  /\ Sound' /\ Untouched
  /\ Lengths => (Counters => Counters') /\ GoesForward

\* Types survive while the heap grows.
LEMMA MachinesGrow ==
  ASSUME Sound, extended' = extended, Len(heap') \in Nat, Len(heap') >= Len(heap)
  PROVE  Held \subseteq Held' /\ Machines \subseteq Machines'
<1>1. Len(heap) \in Nat
  BY DEF Sound
<1>2. Held \subseteq Held' /\ 1 .. Len(heap) \subseteq 1 .. Len(heap')
  BY <1>1 DEF Held
<1>3. Seq(Held) \subseteq Seq(Held')
  BY <1>2
<1>4. QED
  BY <1>2, <1>3 DEF Machines

\* All but the last of a sequence, and two more after that.
LEMMA FrontFacts ==
  ASSUME NEW S, NEW s \in Seq(S), s # << >>
  PROVE  /\ Front(s) \in Seq(S) /\ Len(Front(s)) = Len(s) - 1
         /\ \A k \in 1 .. Len(s) - 1 : Front(s)[k] = s[k]
<1>1. Len(s) \in Nat \ {0} /\ Len(s) - 1 \in Nat
  OBVIOUS
<1>2. \A k \in 1 .. Len(s) - 1 : s[k] \in S
  OBVIOUS
<1>3. Front(s) = [k \in 1 .. Len(s) - 1 |-> s[k]]
  BY <1>1 DEF Front
<1>4. QED
  BY <1>1, <1>2, <1>3

\* Two elements after a sequence.
LEMMA TwoMore ==
  ASSUME NEW S, NEW s \in Seq(S), NEW n, n = Len(s), NEW x \in S, NEW y \in S,
         NEW r, r = s \o <<x, y>>
  PROVE  /\ r \in Seq(S) /\ Len(r) = n + 2
         /\ \A k \in 1 .. n : r[k] = s[k]
         /\ r[n + 1] = x /\ r[n + 2] = y
<1> DEFINE t == <<x, y>>
<1>1. t \in Seq(S) /\ Len(t) = 2 /\ t[1] = x /\ t[2] = y /\ r = s \o t /\ n \in Nat
  OBVIOUS
<1> HIDE DEF t
<1>2. /\ r \in Seq(S) /\ Len(r) = n + 2
      /\ \A i \in 1 .. n + 2 : r[i] = IF i <= n THEN s[i] ELSE t[i - n]
  BY <1>1, ConcatProperties
<1>3. n + 1 \in 1 .. n + 2 /\ n + 2 \in 1 .. n + 2 /\ ~(n + 1 <= n) /\ ~(n + 2 <= n)
      /\ (n + 1) - n = 1 /\ (n + 2) - n = 2
  BY <1>1
<1>4. \A k \in 1 .. n : k \in 1 .. n + 2 /\ k <= n
  BY <1>1
<1>5. QED
  BY <1>1, <1>2, <1>3, <1>4

\* An exception of a script stops the first machine.
LEMMA ThrowSound ==
  ASSUME Sound, frames # << >>, executed' \in 0 .. MaximumStepsAllowed + 1, extended' = extended,
         NEW failing \in BOOLEAN, Throw(failing)
  PROVE  Sound' /\ (Counters => Counters') /\ ~frames'[1].going /\ Len(frames') = 1
<1> DEFINE m == [frames[1] EXCEPT !.going = FALSE,
                                  !.bScriptFailed = failing /\ Len(frames) = 1]
<1>1. frames' = <<m>> /\ heap' = heap /\ stage' = stage
  BY DEF Throw
<1>2. frames[1] \in Machines /\ 1 \in DOMAIN frames
  BY LastMachine DEF Sound
<1>3. m \in Machines /\ ~m.going /\ m.InstructionCounter = frames[1].InstructionCounter
  BY <1>2 DEF Machines
<1> HIDE DEF m
<1>4. Machines' = Machines
  BY <1>1 DEF Machines, Held
<1>5. frames' \in Seq(Machines) /\ Len(frames') = 1 /\ frames'[1] = m
  BY <1>1, <1>3
<1>6. Counted' /\ OneStops'
  BY <1>3, <1>5 DEF Counted, OneStops, this, Last
<1>7. Counters => Counters'
  BY <1>2, <1>3, <1>5 DEF Counters
<1>8. QED
  BY <1>1, <1>3, <1>4, <1>5, <1>6, <1>7 DEF Sound

\* Whatever an instruction comes to, the machines are sound after it.
LEMMA OutcomeSound ==
  ASSUME Sound, NEW operators, Fetches(operators), Outcome
  PROVE  Kept
<1> USE DEF Kept
<1> DEFINE n == Len(frames)
<1>1. /\ frames # << >> /\ stage \in {"unlocking", "locking"}
      /\ this.Steps = executed /\ executed <= MaximumStepsAllowed
      /\ executed' = executed + 1 /\ extended' = extended
  BY Fetching
<1>2. executed' \in 0 .. MaximumStepsAllowed + 1
  BY <1>1, ScriptAssumption DEF Sound
<1>3. n \in Nat \ {0} /\ frames \in Seq(Machines) /\ n \in DOMAIN frames
  BY <1>1, LastMachine DEF Sound
<1>4. CASE Advances
  <2>1. HeapKept
    BY <1>4 DEF Advances
  <2>2. PICK m \in Machines' :
          /\ Become(m)
          /\ m.Steps = executed' /\ Place(m.InstructionCounter)
          /\ IF m.going THEN ~m.bScriptFailed /\ Onward(m.InstructionCounter) ELSE TRUE
    BY <1>4 DEF Advances
  <2>3. frames' = [frames EXCEPT ![n] = m] /\ stage' = stage
    BY <2>2 DEF Become
  <2>4. Machines \subseteq Machines'
    BY <1>1, <2>1, MachinesGrow DEF HeapKept
  <2>5. /\ frames' \in Seq(Machines') /\ Len(frames') = n /\ frames'[n] = m
        /\ \A k \in 1 .. n - 1 : frames'[k] = frames[k]
    BY <1>3, <2>2, <2>3, <2>4
  <2>6. Counted'
    BY <2>2, <2>5 DEF Counted, this, Last
  <2>7. OneStops'
    <3> SUFFICES ASSUME NEW k \in DOMAIN frames'
                 PROVE  /\ k < Len(frames') => frames'[k].going
                        /\ frames'[k].bScriptFailed => ~frames'[k].going
      BY DEF OneStops
    <3>1. CASE k = n
      BY <2>2, <2>5, <3>1
    <3>2. CASE k # n
      <4>1. k \in 1 .. n - 1 /\ k \in DOMAIN frames /\ k < Len(frames)
        BY <1>3, <2>5, <3>2
      <4>2. QED
        BY <2>5, <4>1 DEF OneStops, Sound
    <3>3. QED
      BY <3>1, <3>2
  <2>8. Lengths => (Counters => Counters')
    BY <1>3, <2>2, <2>5 DEF Counters, Place
  <2>9. Lengths => GoesForward
    BY <2>2, <2>5 DEF GoesForward, Onward
  <2>10. Sound'
    <3>1. Len(heap') >= 2
      BY <2>1 DEF HeapKept, Sound
    <3>2. frames' # << >>
      BY <1>3, <2>5
    <3>3. QED
      BY <1>1, <1>2, <2>1, <2>3, <2>5, <2>6, <2>7, <3>1, <3>2 DEF HeapKept, Sound
  <2>11. QED
    BY <2>1, <2>8, <2>9, <2>10 DEF HeapKept, Untouched
<1>5. CASE CallsAnother
  <2>1. PICK m \in Machines, c \in Machines :
          /\ frames' = Front(frames) \o <<m, c>>
          /\ m.Steps = executed' /\ c.Steps = executed'
          /\ Place(m.InstructionCounter) /\ c.InstructionCounter = 0
          /\ Onward(m.InstructionCounter)
          /\ m.going /\ ~m.bScriptFailed /\ c.going /\ ~c.bScriptFailed
    BY <1>5 DEF CallsAnother
  <2>2. heap' = heap /\ stage' = stage /\ Machines' = Machines
    BY <1>1, <1>5 DEF CallsAnother, Machines, Held
  <2>3. Front(frames) \in Seq(Machines) /\ Len(Front(frames)) = n - 1
        /\ \A k \in 1 .. n - 1 : Front(frames)[k] = frames[k]
    BY <1>1, <1>3, FrontFacts
  <2>4. (n - 1) + 1 = n /\ (n - 1) + 2 = n + 1 /\ n - 1 \in Nat
    BY <1>3
  <2>5. /\ frames' \in Seq(Machines) /\ Len(frames') = n + 1
        /\ DOMAIN frames = 1 .. n /\ DOMAIN frames' = 1 .. n + 1
        /\ frames'[n] = m /\ frames'[n + 1] = c
        /\ \A k \in 1 .. n - 1 : frames'[k] = frames[k]
    <3> DEFINE F == Front(frames)
    <3>1. F \in Seq(Machines) /\ n - 1 = Len(F) /\ frames' = F \o <<m, c>>
          /\ \A k \in 1 .. n - 1 : F[k] = frames[k]
      BY <2>1, <2>3
    <3> HIDE DEF F, n
    <3>2. /\ frames' \in Seq(Machines) /\ Len(frames') = (n - 1) + 2
          /\ \A k \in 1 .. n - 1 : frames'[k] = F[k]
          /\ frames'[(n - 1) + 1] = m /\ frames'[(n - 1) + 2] = c
      BY <3>1, TwoMore
    <3>3. DOMAIN frames = 1 .. n /\ DOMAIN frames' = 1 .. Len(frames')
      BY <1>3, <3>2 DEF n
    <3>4. QED
      BY <2>4, <3>1, <3>2, <3>3
  <2>6. Counted'
    BY <2>1, <2>5 DEF Counted, this, Last
  <2>7. \A k \in DOMAIN frames' :
          k = n \/ k = n + 1 \/ (k \in 1 .. n - 1 /\ k \in DOMAIN frames /\ k < Len(frames))
    <3>1. \A p \in Nat : \A k \in 1 .. p + 1 :
            k = p \/ k = p + 1 \/ (k \in 1 .. p - 1 /\ k \in 1 .. p /\ k < p)
      OBVIOUS
    <3>2. n = Len(frames) /\ n \in Nat /\ DOMAIN frames = 1 .. n /\ DOMAIN frames' = 1 .. n + 1
      BY <1>3, <2>5
    <3> HIDE DEF n
    <3>3. QED
      BY <3>1, <3>2, Zenon
  <2>8. OneStops'
    <3> SUFFICES ASSUME NEW k \in DOMAIN frames'
                 PROVE  /\ k < Len(frames') => frames'[k].going
                        /\ frames'[k].bScriptFailed => ~frames'[k].going
      BY DEF OneStops
    <3>1. CASE k = n \/ k = n + 1
      BY <1>3, <2>1, <2>5, <3>1
    <3>2. CASE k \in 1 .. n - 1 /\ k \in DOMAIN frames /\ k < Len(frames)
      BY <2>5, <3>2 DEF OneStops, Sound
    <3>3. QED
      BY <2>7, <3>1, <3>2
  <2>9. ASSUME Lengths, Counters
        PROVE  Counters'
    <3>1. 0 \in -IntMax - 1 .. IntMax
      BY IntMaxType
    <3>2. m.InstructionCounter \in -IntMax - 1 .. IntMax
      BY <2>1, <2>9 DEF Place
    <3>3. \A k \in 1 .. n - 1 : frames'[k].InstructionCounter \in -IntMax - 1 .. IntMax
      BY <1>3, <2>5, <2>9 DEF Counters
    <3> HIDE DEF n
    <3>4. QED
      BY <2>1, <2>5, <2>7, <3>1, <3>2, <3>3 DEF Counters
  <2>10. Lengths => GoesForward
    BY <2>1, <2>5 DEF GoesForward, Onward
  <2>11. Sound'
    <3>1. frames' # << >>
      BY <1>3, <2>5
    <3>2. QED
      BY <1>1, <1>2, <2>2, <2>5, <2>6, <2>8, <3>1 DEF Sound
  <2>12. QED
    BY <2>2, <2>9, <2>10, <2>11 DEF Untouched
<1>6. CASE Crash
  <2>1. heap' = heap /\ stage' = "crashed" /\ frames' = << >>
    BY <1>6 DEF Crash
  <2>2. Sound' /\ Untouched /\ Counters' /\ GoesForward
    BY <1>1, <1>2, <2>1 DEF Sound, Counted, OneStops, Untouched, Counters, GoesForward, Stages
  <2>3. QED
    BY <2>2
<1>7. ASSUME NEW failing \in BOOLEAN, Throw(failing)
      PROVE  Kept
  <2>1. Sound' /\ (Counters => Counters') /\ ~frames'[1].going /\ Len(frames') = 1
    BY <1>1, <1>2, <1>7, ThrowSound
  <2>2. heap' = heap
    BY <1>7 DEF Throw
  <2>3. n \in DOMAIN frames' => n = 1
    BY <2>1 DEF Sound
  <2>4. QED
    BY <2>1, <2>2, <2>3 DEF Untouched, GoesForward
<1>8. QED
  BY <1>4, <1>5, <1>6, <1>7 DEF Outcome

-----------------------------------------------------------------------------
(* The effects that instructions have                                      *)

\* Another place in the script is one to go on to, the next one for example.
LEMMA PlaceWithin ==
  ASSUME Sound, NEW operators, Fetches(operators), NEW counter \in Int,
         counter > this.InstructionCounter, counter <= Len(code)
  PROVE  Place(counter) /\ Onward(counter)
<1>1. this.InstructionCounter \in 0 .. Len(code) - 1 /\ frames # << >>
  BY Fetching
<1>2. this.Script \in DOMAIN heap /\ Len(code) \in Nat
  BY <1>1, LastMachine
<1>3. Lengths => Len(code) <= IntMax
  BY <1>2 DEF Lengths, code
<1>4. IntMax \in Nat
  BY IntMaxType
<1>5. QED
  BY <1>1, <1>2, <1>3, <1>4 DEF Place, Onward

\* The place after an operator is one to go on to.
LEMMA NextPlace ==
  ASSUME Sound, NEW operators, Fetches(operators)
  PROVE  Place(Fetched.InstructionCounter) /\ Onward(Fetched.InstructionCounter)
<1>1. /\ this.InstructionCounter \in 0 .. Len(code) - 1 /\ frames # << >>
      /\ Fetched.InstructionCounter = this.InstructionCounter + 1
  BY Fetching
<1>2. Len(code) \in Nat
  BY <1>1, LastMachine DEF ByteArray
<1>3. QED
  BY <1>1, <1>2, PlaceWithin

\* Other operands, or another place, and the same arrays.
LEMMA MoveKept ==
  ASSUME Sound, NEW operators, Fetches(operators),
         NEW stack \in Seq(Held), NEW counter \in Int, Place(counter), Onward(counter),
         Become([Fetched EXCEPT !.Stack = stack, !.InstructionCounter = counter]),
         UNCHANGED heap
  PROVE  Kept
<1> DEFINE m == [Fetched EXCEPT !.Stack = stack, !.InstructionCounter = counter]
<1>1. /\ Fetched \in Machines /\ Fetched.Steps = executed'
      /\ Fetched.going /\ ~Fetched.bScriptFailed /\ extended' = extended
  BY Fetching
<1>2. Machines' = Machines
  BY <1>1 DEF Machines, Held
<1>3. /\ m \in Machines /\ m.Steps = executed' /\ m.InstructionCounter = counter
      /\ ~m.bScriptFailed
  BY <1>1 DEF Machines
<1>4. Become(m)
  OBVIOUS
<1> HIDE DEF m
<1>5. HeapKept
  BY DEF HeapKept, Sound
<1>6. Outcome
  BY <1>2, <1>3, <1>4, <1>5 DEF Outcome, Advances
<1>7. QED
  BY <1>6, OutcomeSound

\* Operands in another order keep what every step keeps.
LEMMA ArrangeKept ==
  ASSUME Sound, NEW operators, Fetches(operators), NEW stack \in Seq(Held), Arrange(stack)
  PROVE  Kept
<1> DEFINE counter == Fetched.InstructionCounter
<1>1. Fetched \in Machines
  BY Fetching
<1>2. /\ counter \in Int
      /\ [Fetched EXCEPT !.Stack = stack]
           = [Fetched EXCEPT !.Stack = stack, !.InstructionCounter = counter]
  BY <1>1 DEF Machines
<1>3. Place(counter) /\ Onward(counter)
  BY NextPlace
<1>4. Become([Fetched EXCEPT !.Stack = stack, !.InstructionCounter = counter]) /\ heap' = heap
  BY <1>2 DEF Arrange
<1> HIDE DEF counter
<1>5. QED
  BY <1>2, <1>3, <1>4, MoveKept

\* Operands popped.
LEMMA DropsKept ==
  ASSUME Sound, NEW operators, Fetches(operators), NEW k \in 0 .. depth, Drops(k)
  PROVE  Kept
<1>1. Without(k) \in Seq(Held)
  BY Fetching, Operands
<1>2. Arrange(Without(k))
  BY DEF Drops, Arrange
<1>3. QED
  BY <1>1, <1>2, ArrangeKept

\* The machine stops.
LEMMA HaltKept ==
  ASSUME Sound, NEW operators, Fetches(operators), NEW k \in Nat, Enough(k),
         NEW failing \in BOOLEAN, Halt(k, failing)
  PROVE  Kept
<1> DEFINE m == [Fetched EXCEPT !.Stack = Without(k), !.going = FALSE, !.bScriptFailed = failing]
<1>1. /\ Fetched \in Machines /\ Fetched.Steps = executed' /\ extended' = extended
      /\ Without(k) \in Seq(Held)
  BY Fetching, LastMachine, Operands DEF Enough
<1>2. heap' = heap /\ Become(m)
  BY DEF Halt
<1>3. Machines' = Machines
  BY <1>1, <1>2 DEF Machines, Held
<1>4. /\ m \in Machines /\ m.Steps = executed' /\ ~m.going
      /\ m.InstructionCounter = Fetched.InstructionCounter
  BY <1>1 DEF Machines
<1> HIDE DEF m
<1>5. HeapKept
  BY <1>2 DEF HeapKept, Sound
<1>6. Place(m.InstructionCounter)
  BY <1>4, NextPlace
<1>7. Outcome
  BY <1>2, <1>3, <1>4, <1>5, <1>6 DEF Outcome, Advances
<1>8. QED
  BY <1>7, OutcomeSound

\* New arrays after the others, and other operands, which may be new.
LEMMA GrowKept ==
  ASSUME Sound, NEW operators, Fetches(operators),
         NEW counter \in Int, Place(counter), Onward(counter),
         NEW arrays \in Seq(ByteArray), heap' = heap \o arrays,
         NEW stack, stack \in Seq(Held \cup (Len(heap) + 1 .. Len(heap) + Len(arrays))),
         Become([Fetched EXCEPT !.Stack = stack, !.InstructionCounter = counter])
  PROVE  Kept
<1> DEFINE h == Len(heap)
           m == [Fetched EXCEPT !.Stack = stack, !.InstructionCounter = counter]
<1>1. /\ Fetched \in Machines /\ Fetched.Steps = executed' /\ frames # << >>
      /\ Fetched.going /\ ~Fetched.bScriptFailed /\ extended' = extended
  BY Fetching
<1>2. Become(m)
  OBVIOUS
<1>3. heap \in Seq(ByteArray) /\ h \in Nat /\ h >= 2
  BY DEF Sound
<1>4. /\ heap' \in Seq(ByteArray) /\ Len(heap') = h + Len(arrays)
      /\ \A i \in 1 .. h : heap'[i] = heap[i]
  <2>1. \A i \in 1 .. h : i \in 1 .. h + Len(arrays) /\ i <= h
    BY <1>3
  <2>2. QED
    BY <1>3, <2>1, ConcatProperties
<1>5. HeapKept
  BY <1>3, <1>4 DEF HeapKept, UnlockingScript, LockingScript
<1>6. Held \subseteq Held' /\ Machines \subseteq Machines'
  BY <1>1, <1>3, <1>4, MachinesGrow
<1>7. stack \in Seq(Held')
  <2> DEFINE new == h + 1 .. h + Len(arrays)
             S == Held \cup new
  <2>1. new \subseteq Held'
    BY <1>1, <1>3, <1>4 DEF Held
  <2>2. S \subseteq Held' /\ stack \in Seq(S)
    BY <1>6, <2>1
  <2> HIDE DEF S
  <2>3. QED
    BY <2>2
<1>8. /\ m \in Machines' /\ m.Steps = executed' /\ ~m.bScriptFailed
      /\ m.InstructionCounter = counter
  <2>1. Fetched \in Machines'
    BY <1>1, <1>6
  <2>2. QED
    BY <1>1, <1>7, <2>1 DEF Machines
<1> HIDE DEF m
<1>9. Outcome
  BY <1>2, <1>5, <1>8 DEF Outcome, Advances
<1>10. QED
  BY <1>9, OutcomeSound

\* Arrays pushed in the place of operands.
LEMMA PushAllKept ==
  ASSUME Sound, NEW operators, Fetches(operators),
         NEW k \in 0 .. depth, NEW arrays \in Seq(ByteArray), PushAll(k, arrays)
  PROVE  Kept
<1> DEFINE h == Len(heap)
           new == [i \in DOMAIN arrays |-> h + i]
           stack == Without(k) \o new
           counter == Fetched.InstructionCounter
           S == Held \cup (h + 1 .. h + Len(arrays))
<1>1. h \in Nat /\ Without(k) \in Seq(Held) /\ Fetched \in Machines
  BY Fetching, Operands DEF Sound
<1>2. counter \in Int
      /\ [Fetched EXCEPT !.Stack = stack]
           = [Fetched EXCEPT !.Stack = stack, !.InstructionCounter = counter]
  BY <1>1 DEF Machines
<1>3. Become([Fetched EXCEPT !.Stack = stack, !.InstructionCounter = counter])
      /\ heap' = heap \o arrays
  BY <1>2 DEF PushAll
<1>4. Place(counter) /\ Onward(counter)
  BY NextPlace
<1> HIDE DEF counter
<1>5. stack \in Seq(S)
  <2>1. \A i \in DOMAIN arrays : h + i \in S
    BY <1>1
  <2>2. DOMAIN arrays = 1 .. Len(arrays) /\ Len(arrays) \in Nat /\ Held \subseteq S
    OBVIOUS
  <2> HIDE DEF h, S
  <2>3. new \in Seq(S)
    BY <2>1, <2>2
  <2>4. Without(k) \in Seq(S)
    BY <1>1, <2>2
  <2> HIDE DEF new
  <2>5. QED
    BY <2>3, <2>4
<1> HIDE DEF stack
<1>6. QED
  BY <1>2, <1>3, <1>4, <1>5, GrowKept

\* One array pushed.
LEMMA PushKept ==
  ASSUME Sound, NEW operators, Fetches(operators),
         NEW k \in 0 .. depth, NEW bytes \in ByteArray, Push(k, bytes)
  PROVE  Kept
<1>1. <<bytes>> \in Seq(ByteArray)
  OBVIOUS
<1>2. QED
  BY <1>1, PushAllKept DEF Push

\* A true or a false pushed.
LEMMA PushBooleanKept ==
  ASSUME Sound, NEW operators, Fetches(operators),
         NEW k \in 0 .. depth, NEW condition, PushBoolean(k, condition)
  PROVE  Kept
<1>1. <<1>> \in ByteArray /\ <<0>> \in ByteArray
  BY ByteType DEF ByteArray
<1>2. QED
  BY <1>1, PushKept DEF PushBoolean

\* An array written into.
LEMMA WriteKept ==
  ASSUME Sound, NEW operators, Fetches(operators),
         NEW k \in 0 .. depth, NEW dest \in Held, NEW bytes \in ByteArray,
         Become([Fetched EXCEPT !.Stack = Without(k)]),
         heap' = [heap EXCEPT ![dest] = bytes]
  PROVE  Kept
<1> DEFINE m == [Fetched EXCEPT !.Stack = Without(k)]
<1>1. /\ Fetched \in Machines /\ Fetched.Steps = executed' /\ frames # << >>
      /\ ~Fetched.bScriptFailed /\ extended' = extended
  BY Fetching
<1>2. heap \in Seq(ByteArray) /\ Len(heap) \in Nat /\ Len(heap) >= 2
  BY DEF Sound
<1>3. heap' \in Seq(ByteArray) /\ Len(heap') = Len(heap)
      /\ \A i \in 1 .. Len(heap) : i # dest => heap'[i] = heap[i]
  BY <1>2 DEF Held
<1>4. HeapKept
  <2>1. ~extended => dest > 2
    BY <1>2 DEF Held
  <2>2. QED
    BY <1>2, <1>3, <2>1 DEF HeapKept, UnlockingScript, LockingScript
<1>5. Machines \subseteq Machines'
  BY <1>1, <1>2, <1>3, MachinesGrow
<1>6. Without(k) \in Seq(Held)
  BY <1>1, Operands
<1>7. /\ m \in Machines /\ m.Steps = executed' /\ ~m.bScriptFailed
      /\ m.InstructionCounter = Fetched.InstructionCounter
  BY <1>1, <1>6 DEF Machines
<1>8. Place(m.InstructionCounter) /\ Onward(m.InstructionCounter)
  BY <1>7, NextPlace
<1>9. Become(m)
  OBVIOUS
<1> HIDE DEF m
<1>10. Outcome
  BY <1>4, <1>5, <1>7, <1>8, <1>9 DEF Outcome, Advances
<1>11. QED
  BY <1>10, OutcomeSound

-----------------------------------------------------------------------------
(* Instructions by their effect                                            *)

\* An instruction whose checks fail throws.
LEMMA ThrowKept ==
  ASSUME Sound, NEW operators, Fetches(operators), NEW failing \in BOOLEAN, Throw(failing)
  PROVE  Kept
BY OutcomeSound DEF Outcome

\* An exception of Java leaves no machine.
LEMMA CrashKept ==
  ASSUME Sound, NEW operators, Fetches(operators), Crash
  PROVE  Kept
BY OutcomeSound DEF Outcome

\* As many operands as were asked for can be taken.
LEMMA Taken ==
  ASSUME Sound, frames # << >>
  PROVE  /\ Enough(0) /\ \A k \in Nat : Enough(k) => k \in 0 .. depth
         /\ \A k \in Nat \ {0} : Enough(k) => Ref(k) \in Held /\ Operand(k) \in ByteArray
         /\ \A k \in Nat : Enough(k) => Without(k) \in Seq(Held)
<1>1. depth \in Nat
  BY LastMachine
<1>2. \A k \in Nat : Enough(k) => k \in 0 .. depth /\ (k # 0 => k \in 1 .. depth)
  BY <1>1 DEF Enough
<1>3. Enough(0)
  BY <1>1 DEF Enough
<1>4. QED
  BY <1>2, <1>3, Operands

\* Arrays are pushed.
LEMMA Pushes ==
  ASSUME Sound, NEW operators, NEW checks, NEW k \in Nat, NEW bytes,
         Instruction(operators, checks, Push(k, bytes)),
         frames # << >> /\ checks => Enough(k) /\ bytes \in ByteArray
  PROVE  Kept
<1>1. Fetches(operators) /\ ((checks /\ Push(k, bytes)) \/ Throw(TRUE))
  BY DEF Instruction
<1>2. frames # << >>
  BY <1>1, Fetching
<1>3. CASE checks /\ Push(k, bytes)
  <2>1. k \in 0 .. depth /\ bytes \in ByteArray
    BY <1>2, <1>3, Taken
  <2>2. QED
    BY <1>1, <1>3, <2>1, PushKept
<1>4. QED
  BY <1>1, <1>3, ThrowKept

\* An instruction whose answer is a true or a false.
LEMMA PushesBoolean ==
  ASSUME Sound, NEW operators, NEW checks, NEW k \in Nat, NEW condition,
         Instruction(operators, checks, PushBoolean(k, condition)),
         frames # << >> /\ checks => Enough(k)
  PROVE  Kept
<1>1. Fetches(operators) /\ ((checks /\ PushBoolean(k, condition)) \/ Throw(TRUE))
  BY DEF Instruction
<1>2. frames # << >>
  BY <1>1, Fetching
<1>3. CASE checks /\ PushBoolean(k, condition)
  <2>1. k \in 0 .. depth
    BY <1>2, <1>3, Taken
  <2>2. QED
    BY <1>1, <1>3, <2>1, PushBooleanKept
<1>4. QED
  BY <1>1, <1>3, ThrowKept

\* Operands take another order.
LEMMA Arranges ==
  ASSUME Sound, NEW operators, NEW checks, NEW stack,
         Instruction(operators, checks, Arrange(stack)),
         frames # << >> /\ checks => stack \in Seq(Held)
  PROVE  Kept
<1>1. Fetches(operators) /\ ((checks /\ Arrange(stack)) \/ Throw(TRUE))
  BY DEF Instruction
<1>2. frames # << >>
  BY <1>1, Fetching
<1>3. QED
  BY <1>1, <1>2, ThrowKept, ArrangeKept

\* The machine stops.
LEMMA Halts ==
  ASSUME Sound, NEW operators, NEW checks, NEW k \in Nat, NEW failing \in BOOLEAN,
         Instruction(operators, checks, Halt(k, failing)),
         checks => Enough(k)
  PROVE  Kept
BY ThrowKept, HaltKept DEF Instruction

-----------------------------------------------------------------------------
(* The stack as a whole                                                    *)

\* A sequence that is rotated has the same length and elements.
LEMMA RotateType ==
  ASSUME NEW S, NEW s \in Seq(S), NEW n \in Int
  PROVE  Rotate(s, n) \in Seq(S) /\ Len(Rotate(s, n)) = Len(s)
<1>1. ASSUME NEW i \in 1 .. Len(s)
      PROVE  s[((i - 1 - n) % Len(s)) + 1] \in S
  <2> DEFINE k == Len(s)
             j == i - 1 - n
  <2>1. k \in Nat \ {0} /\ j \in Int
    OBVIOUS
  <2>2. \A x \in Int, m \in Nat \ {0} : x % m \in 0 .. m - 1
    OBVIOUS
  <2>3. (j % k) + 1 \in 1 .. k
    <3> HIDE DEF j, k
    <3>1. j % k \in 0 .. k - 1
      BY <2>1, <2>2
    <3>2. QED
      BY <2>1, <3>1
  <2>4. QED
    BY <2>3
<1>2. QED
  BY <1>1 DEF Rotate

\* A sequence in the other order has the same length and elements.
LEMMA ReverseType ==
  ASSUME NEW S, NEW s \in Seq(S)
  PROVE  Reverse(s) \in Seq(S) /\ Len(Reverse(s)) = Len(s)
<1>1. \A i \in 1 .. Len(s) : s[(Len(s) - i) + 1] \in S
  OBVIOUS
<1>2. QED
  BY <1>1 DEF Reverse

\* A part of a sequence.
LEMMA SubSeqType ==
  ASSUME NEW S, NEW s \in Seq(S), NEW a \in Int, NEW b \in Int, a >= 1, b <= Len(s)
  PROVE  /\ SubSeq(s, a, b) \in Seq(S)
         /\ Len(SubSeq(s, a, b)) = IF a <= b THEN b - a + 1 ELSE 0
<1>1. CASE a <= b
  BY <1>1
<1>2. CASE ~(a <= b)
  BY <1>2
<1>3. QED
  BY <1>1, <1>2

\* The byte of an operand.
LEMMA SingleType ==
  ASSUME Sound, frames # << >>, NEW k \in Nat \ {0}, Enough(k), Exactly(k, 1) \/ AtLeast(k, 1)
  PROVE  Single(k) \in Byte /\ Single(k) \in Int /\ Count(Single(k)) \in Nat
<1> DEFINE bytes == Operand(k)
<1>1. bytes \in Seq(Byte)
  BY Taken DEF ByteArray
<1>2. Len(bytes) = 1 \/ Len(bytes) >= 1
  BY DEF Exactly, AtLeast
<1>3. Single(k) = bytes[1]
  BY DEF Single
<1> HIDE DEF bytes
<1>4. 1 \in 1 .. Len(bytes)
  BY <1>1, <1>2
<1>5. bytes[1] \in Byte
  BY <1>1, <1>4
<1>6. \A x \in Byte : x \in Int
  BY ByteType
<1>7. Single(k) \in Byte /\ Single(k) \in Int
  BY <1>3, <1>5, <1>6
<1>8. QED
  BY <1>7 DEF Count

\* The instructions that take the elements of the stack as they are.
LEMMA StackKept ==
  ASSUME Sound, StackStep
  PROVE  Kept
<1> USE DEF Rearrange
<1>1. ASSUME frames # << >>
      PROVE  /\ this.Stack \in Seq(Held)
             /\ Enough(1) => Ref(1) \in Held /\ Without(1) \in Seq(Held)
             /\ Enough(2) => Enough(1) /\ Ref(2) \in Held /\ Without(2) \in Seq(Held)
  <2>1. depth \in Nat /\ this.Stack \in Seq(Held)
    BY <1>1, LastMachine, Operands
  <2>2. QED
    BY <1>1, <2>1, Taken DEF Enough
<1>2. CASE Drop
  BY <1>1, <1>2, Arranges DEF Drop
<1>3. CASE Dup
  <2>1. frames # << >> /\ Enough(1) => Append(this.Stack, Ref(1)) \in Seq(Held)
    BY <1>1
  <2>2. QED
    BY <1>3, <2>1, Arranges DEF Dup
<1>4. CASE Dup2
  <2>1. frames # << >> /\ Enough(2) => this.Stack \o <<Ref(2), Ref(1)>> \in Seq(Held)
    BY <1>1
  <2>2. QED
    BY <1>4, <2>1, Arranges DEF Dup2
<1>5. CASE Swap
  <2>1. frames # << >> /\ Enough(2) => Without(2) \o <<Ref(1), Ref(2)>> \in Seq(Held)
    BY <1>1
  <2>2. QED
    BY <1>5, <2>1, Arranges DEF Swap
<1>6. CASE Clear
  <2>1. << >> \in Seq(Held)
    OBVIOUS
  <2>2. QED
    BY <1>6, <2>1, Arranges DEF Clear
<1>7. CASE Clone
  <2>1. frames # << >> => this.Stack \o this.Stack \in Seq(Held)
    BY <1>1
  <2>2. QED
    BY <1>7, <2>1, Arranges DEF Clone
<1>8. CASE Flip
  <2>1. frames # << >> => Reverse(this.Stack) \in Seq(Held)
    BY <1>1, ReverseType
  <2>2. QED
    BY <1>8, <2>1, Arranges DEF Flip
<1>9. CASE ShiftUp \/ ShiftDown
  <2>1. frames # << >> => Rotate(this.Stack, 1) \in Seq(Held) /\ Rotate(this.Stack, -1) \in Seq(Held)
    BY <1>1, RotateType
  <2>2. QED
    BY <1>9, <2>1, Arranges DEF ShiftUp, ShiftDown
<1>10. CASE DupN \/ DropN \/ ShiftN
  <2> DEFINE n == Single(1)
             dup == Without(1) \o Uppermost(n)
             drop == Below(n)
             shift == Rotate(Without(1), n)
             one == Enough(1) /\ Exactly(1, 1)
             more == one /\ depth - 1 >= n
             none == one /\ depth - 1 >= 0
  <2>1. \/ Instruction({"DUPN"}, more, Arrange(dup))
        \/ Instruction({"DROPN"}, more, Arrange(drop))
        \/ Instruction({"SHIFTN"}, none, Arrange(shift))
    BY <1>10 DEF DupN, DropN, ShiftN, RearrangeMany
  <2>2. ASSUME frames # << >>, one
        PROVE  /\ n \in Int /\ Count(n) \in Nat /\ depth \in Nat /\ depth >= 1
               /\ this.Stack \in Seq(Held) /\ depth = Len(this.Stack)
               /\ Without(1) \in Seq(Held)
    BY <2>2, SingleType, Taken, LastMachine, Operands DEF Enough
  <2>3. frames # << >> /\ one => shift \in Seq(Held)
    BY <2>2, RotateType
  <2>4. ASSUME frames # << >>, more
        PROVE  dup \in Seq(Held) /\ drop \in Seq(Held)
    <3>1. Count(n) <= depth - 1
      BY <2>2, <2>4 DEF Count
    <3>2. Uppermost(n) \in Seq(Held)
      <4>1. depth - Count(n) \in Int /\ depth - Count(n) >= 1 /\ depth - 1 <= depth /\ depth - 1 \in Int
        BY <2>2, <2>4, <3>1
      <4>2. QED
        BY <2>2, <2>4, <4>1, SubSeqType DEF Uppermost
    <3>3. Below(n) \in Seq(Held)
      <4>1. 1 + Count(n) \in Nat /\ Enough(1 + Count(n))
        BY <2>2, <2>4, <3>1 DEF Enough
      <4>2. QED
        BY <2>4, <4>1, Taken DEF Below
    <3>4. QED
      BY <2>2, <2>4, <3>2, <3>3
  <2> HIDE DEF dup, drop, shift, one
  <2>5. more => one
    OBVIOUS
  <2> HIDE DEF more, none
  <2>6. CASE Instruction({"DUPN"}, more, Arrange(dup))
    BY <2>4, <2>6, Arranges
  <2>7. CASE Instruction({"DROPN"}, more, Arrange(drop))
    BY <2>4, <2>7, Arranges
  <2>8. CASE Instruction({"SHIFTN"}, none, Arrange(shift))
    BY <2>3, <2>8, Arranges DEF none
  <2>9. QED
    BY <2>1, <2>6, <2>7, <2>8
<1>11. CASE ShiftNExcept
  <2> DEFINE e == Single(1)
             checks == /\ Enough(2) /\ Exactly(1, 1) /\ Exactly(2, 1)
                       /\ InRange(e, 0 .. depth - 2)
             left == SubSeq(this.Stack, 1, e)
             right == SubSeq(this.Stack, e + 1, depth - 2)
             stack == left \o Rotate(right, Single(2))
  <2>1. Instruction({"SHIFTNEXCEPT"}, checks, Arrange(stack))
    BY <1>11 DEF ShiftNExcept
  <2>2. ASSUME frames # << >>, checks
        PROVE  stack \in Seq(Held)
    <3>1. /\ depth \in Nat /\ depth >= 2 /\ this.Stack \in Seq(Held) /\ depth = Len(this.Stack)
          /\ e \in 0 .. depth - 2
      BY <2>2, LastMachine, Operands DEF Enough, InRange
    <3>2. Single(2) \in Int
      BY <2>2, SingleType
    <3>3. left \in Seq(Held) /\ right \in Seq(Held)
      <4> HIDE DEF e
      <4>1. 1 \in Int /\ e \in Int /\ 1 >= 1 /\ e <= depth
            /\ e + 1 \in Int /\ depth - 2 \in Int /\ e + 1 >= 1 /\ depth - 2 <= depth
        BY <3>1
      <4>2. QED
        BY <3>1, <4>1, SubSeqType
    <3> HIDE DEF left, right
    <3>4. Rotate(right, Single(2)) \in Seq(Held)
      BY <3>2, <3>3, RotateType
    <3>5. QED
      BY <3>3, <3>4
  <2> HIDE DEF checks, stack
  <2>3. QED
    BY <2>1, <2>2, Arranges
<1>12. QED
  BY <1>2, <1>3, <1>4, <1>5, <1>6, <1>7, <1>8, <1>9, <1>10, <1>11 DEF StackStep

-----------------------------------------------------------------------------
(* Floating point                                                          *)

\* The instructions of floating point: their results are any floats.
LEMMA FloatsKept ==
  ASSUME Sound, FloatStep
  PROVE  Kept
<1>1. Floats \subseteq ByteArray
  BY ScriptAssumption
<1>2. ASSUME NEW operators, NEW checks, NEW k \in Nat, checks => Enough(k) \/ k = 0,
             Fetches(operators),
             (checks /\ \E result \in Floats : Push(k, result)) \/ Throw(TRUE)
      PROVE  Kept
  <2>1. ASSUME NEW result \in Floats, Enough(k) \/ k = 0, Push(k, result)
        PROVE  Kept
    <3>1. k \in 0 .. depth
      BY <1>2, <2>1, Fetching, Taken
    <3>2. QED
      BY <1>1, <1>2, <2>1, <3>1, PushKept
  <2>2. QED
    BY <1>2, <2>1, ThrowKept
<1>3. ASSUME NEW k \in Nat, NEW operators, FloatOf(k, operators)
      PROVE  Kept
  <2> DEFINE checks == Enough(k) /\ \A i \in 1 .. k : Exactly(i, IntBytes)
  <2>1. /\ Fetches(operators)
        /\ (checks /\ \E result \in Floats : Push(k, result)) \/ Throw(TRUE)
    BY <1>3 DEF FloatOf, Instruction
  <2>2. checks => Enough(k)
    OBVIOUS
  <2> HIDE DEF checks
  <2>3. QED
    BY <1>2, <2>1, <2>2
<1>4. ASSUME NEW op, FloatConstant(op)
      PROVE  Kept
  BY <1>2, <1>4 DEF FloatConstant, Instruction
<1>5. ASSUME NEW operators, FloatOfFirst(operators)
      PROVE  Kept
  BY <1>2, <1>5 DEF FloatOfFirst, Instruction
<1>6. CASE FloatPower \/ FloatFunction \/ FloatLogarithm \/ FloatRound \/ FloatNegate
           \/ FloatArithmetic
  BY <1>3, <1>6 DEF FloatPower, FloatFunction, FloatLogarithm, FloatRound, FloatNegate, FloatArithmetic
<1>7. CASE FloatDivide
  <2>1. CASE FloatOf(2, {"DIVIDEFLOAT"})
    BY <1>3, <2>1
  <2>2. CASE Instruction({"DIVIDEFLOAT"}, Enough(2) /\ Exactly(1, IntBytes) /\ Exactly(2, IntBytes),
                         Halt(2, TRUE))
    BY <2>2, Halts
  <2>3. QED
    BY <1>7, <2>1, <2>2 DEF FloatDivide
<1>8. CASE FloatTest
  <2> DEFINE operators == {"ISNAN", "ISINF", "ISFIN"}
  <2>1. /\ Fetches(operators)
        /\ (Enough(1) /\ \E result \in BOOLEAN : PushBoolean(1, result)) \/ Throw(TRUE)
    BY <1>8 DEF FloatTest, Instruction
  <2> HIDE DEF operators
  <2>2. ASSUME NEW result \in BOOLEAN, Enough(1), PushBoolean(1, result)
        PROVE  Kept
    BY <2>1, <2>2, Fetching, Taken, PushBooleanKept
  <2>3. QED
    BY <2>1, <2>2, ThrowKept
<1>9. CASE FloatInvert \/ FloatConvert
  BY <1>5, <1>9 DEF FloatInvert, FloatConvert
<1>10. CASE PushPi \/ PushE
  BY <1>4, <1>10 DEF PushPi, PushE
<1>11. QED
  BY <1>6, <1>7, <1>8, <1>9, <1>10 DEF FloatStep

-----------------------------------------------------------------------------
(* Constants and data in the script                                        *)

\* Data that follow an operator, with their length before them.
LEMMA FollowsKept ==
  ASSUME Sound, NEW operators, Fetches(operators),
         NEW header \in Nat \ {0}, NEW width \in 1 .. header, NEW pushed \in BOOLEAN,
         Follows(header, width, pushed)
  PROVE  Kept
<1> DEFINE at == this.InstructionCounter + 1
           length == Number(SubSeq(code, at + header - width + 1, at + header), width)
           end == at + header + length
           past == [Fetched EXCEPT !.InstructionCounter = end]
           datum == SubSeq(code, at + header + 1, end)
           stack == Append(this.Stack, Len(heap) + 1)
<1>1. /\ this.InstructionCounter \in 0 .. Len(code) - 1 /\ frames # << >>
      /\ Fetched \in Machines /\ Fetched.Stack = this.Stack /\ at \in Nat
  BY Fetching
<1>2. code \in ByteArray /\ Len(code) \in Nat
  BY <1>1, LastMachine DEF ByteArray
<1>3. CASE Throw(TRUE)
  BY <1>3, ThrowKept
<1>4. CASE Halt(0, TRUE)
  BY <1>1, <1>4, HaltKept, Taken
<1>5. CASE Crash
  BY <1>5, CrashKept
<1>6. CASE /\ at + header <= Len(code) /\ length > 0 /\ end <= Len(code)
           /\ IF pushed THEN /\ heap' = Append(heap, datum)
                             /\ Become([past EXCEPT !.Stack = Append(@, Len(heap) + 1)])
              ELSE Become(past) /\ UNCHANGED heap
  <2> DEFINE a == at + header - width + 1
             b == at + header
             first == SubSeq(code, a, b)
  <2>1. length = Number(first, width) /\ end = b + length /\ b <= Len(code) /\ length > 0
    BY <1>6
  <2> HIDE DEF length, end
  <2>2. width \in Nat \ {0} /\ width \in Int /\ width <= header /\ header >= 1
    OBVIOUS
  <2> HIDE DEF at
  <2>3. a \in Int /\ b \in Int /\ a >= 1 /\ a <= b /\ b - a + 1 = width /\ b > at
    BY <1>1, <2>2
  <2> HIDE DEF a, b
  <2>4. first \in ByteArray /\ Len(first) = width
    BY <1>2, <2>1, <2>3, SubSeqType DEF ByteArray
  <2> HIDE DEF first
  <2>5. length \in Int
    <3>1. width <= Len(first)
      BY <2>2, <2>4
    <3>2. Number(first, width) \in Int
      BY <2>2, <2>4, <3>1, NumberType
    <3>3. QED
      BY <2>1, <3>2
  <2>6. this.InstructionCounter \in Int /\ at > this.InstructionCounter
    BY <1>1 DEF at
  <2>7. end \in Int /\ end > this.InstructionCounter /\ end <= Len(code)
    BY <1>1, <1>6, <2>1, <2>3, <2>5, <2>6
  <2>8. Place(end) /\ Onward(end)
    BY <1>1, <2>7, PlaceWithin
  <2>9. datum \in ByteArray
    <3>1. b + 1 \in Int /\ b + 1 >= 1 /\ datum = SubSeq(code, b + 1, end)
      BY <1>1, <2>3, <2>2 DEF b
    <3> HIDE DEF datum
    <3>2. QED
      BY <1>2, <2>7, <3>1, SubSeqType DEF ByteArray
  <2> HIDE DEF datum
  <2>10. CASE pushed
    <3>1. heap' = Append(heap, datum) /\ Become([past EXCEPT !.Stack = Append(@, Len(heap) + 1)])
      BY <1>6, <2>10
    <3>2. heap' = heap \o <<datum>> /\ <<datum>> \in Seq(ByteArray) /\ Len(<<datum>>) = 1
      BY <2>9, <3>1 DEF Sound
    <3>3. [past EXCEPT !.Stack = Append(@, Len(heap) + 1)]
            = [Fetched EXCEPT !.Stack = stack, !.InstructionCounter = end]
      BY <1>1 DEF Machines
    <3>4. Become([Fetched EXCEPT !.Stack = stack, !.InstructionCounter = end])
      BY <3>1, <3>3
    <3>5. stack \in Seq(Held \cup (Len(heap) + 1 .. Len(heap) + 1))
      BY <1>1, Operands DEF Sound
    <3> HIDE DEF stack
    <3>6. QED
      BY <2>7, <2>8, <3>2, <3>4, <3>5, GrowKept
  <2>11. CASE ~pushed
    <3>1. past = [Fetched EXCEPT !.Stack = this.Stack, !.InstructionCounter = end]
      BY <1>1 DEF Machines
    <3>2. this.Stack \in Seq(Held)
      BY <1>1, Operands
    <3>3. Become([Fetched EXCEPT !.Stack = this.Stack, !.InstructionCounter = end]) /\ heap' = heap
      BY <1>6, <2>11, <3>1
    <3>4. QED
      BY <2>7, <2>8, <3>2, <3>3, MoveKept
  <2>12. QED
    BY <2>10, <2>11
<1>7. QED
  BY <1>3, <1>4, <1>5, <1>6 DEF Follows

\* The constants, and the data of PUSH, BIGPUSH, FLAG and FLAGDATA.
LEMMA DataKept ==
  ASSUME Sound, DataStep
  PROVE  Kept
<1>1. IntBytes \in Nat /\ IntBytes >= 1 /\ 1 \in 1 .. 1 /\ 1 \in 1 .. 2
      /\ IntBytes \in 1 .. IntBytes /\ 1 \in Nat \ {0} /\ 2 \in Nat \ {0}
      /\ IntBytes \in Nat \ {0}
  BY WidthAssumption
<1>2. frames # << >> => Enough(0)
  BY Taken
<1>3. CASE PushNull
  <2>1. << >> \in ByteArray
    BY DEF ByteArray
  <2>2. QED
    BY <1>2, <1>3, <2>1, Pushes DEF PushNull
<1>4. CASE PushInstruction
  <2> DEFINE bytes == ToBytes(this.InstructionCounter + 1, IntBytes)
  <2>1. frames # << >> => bytes \in ByteArray
    <3>1. frames # << >> => this.InstructionCounter + 1 \in Int
      BY LastMachine DEF Machines
    <3>2. QED
      BY <1>1, <3>1, ToBytesType
  <2> HIDE DEF bytes
  <2>2. Instruction({"INSTRUCTION"}, TRUE, Push(0, bytes))
    BY <1>4 DEF PushInstruction, bytes
  <2>3. QED
    BY <1>2, <2>1, <2>2, Pushes
<1>5. CASE PushBool
  BY <1>2, <1>5, PushesBoolean DEF PushBool
<1>6. CASE PushDepth
  <2>1. frames # << >> => <<Narrow(depth, 1)>> \in ByteArray
    <3>1. frames # << >> => Narrow(depth, 1) \in Byte
      BY LastMachine, NarrowByte
    <3>2. QED
      BY <3>1 DEF ByteArray
  <2>2. QED
    BY <1>2, <1>6, <2>1, Pushes DEF PushDepth
<1>7. CASE Nop
  <2>1. frames # << >> => this.Stack \in Seq(Held)
    BY Operands
  <2>2. QED
    BY <1>7, <2>1, Arranges DEF Nop
<1>8. CASE PushData \/ BigPushData \/ FlagData
  BY <1>1, <1>8, FollowsKept DEF PushData, BigPushData, FlagData
<1>9. CASE Flag
  <2> DEFINE next == this.InstructionCounter + 2
             m == [Fetched EXCEPT !.InstructionCounter = @ + 1]
  <2>1. /\ Fetches({"FLAG"})
        /\ \/ this.InstructionCounter + 1 < Len(code) /\ Become(m) /\ UNCHANGED heap
           \/ Crash
           \/ Throw(TRUE)
    BY <1>9 DEF Flag, Instruction
  <2>2. /\ this.InstructionCounter \in 0 .. Len(code) - 1 /\ frames # << >>
        /\ Fetched \in Machines /\ Fetched.Stack = this.Stack
        /\ Fetched.InstructionCounter = this.InstructionCounter + 1
    BY <2>1, Fetching
  <2>3. Len(code) \in Nat /\ this.Stack \in Seq(Held)
    BY <2>2, LastMachine, Operands DEF ByteArray
  <2>4. CASE this.InstructionCounter + 1 < Len(code) /\ Become(m) /\ UNCHANGED heap
    <3>1. m = [Fetched EXCEPT !.Stack = this.Stack, !.InstructionCounter = next]
      <4>1. Fetched.InstructionCounter + 1 = next
        BY <2>2
      <4> HIDE DEF next
      <4>2. QED
        BY <2>2, <4>1 DEF Machines
    <3>2. next \in Int /\ next > this.InstructionCounter /\ next <= Len(code)
      BY <2>2, <2>3, <2>4
    <3>3. Become([Fetched EXCEPT !.Stack = this.Stack, !.InstructionCounter = next])
      BY <2>4, <3>1
    <3> HIDE DEF next, m
    <3>4. Place(next) /\ Onward(next)
      BY <2>1, <3>2, PlaceWithin
    <3>5. QED
      BY <2>1, <2>3, <2>4, <3>2, <3>3, <3>4, MoveKept
  <2>5. QED
    BY <2>1, <2>4, CrashKept, ThrowKept
<1>10. QED
  BY <1>3, <1>4, <1>5, <1>6, <1>7, <1>8, <1>9 DEF DataStep

-----------------------------------------------------------------------------
(* Comparing                                                               *)

\* The comparisons.
LEMMA ComparesKept ==
  ASSUME Sound, CompareStep
  PROVE  Kept
<1>1. ASSUME NEW operators, Comparison(operators)
      PROVE  Kept
  <2> DEFINE condition == Compares(Value(Operand(2)), Value(Operand(1)))
  <2>1. /\ Fetches(operators)
        /\ (Enough(2) /\ PushBoolean(2, condition)) \/ Crash \/ Throw(TRUE)
    BY <1>1 DEF Comparison, Instruction
  <2> HIDE DEF condition
  <2>2. CASE Enough(2) /\ PushBoolean(2, condition)
    BY <2>1, <2>2, Fetching, Taken, PushBooleanKept
  <2>3. QED
    BY <2>1, <2>2, CrashKept, ThrowKept
<1>2. CASE CompareEqual \/ CompareOrder
  BY <1>1, <1>2 DEF CompareEqual, CompareOrder
<1>3. CASE CompareArrays
  <2> DEFINE operators == {"BYTESEQUAL", "SHA512EQUAL", "LENEQUAL"}
             condition == CASE operator = "BYTESEQUAL"  -> Operand(2) = Operand(1)
                            [] operator = "SHA512EQUAL" -> Operand(2) = Digest(Operand(1))
                            [] operator = "LENEQUAL"    -> Len(Operand(2)) = Len(Operand(1))
  <2>1. Instruction(operators, Enough(2), PushBoolean(2, condition))
    BY <1>3, Zenon DEF CompareArrays
  <2> HIDE DEF operators, condition
  <2>2. QED
    BY <2>1, PushesBoolean
<1>4. CASE CompareUnequal
  BY <1>4, PushesBoolean DEF CompareUnequal
<1>5. CASE CompareZero
  BY <1>5, PushesBoolean DEF CompareZero
<1>6. QED
  BY <1>2, <1>3, <1>4, <1>5 DEF CompareStep

-----------------------------------------------------------------------------
(* Elements by their place                                                 *)

\* The number in an operand.
LEMMA IntOfType ==
  ASSUME Sound, frames # << >>, NEW k \in Nat \ {0}, Enough(k), AtLeast(k, IntBytes)
  PROVE  /\ IntOf(k) \in Int
         /\ -IntMax - 1 <= IntOf(k) /\ IntOf(k) <= IntMax
<1>1. Operand(k) \in ByteArray /\ IntBytes \in Nat \ {0} /\ IntBytes <= Len(Operand(k))
  BY Taken, WidthAssumption DEF AtLeast
<1>2. Half(IntBytes) \in Nat
  BY <1>1, Halves
<1>3. /\ Number(Operand(k), IntBytes) \in Int
      /\ -Half(IntBytes) <= Number(Operand(k), IntBytes)
      /\ Number(Operand(k), IntBytes) <= Half(IntBytes) - 1
  BY <1>1, NumberType
<1>4. QED
  BY <1>2, <1>3 DEF IntOf, IntMax

\* What a part of an array is overwritten with is an array.
LEMMA OverwrittenType ==
  ASSUME NEW dest \in ByteArray, NEW source \in ByteArray,
         NEW destBegin \in Int, NEW sourceBegin \in Nat, NEW length \in Nat,
         sourceBegin + length <= Len(source)
  PROVE  Overwritten(dest, destBegin, source, sourceBegin, length) \in ByteArray
<1> DEFINE new == [i \in DOMAIN dest |->
                     IF i \in destBegin + 1 .. destBegin + length
                     THEN source[sourceBegin + i - destBegin] ELSE dest[i]]
<1>1. dest \in Seq(Byte) /\ source \in Seq(Byte) /\ DOMAIN dest = 1 .. Len(dest) /\ Len(dest) \in Nat
  BY DEF ByteArray
<1>2. ASSUME NEW i \in 1 .. Len(dest), i \in destBegin + 1 .. destBegin + length
      PROVE  source[sourceBegin + i - destBegin] \in Byte
  <2>1. sourceBegin + i - destBegin \in 1 .. Len(source)
    BY <1>1, <1>2
  <2>2. QED
    BY <1>1, <2>1
<1>3. \A i \in 1 .. Len(dest) : new[i] \in Byte
  BY <1>1, <1>2
<1>4. new = Overwritten(dest, destBegin, source, sourceBegin, length)
  BY DEF Overwritten
<1>5. DOMAIN new = 1 .. Len(dest) /\ new = [i \in 1 .. Len(dest) |-> new[i]]
  BY <1>1
<1> HIDE DEF new
<1>6. new \in Seq(Byte)
  BY <1>1, <1>3, <1>5
<1>7. QED
  BY <1>4, <1>6 DEF ByteArray

\* The array of an element of the stack.
LEMMA ElementType ==
  ASSUME Sound, frames # << >>, NEW n \in Nat, NEW i \in 0 .. depth - n - 1
  PROVE  this.Stack[i + 1] \in Held /\ heap[this.Stack[i + 1]] \in ByteArray
<1>1. depth \in Nat
  BY LastMachine
<1>2. i + 1 \in 1 .. depth
  BY <1>1
<1>3. QED
  BY <1>2, Operands

\* GET reads one element of an array.
LEMMA GetKept ==
  ASSUME Sound, Get
  PROVE  Kept
<1> DEFINE length == IntOf(1)
           begin == IntOf(2)
           element == IntOf(3)
           from == heap[this.Stack[element + 1]]
           bytes == SubSeq(from, begin + 1, begin + length)
           checks == /\ Enough(3) /\ \A k \in 1 .. 3 : AtLeast(k, IntBytes)
                     /\ InRange(element, 0 .. depth - 4)
                     /\ InRange(length, 0 .. Len(from))
                     /\ InRange(begin, 0 .. Len(from))
                     /\ begin + length <= Len(from)
<1>1. Instruction({"GET"}, checks, Push(3, bytes))
  BY DEF Get
<1>2. ASSUME frames # << >>, checks
      PROVE  Enough(3) /\ bytes \in ByteArray
  <2>1. /\ element \in 0 .. depth - 3 - 1 /\ depth \in Nat
        /\ begin \in 0 .. Len(from) /\ length \in 0 .. Len(from) /\ begin + length <= Len(from)
    BY <1>2, LastMachine DEF InRange
  <2> HIDE DEF element
  <2>2. from \in ByteArray
    BY <1>2, <2>1, ElementType
  <2> HIDE DEF from, begin, length
  <2>3. begin + 1 \in Int /\ begin + 1 >= 1 /\ begin + length \in Int
    BY <2>1, <2>2 DEF ByteArray
  <2>4. QED
    BY <1>2, <2>1, <2>2, <2>3, SubSeqType DEF ByteArray
<1> HIDE DEF checks, bytes
<1>3. QED
  BY <1>1, <1>2, Pushes

\* SET writes one element of an array.
LEMMA SetKept ==
  ASSUME Sound, Set
  PROVE  Kept
<1> DEFINE length == IntOf(1)
           begin == IntOf(2)
           element == IntOf(3)
           source == Operand(4)
           dest == this.Stack[element + 1]
           bytes == Overwritten(heap[dest], begin, source, 0, length)
           checks == /\ Enough(4) /\ \A k \in 1 .. 3 : AtLeast(k, IntBytes)
                     /\ InRange(element, 0 .. depth - 5)
                     /\ InRange(length, 0 .. Len(source))
                     /\ InRange(Narrow(begin + length, IntBytes), 0 .. Len(heap[dest]))
<1>1. /\ Fetches({"SET"})
      /\ \/ /\ checks /\ Become([Fetched EXCEPT !.Stack = Without(4)])
            /\ heap' = [heap EXCEPT ![dest] = bytes]
         \/ Crash
         \/ Throw(TRUE)
  BY DEF Set, Instruction
<1>2. frames # << >>
  BY <1>1, Fetching
<1>3. ASSUME checks
      PROVE  4 \in 0 .. depth /\ dest \in Held /\ bytes \in ByteArray
  <2>1. /\ element \in 0 .. depth - 4 - 1 /\ depth \in Nat
        /\ length \in 0 .. Len(source)
    BY <1>2, <1>3, LastMachine DEF InRange
  <2>2. source \in ByteArray /\ 4 \in 0 .. depth
    BY <1>2, <1>3, Taken
  <2>3. begin \in Int
    <3>1. AtLeast(2, IntBytes) /\ Enough(2)
      BY <1>2, <1>3, LastMachine DEF Enough
    <3>2. QED
      BY <1>2, <3>1, IntOfType
  <2> HIDE DEF element
  <2>4. dest \in Held /\ heap[dest] \in ByteArray
    BY <1>2, <2>1, ElementType
  <2> HIDE DEF dest, source, begin, length
  <2>5. length \in Nat /\ 0 + length <= Len(source)
    BY <2>1, <2>2 DEF ByteArray
  <2>6. QED
    BY <2>2, <2>3, <2>4, <2>5, OverwrittenType
<1> HIDE DEF checks, bytes, dest
<1>4. QED
  BY <1>1, <1>3, WriteKept, CrashKept, ThrowKept

\* COPY writes a part of an array into another.
LEMMA CopyKept ==
  ASSUME Sound, Copy
  PROVE  Kept
<1> DEFINE length == IntOf(1)
           destBegin == IntOf(2)
           destElement == IntOf(3)
           begin == IntOf(4)
           element == IntOf(5)
           source == heap[this.Stack[element + 1]]
           dest == this.Stack[destElement + 1]
           room(array, from) == /\ InRange(length, 0 .. Len(array))
                                /\ InRange(from, 0 .. Len(array))
                                /\ from + length <= Len(array)
           bytes == Overwritten(heap[dest], destBegin, source, begin, length)
           checks == /\ Enough(5) /\ InRange(element, 0 .. depth - 6)
                     /\ room(source, begin)
           more == destElement \in 0 .. depth - 6 /\ room(heap[dest], destBegin)
<1>1. /\ Fetches({"COPY"})
      /\ \/ /\ checks /\ more /\ Become([Fetched EXCEPT !.Stack = Without(5)])
            /\ heap' = [heap EXCEPT ![dest] = bytes]
         \/ Crash
         \/ Throw(TRUE)
  BY DEF Copy
<1>2. frames # << >>
  BY <1>1, Fetching
<1>3. ASSUME checks, more
      PROVE  5 \in 0 .. depth /\ dest \in Held /\ bytes \in ByteArray
  <2>1. /\ depth \in Nat /\ 5 \in 0 .. depth
        /\ element \in 0 .. depth - 5 - 1 /\ destElement \in 0 .. depth - 5 - 1
        /\ length \in 0 .. Len(source) /\ begin \in 0 .. Len(source)
        /\ begin + length <= Len(source) /\ destBegin \in 0 .. Len(heap[dest])
    <3>1. depth \in Nat /\ 5 \in 0 .. depth /\ depth - 6 = depth - 5 - 1
      BY <1>2, <1>3, LastMachine, Taken
    <3>2. element \in 0 .. depth - 6 /\ destElement \in 0 .. depth - 6
      BY <1>3 DEF InRange
    <3>3. /\ length \in 0 .. Len(source) /\ begin \in 0 .. Len(source)
          /\ begin + length <= Len(source) /\ destBegin \in 0 .. Len(heap[dest])
      BY <1>3 DEF InRange
    <3> HIDE DEF checks, more, element, destElement, length, begin, destBegin, source, dest
    <3>4. QED
      BY <3>1, <3>2, <3>3
  <2> HIDE DEF element, destElement
  <2>2. source \in ByteArray /\ dest \in Held /\ heap[dest] \in ByteArray
    BY <1>2, <2>1, ElementType
  <2> HIDE DEF dest, source, begin, length, destBegin
  <2>3. length \in Nat /\ begin \in Nat /\ destBegin \in Int
    BY <2>1, <2>2 DEF ByteArray
  <2>4. QED
    BY <2>1, <2>2, <2>3, OverwrittenType
<1> HIDE DEF checks, more, bytes, dest
<1>4. QED
  BY <1>1, <1>3, WriteKept, CrashKept, ThrowKept

\* An element is put in the place of another.
LEMMA UpdateType ==
  ASSUME NEW S, NEW s \in Seq(S), NEW i, NEW x \in S
  PROVE  [s EXCEPT ![i] = x] \in Seq(S)
<1> DEFINE n == Len(s)
<1>1. n \in Nat /\ s \in [1 .. n -> S]
  OBVIOUS
<1>2. [s EXCEPT ![i] = x] \in [1 .. n -> S]
  BY <1>1
<1> HIDE DEF n
<1>3. \A f \in [1 .. n -> S] : f \in Seq(S)
  BY <1>1
<1>4. QED
  BY <1>2, <1>3

\* The instructions on elements by their place.
LEMMA MemoryKept ==
  ASSUME Sound, MemoryStep
  PROVE  Kept
<1>1. CASE Alloc
  <2> DEFINE checks == Enough(1) /\ AtLeast(1, IntBytes) /\ InRange(IntOf(1), 0 .. MaximumAllocation)
             bytes == [i \in 1 .. IntOf(1) |-> 0]
  <2>1. Instruction({"ALLOC"}, checks, Push(1, bytes))
    BY <1>1 DEF Alloc
  <2>2. ASSUME frames # << >>, checks
        PROVE  Enough(1) /\ bytes \in ByteArray
    <3>1. IntOf(1) \in Nat
      BY <2>2, ScriptAssumption DEF InRange
    <3>2. QED
      BY <2>2, <3>1, ByteType DEF ByteArray
  <2> HIDE DEF checks, bytes
  <2>3. QED
    BY <2>1, <2>2, Pushes
<1>2. CASE PushThis
  <2>1. frames # << >> /\ extended => Append(this.Stack, this.Script) \in Seq(Held)
    <3>1. frames # << >> /\ extended => this.Script \in Held /\ this.Stack \in Seq(Held)
      BY LastMachine, Operands DEF Held, Machines
    <3>2. QED
      BY <3>1
  <2>2. QED
    BY <1>2, <2>1, Arranges DEF PushThis
<1>3. CASE Pick
  <2> DEFINE n == Single(1)
             stack == Append(Without(1), this.Stack[n + 1])
  <2>1. /\ Fetches({"PICK"})
        /\ \/ Enough(2) /\ Exactly(1, 1) /\ depth - 1 >= n + 1 /\ ~(n < 0) /\ Arrange(stack)
           \/ Enough(2) /\ Halt(1, TRUE)
           \/ Throw(TRUE)
    BY <1>3 DEF Pick, Instruction
  <2>2. CASE Enough(2) /\ Exactly(1, 1) /\ depth - 1 >= n + 1 /\ ~(n < 0) /\ Arrange(stack)
    <3>1. frames # << >> /\ depth \in Nat /\ Enough(1)
      BY <2>1, <2>2, Fetching, LastMachine DEF Enough
    <3>2. n \in Int /\ Without(1) \in Seq(Held)
      BY <2>2, <3>1, SingleType, Taken
    <3> HIDE DEF n
    <3>3. n \in 0 .. depth - 1 - 1
      BY <2>2, <3>1, <3>2
    <3>4. this.Stack[n + 1] \in Held
      BY <3>1, <3>3, ElementType
    <3>5. stack \in Seq(Held)
      BY <3>2, <3>4
    <3>6. QED
      BY <2>1, <2>2, <3>5, ArrangeKept
  <2>3. Enough(2) => Enough(1)
    BY <2>1, Fetching, LastMachine DEF Enough
  <2>4. QED
    BY <2>1, <2>2, <2>3, HaltKept, ThrowKept
<1>4. CASE Put
  <2> DEFINE n == Single(1)
             stack == [Without(2) EXCEPT ![n + 1] = Ref(2)]
  <2>1. /\ Fetches({"PUT"})
        /\ (Enough(2) /\ Arrange(stack)) \/ (Enough(2) /\ Halt(2, TRUE)) \/ Throw(TRUE)
    BY <1>4 DEF Put, Instruction
  <2>2. CASE Enough(2) /\ Arrange(stack)
    <3>1. Without(2) \in Seq(Held) /\ Ref(2) \in Held
      BY <2>1, <2>2, Fetching, Taken
    <3>2. stack \in Seq(Held)
      BY <3>1, UpdateType
    <3> HIDE DEF stack
    <3>3. QED
      BY <2>1, <2>2, <3>2, ArrangeKept
  <2>3. QED
    BY <2>1, <2>2, HaltKept, ThrowKept
<1>5. QED
  BY <1>1, <1>2, <1>3, <1>4, GetKept, SetKept, CopyKept DEF MemoryStep

-----------------------------------------------------------------------------
(* Calculating                                                             *)

\* The number in an array of at least an int, and the width it has.
LEMMA NumericType ==
  ASSUME NEW bytes \in ByteArray, Len(bytes) >= IntBytes
  PROVE  Numeric(bytes) \in Int /\ Width(bytes) \in Nat \ {0}
<1>1. IntBytes \in Nat \ {0} /\ LongBytes \in Nat \ {0} /\ Len(bytes) \in Nat
  BY WidthAssumption DEF ByteArray
<1>2. Width(bytes) \in Nat \ {0} /\ Width(bytes) <= Len(bytes)
  BY <1>1 DEF Width
<1>3. Number(bytes, Width(bytes)) \in Int
  BY <1>2, NumberType
<1>4. QED
  BY <1>2, <1>3 DEF Numeric

\* Java's division of numbers.
LEMMA QuotientType ==
  ASSUME NEW x \in Int, NEW y \in Int, y # 0
  PROVE  Quotient(x, y) \in Int /\ Remainder(x, y) \in Int
<1>1. Abs(x) \in Nat /\ Abs(y) \in Nat \ {0}
  BY DEF Abs
<1>2. Abs(x) \div Abs(y) \in Int
  BY <1>1
<1>3. Quotient(x, y) \in Int
  BY <1>2 DEF Quotient
<1>4. QED
  BY <1>3 DEF Remainder

\* A number that was calculated is written in so many bytes.
LEMMA WrittenType ==
  ASSUME NEW number \in Int, NEW n \in Nat \ {0}
  PROVE  ToBytes(Narrow(number, n), n) \in ByteArray
BY NarrowType, ToBytesType

\* The instructions that calculate with numbers.
LEMMA CalculationsKept ==
  ASSUME Sound, Add \/ Subtract \/ Multiply \/ Divide \/ Modulo
  PROVE  Kept
<1> DEFINE x == Numeric(Operand(2))
           y == Numeric(Operand(1))
           width == IF Width(Operand(1)) > Width(Operand(2)) THEN Width(Operand(1))
                    ELSE Width(Operand(2))
           checks == Enough(2) /\ AtLeast(1, IntBytes) /\ AtLeast(2, IntBytes)
<1>1. ASSUME frames # << >>, checks
      PROVE  x \in Int /\ y \in Int /\ width \in Nat \ {0} /\ 2 \in 0 .. depth
  <2>1. Enough(1) /\ 2 \in 0 .. depth
    BY <1>1, LastMachine, Taken DEF Enough
  <2>2. Operand(1) \in ByteArray /\ Operand(2) \in ByteArray
    BY <1>1, <2>1, Taken
  <2>3. Len(Operand(1)) >= IntBytes /\ Len(Operand(2)) >= IntBytes
    BY <1>1 DEF AtLeast
  <2>4. /\ x \in Int /\ y \in Int
        /\ Width(Operand(1)) \in Nat \ {0} /\ Width(Operand(2)) \in Nat \ {0}
    BY <2>2, <2>3, NumericType
  <2>5. QED
    BY <2>1, <2>4
<1> HIDE DEF x, y, width, checks
<1>2. ASSUME NEW operators, NEW number, Fetches(operators),
             \/ checks /\ Halt(2, TRUE)
             \/ checks /\ number \in Int /\ Push(2, ToBytes(Narrow(number, width), width))
             \/ Throw(TRUE)
      PROVE  Kept
  <2>1. CASE checks /\ number \in Int /\ Push(2, ToBytes(Narrow(number, width), width))
    <3>1. 2 \in 0 .. depth /\ width \in Nat \ {0}
      BY <1>1, <1>2, <2>1, Fetching
    <3>2. ToBytes(Narrow(number, width), width) \in ByteArray
      BY <2>1, <3>1, WrittenType
    <3>3. QED
      BY <1>2, <2>1, <3>1, <3>2, PushKept
  <2>2. CASE checks /\ Halt(2, TRUE)
    <3>1. Enough(2)
      BY <2>2 DEF checks
    <3>2. QED
      BY <1>2, <2>2, <3>1, HaltKept
  <2>3. QED
    BY <1>2, <2>1, <2>2, ThrowKept
<1>3. CASE Add
  <2>1. /\ Fetches({"ADD"})
        /\ \/ checks /\ Halt(2, TRUE)
           \/ checks /\ Push(2, ToBytes(Narrow(x + y, width), width))
           \/ Throw(TRUE)
    BY <1>3 DEF Add, Calculation, Instruction, Plus, checks, x, y, width
  <2>2. checks => x + y \in Int
    BY <1>1, <2>1, Fetching
  <2>3. QED
    BY <1>2, <2>1, <2>2
<1>4. CASE Subtract
  <2>1. /\ Fetches({"SUBTRACT"})
        /\ \/ checks /\ Halt(2, TRUE)
           \/ checks /\ Push(2, ToBytes(Narrow(x - y, width), width))
           \/ Throw(TRUE)
    BY <1>4 DEF Subtract, Calculation, Instruction, Minus, checks, x, y, width
  <2>2. checks => x - y \in Int
    BY <1>1, <2>1, Fetching
  <2>3. QED
    BY <1>2, <2>1, <2>2
<1>5. CASE Multiply
  <2>1. /\ Fetches({"MULTIPLY"})
        /\ \/ checks /\ Halt(2, TRUE)
           \/ checks /\ Push(2, ToBytes(Narrow(x * y, width), width))
           \/ Throw(TRUE)
    BY <1>5 DEF Multiply, Calculation, Instruction, Times, checks, x, y, width
  <2>2. checks => x * y \in Int
    BY <1>1, <2>1, Fetching
  <2>3. QED
    BY <1>2, <2>1, <2>2
<1>6. CASE Divide
  <2>1. /\ Fetches({"DIVIDE"})
        /\ \/ checks /\ Halt(2, TRUE)
           \/ checks /\ y # 0 /\ Push(2, ToBytes(Narrow(Quotient(x, y), width), width))
           \/ Throw(TRUE)
    BY <1>6 DEF Divide, Calculation, Instruction, Fetches, operator, checks, x, y, width
  <2>2. checks /\ y # 0 => Quotient(x, y) \in Int
    BY <1>1, <2>1, Fetching, QuotientType
  <2>3. QED
    BY <1>2, <2>1, <2>2
<1>7. CASE Modulo
  <2>1. /\ Fetches({"MODULO"})
        /\ \/ checks /\ Halt(2, TRUE)
           \/ checks /\ y # 0 /\ Push(2, ToBytes(Narrow(Remainder(x, y), width), width))
           \/ Throw(TRUE)
    BY <1>7 DEF Modulo, Calculation, Instruction, Fetches, operator, checks, x, y, width
  <2>2. checks /\ y # 0 => Remainder(x, y) \in Int
    BY <1>1, <2>1, Fetching, QuotientType
  <2>3. QED
    BY <1>2, <2>1, <2>2
<1>8. QED
  BY <1>3, <1>4, <1>5, <1>6, <1>7

\* The instructions that write a number in another width.
LEMMA ConversionsKept ==
  ASSUME Sound,
         Absolute \/ Negate \/ Convert8To32 \/ Convert32To8 \/ Convert64To32 \/ Convert32To64
  PROVE  Kept
<1> DEFINE x == Numeric(Operand(1))
           width == Width(Operand(1))
           checks == Enough(1) /\ AtLeast(1, IntBytes)
<1>1. IntBytes \in Nat \ {0} /\ LongBytes \in Nat \ {0} /\ 1 \in Nat \ {0}
  BY WidthAssumption
<1>2. CASE Absolute \/ Negate
  <2>1. ASSUME frames # << >>, checks
        PROVE  x \in Int /\ width \in Nat \ {0} /\ Enough(1)
    BY <2>1, Taken, NumericType DEF AtLeast
  <2> HIDE DEF x, width, checks
  <2>2. \/ Instruction({"ABS"}, checks, Push(1, ToBytes(Narrow(Abs(x), width), width)))
        \/ Instruction({"NEGATE"}, checks, Push(1, ToBytes(Narrow(-x, width), width)))
    BY <1>2 DEF Absolute, Negate, OfOneNumber, checks, x, width
  <2>3. ASSUME frames # << >>, checks
        PROVE  /\ ToBytes(Narrow(Abs(x), width), width) \in ByteArray
               /\ ToBytes(Narrow(-x, width), width) \in ByteArray
    <3>1. Abs(x) \in Int /\ -x \in Int
      BY <2>1, <2>3 DEF Abs
    <3>2. QED
      BY <2>1, <2>3, <3>1, WrittenType
  <2>4. QED
    BY <2>1, <2>2, <2>3, Pushes
<1>3. ASSUME NEW op, NEW n, NEW bytes, Convert(op, n, bytes),
             frames # << >> /\ Enough(1) /\ AtLeast(1, n) => bytes \in ByteArray
      PROVE  Kept
  BY <1>3, Pushes DEF Convert
<1>4. CASE Convert8To32
  <2>1. frames # << >> /\ Enough(1) /\ AtLeast(1, 1) => ToBytes(Single(1), IntBytes) \in ByteArray
    BY <1>1, SingleType, ToBytesType
  <2>2. QED
    BY <1>3, <1>4, <2>1 DEF Convert8To32
<1>5. CASE Convert32To8
  <2>1. frames # << >> /\ Enough(1) /\ AtLeast(1, IntBytes) => <<Narrow(IntOf(1), 1)>> \in ByteArray
    <3>1. frames # << >> /\ Enough(1) /\ AtLeast(1, IntBytes) => Narrow(IntOf(1), 1) \in Byte
      BY <1>1, IntOfType, NarrowByte
    <3>2. QED
      BY <3>1 DEF ByteArray
  <2>2. QED
    BY <1>3, <1>5, <2>1 DEF Convert32To8
<1>6. CASE Convert64To32
  <2> DEFINE long == Number(Operand(1), LongBytes)
  <2>1. ASSUME frames # << >>, Enough(1), AtLeast(1, LongBytes)
        PROVE  ToBytes(Narrow(long, IntBytes), IntBytes) \in ByteArray
    <3>1. Operand(1) \in ByteArray /\ LongBytes <= Len(Operand(1))
      BY <1>1, <2>1, Taken DEF AtLeast, ByteArray
    <3>2. long \in Int
      BY <1>1, <3>1, NumberType
    <3> HIDE DEF long
    <3>3. QED
      BY <1>1, <3>2, WrittenType
  <2>2. QED
    BY <1>3, <1>6, <2>1 DEF Convert64To32
<1>7. CASE Convert32To64
  <2>1. frames # << >> /\ Enough(1) /\ AtLeast(1, IntBytes) => ToBytes(IntOf(1), LongBytes) \in ByteArray
    BY <1>1, IntOfType, ToBytesType
  <2>2. QED
    BY <1>3, <1>7, <2>1 DEF Convert32To64
<1>8. QED
  BY <1>2, <1>4, <1>5, <1>6, <1>7

-----------------------------------------------------------------------------
(* Bytes one by one                                                        *)

\* An array is what has bytes at the places of another.
LEMMA SameLength ==
  ASSUME NEW A \in ByteArray, NEW result, result = [i \in DOMAIN A |-> result[i]],
         \A i \in DOMAIN A : result[i] \in Byte
  PROVE  result \in ByteArray
<1>1. A \in Seq(Byte) /\ DOMAIN A = 1 .. Len(A) /\ Len(A) \in Nat
  BY DEF ByteArray
<1>2. result \in [1 .. Len(A) -> Byte]
  BY <1>1
<1> DEFINE n == Len(A)
<1> HIDE DEF n
<1>3. \A f \in [1 .. n -> Byte] : f \in Seq(Byte)
  BY <1>1 DEF n
<1>4. QED
  BY <1>2, <1>3 DEF ByteArray, n

\* The instructions on the bytes of arrays.
LEMMA BytesKept ==
  ASSUME Sound, CalculateBytes \/ DivideBytes \/ BitNot \/ Negation \/ Logic
  PROVE  Kept
<1> DEFINE A == Operand(2)
           B == Operand(1)
<1>1. ASSUME frames # << >>, Enough(2)
      PROVE  /\ A \in ByteArray /\ B \in ByteArray /\ 2 \in 0 .. depth
             /\ \A i \in DOMAIN A : A[i] \in Byte /\ A[i] \in Int
             /\ \A i \in DOMAIN A : ~(i > Len(B)) => B[i] \in Int /\ i \in DOMAIN B
  <2>1. Enough(1) /\ 2 \in 0 .. depth
    BY <1>1, LastMachine, Taken DEF Enough
  <2>2. A \in ByteArray /\ B \in ByteArray
    BY <1>1, <2>1, Taken
  <2> HIDE DEF A, B
  <2>3. \A i \in DOMAIN A : A[i] \in Byte
    BY <2>2 DEF ByteArray
  <2>4. \A i \in DOMAIN B : B[i] \in Byte
    BY <2>2 DEF ByteArray
  <2>5. \A i \in DOMAIN A : ~(i > Len(B)) => i \in DOMAIN B
    BY <2>2 DEF ByteArray
  <2>6. \A z \in Byte : z \in Int
    BY ByteType
  <2>7. QED
    BY <2>1, <2>2, <2>3, <2>4, <2>5, <2>6
<1>2. CASE CalculateBytes
  <2> DEFINE plus  == [i \in DOMAIN A |-> IF i > Len(B) THEN A[i] ELSE Narrow(A[i] + B[i], 1)]
             minus == [i \in DOMAIN A |-> IF i > Len(B) THEN A[i] ELSE Narrow(A[i] - B[i], 1)]
             times == [i \in DOMAIN A |-> IF i > Len(B) THEN A[i] ELSE Narrow(A[i] * B[i], 1)]
             operators == {"ADDBYTES", "SUBTRACTBYTES", "MULTIPLYBYTES"}
  <2>1. ASSUME frames # << >>, Enough(2)
        PROVE  plus \in ByteArray /\ minus \in ByteArray /\ times \in ByteArray
    <3> HIDE DEF A, B
    <3>1. ASSUME NEW i \in DOMAIN A, ~(i > Len(B))
          PROVE  /\ Narrow(A[i] + B[i], 1) \in Byte /\ Narrow(A[i] - B[i], 1) \in Byte
                 /\ Narrow(A[i] * B[i], 1) \in Byte
      BY <1>1, <2>1, <3>1, NarrowByte
    <3>2. plus \in ByteArray
      BY <1>1, <2>1, <3>1, SameLength
    <3>3. minus \in ByteArray
      BY <1>1, <2>1, <3>1, SameLength
    <3>4. times \in ByteArray
      BY <1>1, <2>1, <3>1, SameLength
    <3>5. QED
      BY <3>2, <3>3, <3>4
  <2> DEFINE result == CASE operator = "ADDBYTES"      -> plus
                         [] operator = "SUBTRACTBYTES" -> minus
                         [] operator = "MULTIPLYBYTES" -> times
  <2>2. Instruction(operators, Enough(2), Push(2, result))
    BY <1>2, Zenon DEF CalculateBytes, ByteByByte, Plus, Minus, Times
  <2> HIDE DEF plus, minus, times
  <2>3. Fetches(operators) => operator \in operators
    BY DEF Fetches, operator
  <2>4. Fetches(operators) /\ Enough(2) => result \in ByteArray
    BY <2>1, <2>3, Fetching
  <2>5. Fetches(operators) /\ ((Enough(2) /\ Push(2, result)) \/ Throw(TRUE))
    BY <2>2 DEF Instruction
  <2> HIDE DEF result, operators
  <2>6. Enough(2) => 2 \in 0 .. depth
    BY <1>1, <2>5, Fetching
  <2>7. QED
    BY <2>4, <2>5, <2>6, PushKept, ThrowKept
<1>3. CASE DivideBytes
  <2> DEFINE over == [i \in DOMAIN A |->
                        IF i > Len(B) THEN A[i] ELSE Narrow(Quotient(A[i], B[i]), 1)]
             checks == Enough(2) /\ ~ \E i \in DOMAIN A \cap DOMAIN B : B[i] = 0
  <2>1. /\ Fetches({"DIVIDEBYTES"})
        /\ (checks /\ Push(2, over)) \/ (Enough(2) /\ Halt(2, TRUE)) \/ Throw(TRUE)
    BY <1>3 DEF DivideBytes, Instruction, ByteByByte
  <2>2. ASSUME frames # << >>, checks
        PROVE  over \in ByteArray
    <3> HIDE DEF A, B
    <3>1. ASSUME NEW i \in DOMAIN A, ~(i > Len(B))
          PROVE  Narrow(Quotient(A[i], B[i]), 1) \in Byte
      <4>1. A[i] \in Int /\ B[i] \in Int /\ B[i] # 0
        BY <1>1, <2>2, <3>1
      <4>2. Quotient(A[i], B[i]) \in Int
        BY <4>1, QuotientType
      <4>3. QED
        BY <4>2, NarrowByte
    <3>2. QED
      BY <1>1, <2>2, <3>1, SameLength
  <2>3. checks => Enough(2)
    OBVIOUS
  <2> HIDE DEF over, checks
  <2>4. QED
    BY <1>1, <2>1, <2>2, <2>3, Fetching, PushKept, HaltKept, ThrowKept
<1>4. CASE BitNot \/ Negation
  <2> DEFINE not  == [i \in DOMAIN B |-> -1 - B[i]]
             zero == [i \in DOMAIN B |-> IF B[i] = 0 THEN 1 ELSE 0]
  <2>1. \/ Instruction({"BITNOT"}, Enough(1), Push(1, not))
        \/ Instruction({"NOT"}, Enough(1), Push(1, zero))
    BY <1>4 DEF BitNot, Negation
  <2>2. ASSUME frames # << >>, Enough(1)
        PROVE  not \in ByteArray /\ zero \in ByteArray
    <3>1. B \in ByteArray
      BY <2>2, Taken
    <3> HIDE DEF B
    <3>2. \A i \in DOMAIN B : B[i] \in Byte
      BY <3>1 DEF ByteArray
    <3>3. Half(1) \in Int
      BY Halves
    <3>4. \A z \in Byte : -1 - z \in Byte
      BY <3>3 DEF Byte
    <3>5. 0 \in Byte /\ 1 \in Byte
      BY ByteType
    <3>6. not \in ByteArray
      BY <3>1, <3>2, <3>4, SameLength
    <3>7. zero \in ByteArray
      BY <3>1, <3>5, SameLength
    <3>8. QED
      BY <3>6, <3>7
  <2> HIDE DEF not, zero
  <2>3. QED
    BY <2>1, <2>2, Pushes
<1>5. CASE Logic
  <2> DEFINE holds(x, y) == CASE operator = "OR"  -> x = 1 \/ y = 1
                              [] operator = "AND" -> x = 1 /\ y = 1
                              [] operator = "XOR" -> (x = 1) # (y = 1)
             bit(i)    == IF holds(A[i], B[i]) THEN 1 ELSE 0
             beyond(x) == IF operator = "AND" THEN 0 ELSE x
             result == [i \in DOMAIN A |->
                          IF i > Len(B) THEN beyond(A[i]) ELSE Narrow(bit(i), 1)]
             operators == {"OR", "AND", "XOR"}
  <2>1. Instruction(operators, Enough(2), Push(2, result))
    BY <1>5, Zenon DEF Logic, ByteByByte
  <2>2. ASSUME frames # << >>, Enough(2)
        PROVE  result \in ByteArray
    <3> HIDE DEF A, B, holds
    <3>1. \A i \in DOMAIN A : bit(i) \in Int
      OBVIOUS
    <3> HIDE DEF bit
    <3>2. \A i \in DOMAIN A : Narrow(bit(i), 1) \in Byte
      BY <3>1, NarrowByte
    <3>3. \A i \in DOMAIN A : beyond(A[i]) \in Byte
      BY <1>1, <2>2, ByteType
    <3> HIDE DEF beyond
    <3>4. QED
      BY <1>1, <2>2, <3>2, <3>3, SameLength
  <2> HIDE DEF result, operators
  <2>3. QED
    BY <2>1, <2>2, Pushes
<1>6. QED
  BY <1>2, <1>3, <1>4, <1>5

\* Bits combined are a byte.
LEMMA BitsKept ==
  ASSUME Sound, BitCombine
  PROVE  Kept
<1> DEFINE A == Operand(2)
           B == Operand(1)
           combine(x, y) == CASE operator = "BITOR"  -> BitOr(x, y)
                              [] operator = "BITAND" -> BitAnd(x, y)
                              [] operator = "BITXOR" -> BitXor(x, y)
           bits(x, y) == [j \in 0 .. ByteBits - 1 |-> (2 ^ j) * combine(Bit(x, j), Bit(y, j))]
           result == [i \in DOMAIN A |-> Narrow(SumFunction(bits(A[i], B[i])), 1)]
           operators == {"BITOR", "BITAND", "BITXOR"}
<1>1. /\ Fetches(operators)
      /\ \/ Enough(2) /\ Len(A) = Len(B) /\ Push(2, result)
         \/ Enough(2) /\ Halt(2, FALSE)
         \/ Throw(TRUE)
  BY DEF BitCombine, Instruction, BitByBit
<1>2. operator \in operators /\ frames # << >>
  BY <1>1, Fetching DEF Fetches, operator
<1>3. \A x, y \in Int : combine(x, y) \in Int
  BY <1>2 DEF BitOr, BitAnd, BitXor
<1> HIDE DEF combine, operators
<1>4. ASSUME NEW x \in Int, NEW y \in Int
      PROVE  SumFunction(bits(x, y)) \in Int
  <2>1. Radix(1) \in Nat \ {0}
    BY Halves
  <2>2. ASSUME NEW j \in 0 .. ByteBits - 1
        PROVE  (2 ^ j) * combine(Bit(x, j), Bit(y, j)) \in Int
    <3>1. 2 ^ j \in Nat \ {0}
      BY Powers, WidthAssumption
    <3>2. Unsigned(x) \in Int /\ Unsigned(y) \in Int
      BY <2>1 DEF Unsigned
    <3>3. Bit(x, j) \in Int /\ Bit(y, j) \in Int
      BY <3>1, <3>2 DEF Bit
    <3>4. combine(Bit(x, j), Bit(y, j)) \in Int
      BY <1>3, <3>3
    <3>5. QED
      BY <3>1, <3>4
  <2> DEFINE f == bits(x, y)
  <2>3. DOMAIN f = 0 .. ByteBits - 1 /\ \A j \in DOMAIN f : f[j] \in Int
    BY <2>2
  <2> HIDE DEF f
  <2>4. IsFiniteSet(DOMAIN f)
    BY <2>3, FS_Interval, WidthAssumption
  <2>5. SumFunction(f) \in Int
    BY <2>3, <2>4, SumType
  <2>6. QED
    BY <2>5 DEF f
<1> HIDE DEF bits
<1>5. ASSUME Enough(2), Len(A) = Len(B)
      PROVE  2 \in 0 .. depth /\ result \in ByteArray
  <2>1. Enough(1) /\ 2 \in 0 .. depth
    BY <1>2, <1>5, LastMachine, Taken DEF Enough
  <2>2. A \in ByteArray /\ B \in ByteArray
    BY <1>2, <1>5, <2>1, Taken
  <2> HIDE DEF A, B
  <2>3. \A z \in Byte : z \in Int
    BY ByteType
  <2>4. \A i \in DOMAIN A : A[i] \in Int /\ B[i] \in Int
    BY <1>5, <2>2, <2>3 DEF ByteArray
  <2>5. \A i \in DOMAIN A : Narrow(SumFunction(bits(A[i], B[i])), 1) \in Byte
    BY <1>4, <2>4, NarrowByte
  <2>6. result \in ByteArray
    BY <2>2, <2>5, SameLength
  <2>7. QED
    BY <2>1, <2>6
<1> HIDE DEF result
<1>6. QED
  BY <1>1, <1>5, PushKept, HaltKept, ThrowKept

\* All that calculates.
LEMMA CalculatesKept ==
  ASSUME Sound, CalculateStep
  PROVE  Kept
BY CalculationsKept, ConversionsKept, BytesKept, BitsKept DEF CalculateStep

-----------------------------------------------------------------------------
(* Arrays                                                                  *)

\* What SHA512 makes of an array is an array.
DigestsAreBytes == \A bytes \in ByteArray : Digest(bytes) \in ByteArray

\* Operands joined.
LEMMA CombineKept ==
  ASSUME Sound, Combine
  PROVE  Kept
<1> DEFINE n == Count(Single(1))
           arrays == [i \in 1 .. n |-> Operand(2 + n - i)]
           bytes == FoldLeft(Joined, << >>, arrays)
           checks == Enough(2) /\ Exactly(1, 1) /\ depth - 1 >= n
<1>1. Fetches({"COMBINE"}) /\ ((checks /\ Push(1 + n, bytes)) \/ Throw(TRUE))
  BY DEF Combine, Instruction
<1>2. ASSUME checks
      PROVE  1 + n \in 0 .. depth /\ bytes \in ByteArray
  <2>1. frames # << >> /\ depth \in Nat /\ Enough(1)
    BY <1>1, <1>2, Fetching, LastMachine DEF Enough
  <2>2. n \in Nat
    BY <1>2, <2>1, SingleType
  <2> HIDE DEF n
  <2>3. \A i \in 1 .. n : 2 + n - i \in Nat \ {0} /\ Enough(2 + n - i)
    BY <1>2, <2>1, <2>2 DEF Enough
  <2>4. \A i \in 1 .. n : Operand(2 + n - i) \in ByteArray
    BY <2>1, <2>3, Taken
  <2>5. arrays \in Seq(ByteArray)
    BY <2>2, <2>4
  <2> HIDE DEF arrays
  <2>6. bytes \in ByteArray
    BY <2>5, JoinType
  <2>7. QED
    BY <1>2, <2>1, <2>2, <2>6
<1> HIDE DEF n, checks, bytes
<1>3. QED
  BY <1>1, <1>2, PushKept, ThrowKept

\* The instructions that make arrays of arrays.
LEMMA ArraysKept ==
  ASSUME DigestsAreBytes, Sound, ArrayStep
  PROVE  Kept
<1> DEFINE bytes == Operand(1)
<1>1. ASSUME frames # << >>, Enough(1)
      PROVE  /\ bytes \in ByteArray /\ bytes \in Seq(Byte) /\ Len(bytes) \in Nat
             /\ DOMAIN bytes = 1 .. Len(bytes) /\ 1 \in 0 .. depth
             /\ \A i \in DOMAIN bytes : bytes[i] \in Byte
  <2>1. bytes \in ByteArray /\ 1 \in 0 .. depth
    BY <1>1, Taken
  <2>2. QED
    BY <2>1 DEF ByteArray
<1>2. ASSUME frames # << >>, Enough(2)
      PROVE  Enough(1) /\ Operand(2) \in Seq(Byte) /\ Operand(2) \in ByteArray /\ 2 \in 0 .. depth
  <2>1. Enough(1) /\ 2 \in 0 .. depth
    BY <1>2, LastMachine, Taken DEF Enough
  <2>2. QED
    BY <1>2, <2>1, Taken DEF ByteArray
<1> HIDE DEF bytes
<1>3. CASE Concatenate
  <2>1. frames # << >> /\ Enough(2) => Operand(2) \o bytes \in ByteArray
    BY <1>1, <1>2 DEF ByteArray
  <2>2. QED
    BY <1>3, <2>1, Pushes DEF Concatenate, bytes
<1>4. CASE ReverseArray
  <2>1. frames # << >> /\ Enough(1) => Reverse(bytes) \in ByteArray
    BY <1>1, ReverseType DEF ByteArray
  <2>2. QED
    BY <1>4, <2>1, Pushes DEF ReverseArray, bytes
<1>5. CASE Limit
  <2> DEFINE n == IF Single(1) < 0 THEN 0
                  ELSE IF Single(1) > Len(Operand(2)) THEN Len(Operand(2)) ELSE Single(1)
             first == SubSeq(Operand(2), 1, n)
             checks == Enough(2) /\ Exactly(1, 1)
  <2>1. Instruction({"LIMIT"}, checks, Push(2, first))
    BY <1>5 DEF Limit
  <2>2. ASSUME frames # << >>, checks
        PROVE  Enough(2) /\ first \in ByteArray
    <3>1. Single(1) \in Int /\ Operand(2) \in Seq(Byte) /\ Len(Operand(2)) \in Nat
      BY <1>2, <2>2, SingleType
    <3>2. n \in Int /\ n <= Len(Operand(2))
      BY <3>1
    <3> HIDE DEF n
    <3>3. QED
      BY <2>2, <3>1, <3>2, SubSeqType DEF ByteArray
  <2> HIDE DEF first, checks
  <2>3. QED
    BY <2>1, <2>2, Pushes
<1>6. CASE Split
  <2> DEFINE arrays == [i \in DOMAIN bytes |-> <<bytes[i]>>]
  <2>1. Fetches({"SPLIT"}) /\ ((Enough(1) /\ PushAll(1, arrays)) \/ Throw(TRUE))
    BY <1>6 DEF Split, Instruction, bytes
  <2>2. frames # << >>
    BY <2>1, Fetching
  <2>3. ASSUME Enough(1)
        PROVE  1 \in 0 .. depth /\ arrays \in Seq(ByteArray)
    <3>1. \A i \in DOMAIN bytes : <<bytes[i]>> \in ByteArray
      BY <1>1, <2>2, <2>3 DEF ByteArray
    <3>2. QED
      BY <1>1, <2>2, <2>3, <3>1
  <2> HIDE DEF arrays
  <2>4. QED
    BY <2>1, <2>3, PushAllKept, ThrowKept
<1>7. CASE Length
  <2>1. frames # << >> /\ Enough(1) => ToBytes(Len(bytes), IntBytes) \in ByteArray
    BY <1>1, ToBytesType, WidthAssumption
  <2>2. frames # << >> => Enough(0)
    BY Taken
  <2>3. QED
    BY <1>7, <2>1, <2>2, Pushes DEF Length, bytes
<1>8. CASE ShiftElements
  <2> DEFINE by == IF operator = "SHIFTELEMENTSRIGHT" THEN 1 ELSE -1
             operators == {"SHIFTELEMENTSRIGHT", "SHIFTELEMENTSLEFT"}
  <2>1. Instruction(operators, Enough(1), Push(1, Rotate(bytes, by)))
    BY <1>8, Zenon DEF ShiftElements, bytes
  <2>2. by \in Int
    OBVIOUS
  <2> HIDE DEF by, operators
  <2>3. frames # << >> /\ Enough(1) => Rotate(bytes, by) \in ByteArray
    BY <1>1, <2>2, RotateType DEF ByteArray
  <2>4. QED
    BY <2>1, <2>3, Pushes
<1>9. CASE HashTop
  <2>1. frames # << >> /\ Enough(1) => Digest(bytes) \in ByteArray
    BY <1>1 DEF DigestsAreBytes
  <2>2. QED
    BY <1>9, <2>1, Pushes DEF HashTop, bytes
<1>10. ASSUME NEW op, NEW k \in Nat, Transform(op, k)
       PROVE  Kept
  <2>1. Fetches({op}) /\ ((Enough(k) /\ \E blob \in Blobs : Push(k, blob)) \/ Throw(TRUE))
    BY <1>10 DEF Transform, Instruction
  <2>2. ASSUME Enough(k), NEW blob \in Blobs, Push(k, blob)
        PROVE  Kept
    <3>1. k \in 0 .. depth /\ blob \in ByteArray
      BY <2>1, <2>2, Fetching, Taken, ScriptAssumption
    <3>2. QED
      BY <2>1, <2>2, <3>1, PushKept
  <2>3. QED
    BY <2>1, <2>2, ThrowKept
<1>11. CASE Compress \/ Encrypt \/ Decrypt
  <2>1. CASE Fetches({"DECRYPTAES"}) /\ Enough(2) /\ Halt(2, TRUE)
    BY <2>1, HaltKept
  <2>2. QED
    BY <1>10, <1>11, <2>1 DEF Compress, Encrypt, Decrypt
<1>12. CASE Decompress
  <2>1. /\ Fetches({"UNZIP"})
        /\ \/ Enough(1) /\ \E blob \in Blobs \cup {<< >>} : Push(1, blob)
           \/ (Enough(1) /\ Halt(1, TRUE)) \/ Crash \/ Throw(TRUE)
    BY <1>12 DEF Decompress, Instruction
  <2>2. ASSUME Enough(1), NEW blob \in Blobs \cup {<< >>}, Push(1, blob)
        PROVE  Kept
    <3>1. << >> \in ByteArray
      BY DEF ByteArray
    <3>2. 1 \in 0 .. depth /\ blob \in ByteArray
      BY <2>1, <2>2, <3>1, Fetching, Taken, ScriptAssumption
    <3>3. QED
      BY <2>1, <2>2, <3>2, PushKept
  <2>3. QED
    BY <2>1, <2>2, HaltKept, CrashKept, ThrowKept
<1>13. QED
  BY <1>3, <1>4, <1>5, <1>6, <1>7, <1>8, <1>9, <1>11, <1>12, CombineKept DEF ArrayStep

-----------------------------------------------------------------------------
(* Verdicts                                                                *)

\* The keys and signatures are operands.
LEMMA MultisigTypes ==
  ASSUME Sound, running, MultisigOperands, Enough(MultisigNumber)
  PROVE  /\ MultisigKeys \in Seq(Held) /\ MultisigSignatures \in Seq(Held)
         /\ MultisigPopped \in Nat /\ Enough(MultisigPopped)
<1>1. /\ frames # << >> /\ depth \in Nat /\ this.Stack \in Seq(Held) /\ depth = Len(this.Stack)
  BY Operands, LastMachine DEF running
<1>2. /\ Enough(1) /\ Exactly(1, 1) /\ depth - 1 >= Single(1) + 1
      /\ Exactly(MultisigNumber, 1) /\ depth - MultisigNumber >= Single(MultisigNumber)
  BY DEF MultisigOperands
<1>3. Single(1) \in Int /\ Count(Single(1)) \in Nat
  BY <1>1, <1>2, SingleType
<1>4. MultisigKeys \in Seq(Held)
  <2>1. Count(Single(1)) <= depth - 1
    BY <1>1, <1>2, <1>3 DEF Count, Enough
  <2>2. depth - Count(Single(1)) \in Int /\ depth - Count(Single(1)) >= 1
        /\ depth - 1 \in Int /\ depth - 1 <= depth
    BY <1>1, <1>3, <2>1
  <2>3. Uppermost(Single(1)) \in Seq(Held)
    BY <1>1, <2>2, SubSeqType DEF Uppermost
  <2>4. QED
    BY <2>3, ReverseType DEF MultisigKeys
<1>5. MultisigNumber \in Nat \ {0}
  BY <1>4 DEF MultisigNumber
<1>6. /\ MultisigSignatures \in Seq(Held)
      /\ MultisigPopped \in Nat /\ Enough(MultisigPopped)
  <2> DEFINE m == MultisigNumber
             s == Single(MultisigNumber)
  <2>1. s \in Int /\ Count(s) \in Nat
    BY <1>1, <1>2, <1>5, SingleType
  <2>2. m <= depth
    BY <1>1, <1>5 DEF Enough
  <2> HIDE DEF m, s
  <2>3. m \in Nat /\ depth - m >= s
    BY <1>2, <1>5 DEF m, s
  <2>4. \A i \in 1 .. Count(s) : m + i \in 1 .. depth
    BY <1>1, <2>1, <2>2, <2>3 DEF Count
  <2>5. \A i \in 1 .. Count(s) : Ref(m + i) \in Held
    BY <1>1, <2>4, Operands
  <2>6. MultisigSignatures = [i \in 1 .. Count(s) |-> Ref(m + i)]
    BY DEF MultisigSignatures, m, s
  <2>7. MultisigPopped = m + Count(s)
    BY DEF MultisigPopped, m, s
  <2>8. m + Count(s) <= depth
    BY <1>1, <2>1, <2>2, <2>3 DEF Count
  <2>9. QED
    BY <2>1, <2>3, <2>5, <2>6, <2>7, <2>8 DEF Enough
<1>7. QED
  BY <1>4, <1>6

\* The instructions that may stop the machine.
LEMMA VerdictsKept ==
  ASSUME Sound, Verify \/ Return \/ ReturnIf \/ VerifySig \/ VerifyMultisig \/ Unhandled
  PROVE  Kept
<1>1. ASSUME NEW operators, Fetches(operators), Enough(1), Drops(1)
      PROVE  Kept
  BY <1>1, Fetching, Taken, DropsKept
<1>2. CASE Verify
  <2>1. /\ Fetches({"VERIFY"})
        /\ (Enough(1) /\ Drops(1)) \/ (Enough(1) /\ Halt(1, TRUE)) \/ Throw(TRUE)
    BY <1>2 DEF Verify, Instruction
  <2>2. QED
    BY <1>1, <2>1, HaltKept, ThrowKept
<1>3. CASE Return
  <2>1. Fetches({"RETURN"}) /\ (Halt(0, TRUE) \/ Throw(TRUE))
    BY <1>3 DEF Return, Instruction
  <2>2. QED
    BY <2>1, Fetching, Taken, HaltKept, ThrowKept
<1>4. CASE ReturnIf
  <2>1. /\ Fetches({"RETURNIF"})
        /\ (Enough(1) /\ Drops(1)) \/ (Enough(1) /\ Halt(1, TRUE)) \/ Throw(TRUE)
    BY <1>4 DEF ReturnIf, Instruction
  <2>2. QED
    BY <1>1, <2>1, HaltKept, ThrowKept
<1>5. CASE VerifySig
  <2> DEFINE failing == Answer(Operand(1), Operand(2)) # "yes"
  <2>1. failing \in BOOLEAN
    OBVIOUS
  <2>2. /\ Fetches({"VERIFYSIG"})
        /\ Halt(0, TRUE) \/ (Enough(2) /\ Halt(2, failing)) \/ Throw(TRUE)
    BY <1>5 DEF VerifySig, Instruction
  <2> HIDE DEF failing
  <2>3. QED
    BY <2>1, <2>2, Fetching, Taken, HaltKept, ThrowKept
<1>6. CASE VerifyMultisig
  <2> DEFINE failing == ~EnoughSignatures
             k == MultisigPopped
  <2>1. failing \in BOOLEAN
    OBVIOUS
  <2>2. /\ Fetches({"VERIFYMULTISIG"})
        /\ \/ Halt(0, TRUE) \/ Crash \/ Throw(TRUE)
           \/ MultisigOperands /\ Enough(MultisigNumber) /\ Halt(k, failing)
    BY <1>6 DEF VerifyMultisig, Instruction
  <2>3. MultisigOperands /\ Enough(MultisigNumber) => k \in Nat /\ Enough(k)
    BY <2>2, MultisigTypes DEF Fetches
  <2> HIDE DEF failing, k
  <2>4. QED
    BY <2>1, <2>2, <2>3, Fetching, Taken, HaltKept, CrashKept, ThrowKept
<1>7. CASE Unhandled
  BY <1>7, ThrowKept DEF Unhandled
<1>8. QED
  BY <1>2, <1>3, <1>4, <1>5, <1>6, <1>7

-----------------------------------------------------------------------------
(* Calls and jumps                                                         *)

\* CALL and its kin push a machine.
LEMMA CallKept ==
  ASSUME Sound, Call
  PROVE  Kept
<1> DEFINE n == Count(Single(2))
           m == [Fetched EXCEPT !.Stack = Without(2 + n)]
           given == SubSeq(this.Stack, depth - 1 - n, depth - 2)
           c == Machine(Ref(1), given, Fetched.Steps)
           checks == Enough(2) /\ Exactly(2, 1) /\ depth - 2 >= Single(2)
<1>1. /\ Fetches({"CALL"})
      /\ \/ checks /\ frames' = Front(frames) \o <<m, c>> /\ UNCHANGED <<heap, stage>>
         \/ Throw(TRUE)
  BY DEF Call, Instruction
<1>2. /\ frames # << >> /\ Fetched \in Machines /\ Fetched.Steps = executed'
      /\ Fetched.going /\ ~Fetched.bScriptFailed
  BY <1>1, Fetching
<1>3. CASE checks /\ frames' = Front(frames) \o <<m, c>> /\ UNCHANGED <<heap, stage>>
  <2>1. depth \in Nat /\ Enough(1) /\ this.Stack \in Seq(Held) /\ depth = Len(this.Stack)
    BY <1>2, <1>3, LastMachine, Operands DEF Enough
  <2>2. n \in Nat /\ Single(2) \in Int
    BY <1>2, <1>3, SingleType
  <2>3. n <= depth - 2
    BY <1>3, <2>1, <2>2 DEF Count, Enough
  <2> HIDE DEF n
  <2>4. Without(2 + n) \in Seq(Held)
    <3>1. 2 + n \in Nat /\ Enough(2 + n)
      BY <2>1, <2>2, <2>3 DEF Enough
    <3>2. QED
      BY <1>2, <3>1, Taken
  <2>5. given \in Seq(Held)
    <3>1. /\ depth - 1 - n \in Int /\ depth - 1 - n >= 1
          /\ depth - 2 \in Int /\ depth - 2 <= depth
      BY <2>1, <2>2, <2>3
    <3>2. QED
      BY <2>1, <3>1, SubSeqType
  <2> HIDE DEF given
  <2>6. Ref(1) \in 1 .. Len(heap)
    BY <1>2, <2>1, Taken DEF Held, Sound
  <2>7. /\ m \in Machines /\ m.Steps = executed' /\ m.going /\ ~m.bScriptFailed
        /\ m.InstructionCounter = Fetched.InstructionCounter
    BY <1>2, <2>4 DEF Machines
  <2>8. Fetched.Steps \in 0 .. MaximumStepsAllowed + 1
    BY <1>2 DEF Machines
  <2>9. /\ c \in Machines /\ c.Steps = executed' /\ c.going /\ ~c.bScriptFailed
        /\ c.InstructionCounter = 0
    BY <1>2, <2>5, <2>6, <2>8 DEF Machine, Machines
  <2>10. Place(m.InstructionCounter) /\ Onward(m.InstructionCounter)
    BY <1>1, <2>7, NextPlace
  <2> HIDE DEF m, c
  <2>11. CallsAnother
    BY <1>3, <2>7, <2>9, <2>10 DEF CallsAnother
  <2>12. QED
    BY <1>1, <2>11, OutcomeSound DEF Outcome
<1>4. QED
  BY <1>1, <1>3, ThrowKept

\* A sum that overflows is negative.
LEMMA NarrowSum ==
  ASSUME NEW n \in Nat \ {0}, NEW x \in 0 .. 2 * Half(n) - 1
  PROVE  Narrow(x, n) = x \/ Narrow(x, n) < 0
<1> DEFINE h == Half(n)
           m == 2 * h
<1>1. h \in Nat \ {0} /\ m \in Nat \ {0} /\ m = h + h /\ x \in 0 .. m - 1
  BY Halves
<1>2. Narrow(x, n) = ((x + h) % m) - h
  BY DEF Narrow
<1> HIDE DEF h, m
<1>3. \A k \in Nat \ {0} : \A y \in 0 .. k - 1 : y % k = y
  OBVIOUS
<1>4. \A k \in Nat \ {0} : \A y \in k .. k + k - 1 : y % k = y - k
  OBVIOUS
<1>5. CASE x + h <= m - 1
  <2>1. (x + h) % m = x + h
    BY <1>1, <1>3, <1>5
  <2>2. QED
    BY <1>1, <1>2, <2>1
<1>6. CASE x + h > m - 1
  <2>1. (x + h) % m = (x + h) - m
    BY <1>1, <1>4, <1>6
  <2>2. QED
    BY <1>1, <1>2, <2>1
<1>7. QED
  BY <1>1, <1>5, <1>6

\* The jumps.
LEMMA JumpsKept ==
  ASSUME Sound, Jump \/ JumpIf
  PROVE  Kept
<1> DEFINE counter == Narrow(Fetched.InstructionCounter + Destination - 1, IntBytes)
           h == Half(IntBytes)
<1>1. ASSUME NEW operators, Fetches(operators), NEW k \in 1 .. 2, Enough(k), AtLeast(1, 1),
             MayJump, Jumped(k)
      PROVE  Kept
  <2>1. /\ frames # << >> /\ Fetched \in Machines
        /\ this.InstructionCounter \in 0 .. Len(code) - 1
        /\ Fetched.InstructionCounter = this.InstructionCounter + 1
    BY <1>1, Fetching
  <2>2. Enough(1) /\ Operand(1) \in ByteArray /\ Without(k) \in Seq(Held)
    <3>1. Enough(1)
      BY <1>1, <2>1, LastMachine DEF Enough
    <3>2. QED
      BY <1>1, <2>1, <3>1, Taken
  <2>3. h \in Nat \ {0} /\ IntBytes \in Nat \ {0} /\ IntMax = h - 1
    BY Halves, WidthAssumption DEF IntMax
  <2>4. Destination \in Int /\ Destination <= IntMax
    <3>1. CASE Len(Operand(1)) = IntBytes
      <4>1. AtLeast(1, IntBytes)
        BY <2>2, <2>3, <3>1 DEF AtLeast
      <4>2. IntOf(1) \in Int /\ IntOf(1) <= IntMax
        BY <2>1, <2>2, <4>1, IntOfType
      <4>3. QED
        BY <3>1, <4>2 DEF Destination
    <3>2. CASE Len(Operand(1)) # IntBytes
      <4>1. Single(1) \in Byte /\ Single(1) \in Int
        BY <1>1, <2>1, <2>2, SingleType
      <4>2. Half(1) \in Nat /\ Half(1) <= h
        BY Halves
      <4>3. Single(1) <= IntMax
        BY <2>3, <4>1, <4>2 DEF Byte
      <4>4. QED
        BY <3>2, <4>1, <4>3 DEF Destination
    <3>3. QED
      BY <3>1, <3>2
  <2> HIDE DEF h
  <2>5. code \in ByteArray /\ Len(code) \in Nat /\ this.Script \in DOMAIN heap
    BY <2>1, LastMachine
  <2>6. /\ counter = Narrow(this.InstructionCounter + Destination, IntBytes)
        /\ this.InstructionCounter + Destination \in Int
    <3>1. (this.InstructionCounter + 1) + Destination - 1 = this.InstructionCounter + Destination
      BY <2>1, <2>4, <2>5
    <3>2. QED
      BY <2>1, <2>4, <2>5, <3>1
  <2>7. counter \in Int /\ -h <= counter /\ counter <= h - 1
    BY <2>3, <2>6, NarrowType DEF h
  <2>8. Place(counter)
    BY <2>3, <2>7 DEF Place
  <2>9. ASSUME Lengths, ~extended
        PROVE  counter > this.InstructionCounter \/ counter < 0
    <3>1. Len(code) <= IntMax
      BY <2>5, <2>9 DEF Lengths, code
    <3>2. Destination > 0
      BY <1>1, <2>9 DEF MayJump
    <3> DEFINE sum == this.InstructionCounter + Destination
    <3>3. sum \in 0 .. 2 * h - 1 /\ sum > this.InstructionCounter
      BY <2>1, <2>3, <2>4, <2>5, <3>1, <3>2
    <3> HIDE DEF sum
    <3>4. Narrow(sum, IntBytes) = sum \/ Narrow(sum, IntBytes) < 0
      BY <2>3, <3>3, NarrowSum DEF h
    <3>5. QED
      BY <2>6, <3>3, <3>4 DEF sum
  <2>10. Onward(counter)
    BY <2>9 DEF Onward
  <2>11. Become([Fetched EXCEPT !.Stack = Without(k), !.InstructionCounter = counter]) /\ heap' = heap
    BY <1>1, <2>1 DEF Jumped
  <2> HIDE DEF counter
  <2>12. QED
    BY <1>1, <2>2, <2>7, <2>8, <2>10, <2>11, MoveKept
<1>2. 1 \in 1 .. 2 /\ 2 \in 1 .. 2
  OBVIOUS
<1>3. CASE Jump
  <2>1. /\ Fetches({"JUMP"})
        /\ (Enough(1) /\ AtLeast(1, 1) /\ MayJump /\ Jumped(1)) \/ Throw(TRUE)
    BY <1>3 DEF Jump, Instruction
  <2>2. CASE Enough(1) /\ AtLeast(1, 1) /\ MayJump /\ Jumped(1)
    BY <1>1, <1>2, <2>1, <2>2
  <2>3. QED
    BY <2>1, <2>2, ThrowKept
<1>4. CASE JumpIf
  <2>1. /\ Fetches({"JUMPIF"})
        /\ \/ Enough(2) /\ AtLeast(1, 1) /\ MayJump /\ Jumped(2)
           \/ Enough(2) /\ Drops(2)
           \/ Throw(TRUE)
    BY <1>4 DEF JumpIf, Instruction
  <2>2. ASSUME Enough(2), Drops(2)
        PROVE  Kept
    BY <2>1, <2>2, Fetching, Taken, DropsKept
  <2>3. CASE Enough(2) /\ AtLeast(1, 1) /\ MayJump /\ Jumped(2)
    BY <1>1, <1>2, <2>1, <2>3
  <2>4. QED
    BY <2>1, <2>2, <2>3, ThrowKept
<1>5. QED
  BY <1>3, <1>4

\* All that stops, calls or jumps.
LEMMA ControlKept ==
  ASSUME Sound, ControlStep
  PROVE  Kept
BY VerdictsKept, CallKept, JumpsKept DEF ControlStep

-----------------------------------------------------------------------------
(* Between the instructions                                                *)

\* A machine whose script has ended stops.
LEMMA EndOfScriptKept ==
  ASSUME Sound, EndOfScript
  PROVE  Kept
<1> DEFINE n == Len(frames)
           m == [this EXCEPT !.going = FALSE]
<1>1. /\ frames # << >> /\ this.going /\ frames' = [frames EXCEPT ![n].going = FALSE]
      /\ extended' = extended /\ heap' = heap /\ stage' = stage /\ executed' = executed
  BY DEF EndOfScript, running
<1>2. /\ n \in Nat \ {0} /\ frames \in Seq(Machines) /\ n \in DOMAIN frames
      /\ this = frames[n] /\ this \in Machines /\ this.Steps = executed
  BY <1>1, LastMachine DEF Sound, Counted
<1>3. frames' = [frames EXCEPT ![n] = m]
  BY <1>1, <1>2
<1>4. /\ m \in Machines /\ ~m.going /\ m.Steps = executed
      /\ m.InstructionCounter = this.InstructionCounter
  BY <1>2 DEF Machines
<1> HIDE DEF m
<1>5. /\ frames' \in Seq(Machines) /\ Len(frames') = n /\ frames'[n] = m /\ frames' # << >>
      /\ \A k \in 1 .. n - 1 : frames'[k] = frames[k]
  BY <1>2, <1>3, <1>4
<1>6. Counted'
  BY <1>1, <1>4, <1>5 DEF Counted, this, Last
<1>7. OneStops'
  <2> SUFFICES ASSUME NEW k \in DOMAIN frames'
               PROVE  /\ k < Len(frames') => frames'[k].going
                      /\ frames'[k].bScriptFailed => ~frames'[k].going
    BY DEF OneStops
  <2>1. CASE k = n
    BY <1>2, <1>4, <1>5, <2>1
  <2>2. CASE k # n
    <3>1. k \in 1 .. n - 1 /\ k \in DOMAIN frames /\ k < Len(frames)
      BY <1>2, <1>5, <2>2
    <3>2. QED
      BY <1>5, <3>1 DEF OneStops, Sound
  <2>3. QED
    BY <2>1, <2>2
<1>8. Machines' = Machines
  BY <1>1 DEF Machines, Held
<1>9. Sound'
  BY <1>1, <1>5, <1>6, <1>7, <1>8 DEF Sound
<1>10. Counters => Counters'
  <2>1. ASSUME Counters, NEW k \in DOMAIN frames'
        PROVE  frames'[k].InstructionCounter \in -IntMax - 1 .. IntMax
    <3>1. CASE k = n
      BY <1>2, <1>4, <1>5, <2>1, <3>1 DEF Counters
    <3>2. CASE k # n
      <4>1. k \in 1 .. n - 1 /\ k \in DOMAIN frames
        BY <1>2, <1>5, <3>2
      <4>2. QED
        BY <1>5, <2>1, <4>1 DEF Counters
    <3>3. QED
      BY <3>1, <3>2
  <2>2. QED
    BY <2>1 DEF Counters
<1>11. GoesForward
  BY <1>1 DEF GoesForward, Executes, Sound
<1>12. QED
  BY <1>1, <1>9, <1>10, <1>11 DEF Kept, Untouched

\* The limit and a jump to before the script.
LEMMA StopsKept ==
  ASSUME Sound, StepLimit \/ BeforeScript
  PROVE  Kept
<1>1. /\ frames # << >> /\ extended' = extended /\ executed' = executed
      /\ executed' \in 0 .. MaximumStepsAllowed + 1
  BY DEF StepLimit, BeforeScript, running, Sound
<1>2. GoesForward
  BY <1>1 DEF GoesForward, Executes, Sound
<1>3. CASE Throw(FALSE)
  <2>1. Sound' /\ (Counters => Counters')
    BY <1>1, <1>3, ThrowSound
  <2>2. heap' = heap
    BY <1>3 DEF Throw
  <2>3. QED
    BY <1>2, <2>1, <2>2 DEF Kept, Untouched
<1>4. CASE Crash
  <2>1. heap' = heap /\ stage' = "crashed" /\ frames' = << >>
    BY <1>4 DEF Crash
  <2>2. Sound' /\ Untouched /\ Counters'
    BY <1>1, <2>1 DEF Sound, Counted, OneStops, Untouched, Counters, Stages
  <2>3. QED
    BY <1>2, <2>2 DEF Kept
<1>5. QED
  BY <1>3, <1>4 DEF StepLimit, BeforeScript

\* The caller takes over the count of the machine it called.
LEMMA ReturnKept ==
  ASSUME Sound, ReturnFromCall
  PROVE  Kept
<1> DEFINE n == Len(frames)
           caller == frames[n - 1]
           m == Returned(this.Steps)
           verdict == IF this.bScriptFailed THEN <<0>> ELSE <<1>>
           F == Front(Front(frames))
<1>1. /\ n > 1 /\ frames' = Append(F, m) /\ heap' = Append(heap, verdict)
      /\ extended' = extended /\ stage' = stage /\ executed' = executed
  BY DEF ReturnFromCall, Returns, Returning
<1>2. frames \in Seq(Machines) /\ n \in Nat /\ frames # << >>
  BY <1>1 DEF Sound
<1>3. this \in Machines /\ this.Steps = executed
  BY <1>1, <1>2, LastMachine DEF Sound, Counted
<1>4. n - 1 \in DOMAIN frames /\ caller \in Machines /\ caller.going /\ ~caller.bScriptFailed
  <2>1. n - 1 \in DOMAIN frames /\ n - 1 < Len(frames)
    BY <1>1, <1>2
  <2>2. QED
    BY <1>2, <2>1 DEF Sound, OneStops
<1>5. /\ heap' \in Seq(ByteArray) /\ Len(heap') = Len(heap) + 1
      /\ \A i \in 1 .. Len(heap) : heap'[i] = heap[i]
  <2>1. verdict \in ByteArray
    BY ByteType DEF ByteArray
  <2> HIDE DEF verdict
  <2>2. QED
    BY <1>1, <2>1 DEF Sound
<1>6. Len(heap) \in Nat /\ Len(heap) >= 2
  BY DEF Sound
<1>7. Held \subseteq Held' /\ Machines \subseteq Machines'
  BY <1>1, <1>5, <1>6, MachinesGrow
<1>8. m \in Machines'
  <2> DEFINE stack == caller.Stack \o this.Stack \o <<Len(heap) + 1>>
  <2>1. Len(heap) + 1 \in Held'
    BY <1>1, <1>5, <1>6 DEF Held
  <2>2. caller.Stack \in Seq(Held) /\ this.Stack \in Seq(Held)
    BY <1>3, <1>4 DEF Machines
  <2>3. caller.Stack \in Seq(Held') /\ this.Stack \in Seq(Held')
    BY <1>7, <2>2
  <2>4. stack \in Seq(Held')
    BY <2>1, <2>3
  <2>5. m = [caller EXCEPT !.Stack = stack, !.Steps = this.Steps]
    BY <1>4 DEF Returned, Machines
  <2>6. caller \in Machines' /\ this.Steps \in 0 .. MaximumStepsAllowed + 1
    BY <1>3, <1>4, <1>7 DEF Machines
  <2> HIDE DEF stack, caller
  <2>7. QED
    BY <2>4, <2>5, <2>6 DEF Machines
<1>9. /\ m.Steps = executed /\ m.going /\ ~m.bScriptFailed
      /\ m.InstructionCounter = caller.InstructionCounter
  BY <1>3, <1>4 DEF Returned, Machines
<1>10. F \in Seq(Machines) /\ Len(F) = n - 2 /\ \A k \in 1 .. n - 2 : F[k] = frames[k]
  <2> DEFINE G == Front(frames)
  <2>1. G \in Seq(Machines) /\ Len(G) = n - 1 /\ \A k \in 1 .. n - 1 : G[k] = frames[k]
    BY <1>2, FrontFacts
  <2> HIDE DEF G
  <2>2. G # << >>
    BY <1>1, <1>2, <2>1
  <2>3. Front(G) \in Seq(Machines) /\ Len(Front(G)) = Len(G) - 1
        /\ \A k \in 1 .. Len(G) - 1 : Front(G)[k] = G[k]
    BY <2>1, <2>2, FrontFacts
  <2>4. F = Front(G)
    BY DEF G
  <2> HIDE DEF F, n
  <2>5. QED
    BY <1>2, <2>1, <2>3, <2>4
<1> HIDE DEF m, F
<1>11. /\ frames' \in Seq(Machines') /\ Len(frames') = n - 1 /\ frames'[n - 1] = m
       /\ \A k \in 1 .. n - 2 : frames'[k] = frames[k]
  <2>1. F \in Seq(Machines')
    BY <1>7, <1>10
  <2>2. n - 2 \in Nat /\ (n - 2) + 1 = n - 1
    BY <1>1, <1>2
  <2> HIDE DEF n
  <2>3. QED
    BY <1>1, <1>8, <1>10, <2>1, <2>2
<1>12. frames' # << >> /\ Counted'
  BY <1>1, <1>2, <1>9, <1>11 DEF Counted, this, Last
<1>13. ASSUME NEW k \in DOMAIN frames'
       PROVE  k = n - 1 \/ (k \in 1 .. n - 2 /\ k \in DOMAIN frames /\ k < Len(frames))
  <2>1. k \in 1 .. n - 1 /\ DOMAIN frames = 1 .. n
    BY <1>2, <1>11
  <2>2. QED
    BY <1>2, <2>1
<1>14. OneStops'
  <2> SUFFICES ASSUME NEW k \in DOMAIN frames'
               PROVE  /\ k < Len(frames') => frames'[k].going
                      /\ frames'[k].bScriptFailed => ~frames'[k].going
    BY DEF OneStops
  <2>1. CASE k = n - 1
    BY <1>9, <1>11, <2>1
  <2>2. CASE k \in 1 .. n - 2 /\ k \in DOMAIN frames /\ k < Len(frames)
    BY <1>11, <2>2 DEF OneStops, Sound
  <2>3. QED
    BY <1>13, <2>1, <2>2
<1>15. Sound'
  BY <1>1, <1>5, <1>6, <1>11, <1>12, <1>14 DEF Sound
<1>16. Counters => Counters'
  <2>1. ASSUME Counters, NEW k \in DOMAIN frames'
        PROVE  frames'[k].InstructionCounter \in -IntMax - 1 .. IntMax
    <3>1. CASE k = n - 1
      BY <1>4, <1>9, <1>11, <2>1, <3>1 DEF Counters
    <3>2. CASE k \in 1 .. n - 2 /\ k \in DOMAIN frames /\ k < Len(frames)
      BY <1>11, <2>1, <3>2 DEF Counters
    <3>3. QED
      BY <1>13, <3>1, <3>2
  <2>2. QED
    BY <2>1 DEF Counters
<1>17. Untouched
  BY <1>5, <1>6 DEF Untouched, UnlockingScript, LockingScript
<1>18. GoesForward
  BY <1>1 DEF GoesForward, Executes, Sound
<1>19. QED
  BY <1>15, <1>16, <1>17, <1>18 DEF Kept

\* TransactionInput.verify between and after the two scripts.
LEMMA VerificationKept ==
  ASSUME Sound, StartLocking \/ EndVerification
  PROVE  Kept
<1>1. frames # << >> /\ extended' = extended /\ heap' = heap
  BY DEF StartLocking, EndVerification, Stopped, Sound
<1>2. CASE frames' = << >> /\ stage' \in {"rejected", "verified"} /\ executed' = executed
  BY <1>1, <1>2 DEF Kept, Sound, Counted, OneStops, Untouched, Counters, GoesForward, Executes, Stages
<1>3. CASE stage' = "locking" /\ executed' = 0 /\ frames' = <<Machine(LockingScript, this.Stack, 0)>>
  <2> DEFINE m == Machine(LockingScript, this.Stack, 0)
  <2>1. this.Stack \in Seq(Held) /\ Machines' = Machines
    BY <1>1, Operands DEF Machines, Held
  <2>2. m \in Machines /\ m.Steps = 0 /\ m.InstructionCounter = 0 /\ m.going /\ ~m.bScriptFailed
    BY <2>1, ScriptAssumption DEF Machine, Machines, LockingScript, Sound
  <2> HIDE DEF m
  <2>3. frames' \in Seq(Machines) /\ Len(frames') = 1 /\ frames'[1] = m /\ frames' # << >>
    BY <1>3, <2>2 DEF m
  <2>4. Counted' /\ OneStops'
    BY <1>3, <2>2, <2>3 DEF Counted, OneStops, this, Last
  <2>5. Sound'
    BY <1>1, <1>3, <2>1, <2>3, <2>4, ScriptAssumption DEF Sound, Stages
  <2>6. Counters'
    BY <2>2, <2>3, IntMaxType DEF Counters
  <2>7. GoesForward
    BY <1>3 DEF GoesForward, Executes, Sound
  <2>8. QED
    BY <1>1, <2>5, <2>6, <2>7 DEF Kept, Untouched
<1>4. QED
  BY <1>2, <1>3 DEF StartLocking, EndVerification

\* Every step keeps what it must.
LEMMA NextKept ==
  ASSUME DigestsAreBytes, Sound, [Next]_vars
  PROVE  Kept
<1>1. CASE UNCHANGED vars
  <2>1. Machines' = Machines /\ this' = this
    BY <1>1 DEF vars, Machines, Held, this
  <2>2. Sound' /\ Untouched /\ (Counters => Counters')
    BY <1>1, <2>1 DEF vars, Sound, Counted, OneStops, Untouched, Counters
  <2>3. GoesForward
    BY <1>1 DEF vars, GoesForward, Executes, Sound
  <2>4. QED
    BY <2>2, <2>3 DEF Kept
<1>2. CASE Next
  BY <1>2, FloatsKept, DataKept, ComparesKept, MemoryKept, CalculatesKept, ArraysKept, StackKept,
     ControlKept, EndOfScriptKept, StopsKept, ReturnKept, VerificationKept DEF Next
<1>3. QED
  BY <1>1, <1>2

-----------------------------------------------------------------------------
(* Keys and signatures                                                     *)

\* What a key says of a signature is one of three things.
AnswersAreKnown ==
  \A key, signature \in ByteArray : Answer(key, signature) \in {"yes", "no", "malformed"}

Takings == INSTANCE Folding WITH Op <- TakeKey

\* A set of numbers has a least one.
LEMMA MinIn ==
  ASSUME NEW S \in SUBSET Nat, S # {}
  PROVE  Min(S) \in S /\ \A i \in S : Min(S) <= i
<1> DEFINE less == OpToRel(<, Nat)
<1>1. IsWellFoundedOn(less, Nat)
  BY NatLessThanWellFounded
<1>2. PICK n \in S : \A i \in S : ~(<<i, n>> \in less)
  <2> HIDE DEF less
  <2>1. QED
    BY <1>1, WFMin
<1>3. \A i \in S : n <= i
  <2>1. ASSUME NEW i \in S
        PROVE  n <= i
    <3>1. i \in Nat /\ n \in Nat
      OBVIOUS
    <3>2. i < n => <<i, n>> \in less
      BY <3>1 DEF OpToRel
    <3> HIDE DEF less
    <3>3. ~(i < n)
      BY <1>2, <3>2
    <3>4. QED
      BY <3>1, <3>3
  <2>2. QED
    BY <2>1
<1>4. QED
  BY <1>3 DEF Min

\* The signatures before the k-th have each been given a key that accepts it,
\* there is a way to give each of n signatures one of its own, and keys that
\* accept the same signature are the same bytes.
Halfway(K, ref, bytes, Yes, n, k, f, g) ==
  /\ n \in Nat /\ k \in 1 .. n
  /\ f \in [1 .. n -> K] /\ g \in [1 .. k - 1 -> K]
  /\ \A j \in 1 .. n : <<f[j], j>> \in Yes
  /\ \A i, j \in 1 .. n : i # j => ref[f[i]] # ref[f[j]]
  /\ \A j \in 1 .. k - 1 : <<g[j], j>> \in Yes
  /\ \A j \in 1 .. n : \A a, b \in K :
       /\ <<a, j>> \in Yes /\ <<b, j>> \in Yes => bytes[ref[a]] = bytes[ref[b]]
       /\ <<a, j>> \in Yes /\ bytes[ref[a]] = bytes[ref[b]] => <<b, j>> \in Yes

\* A key that accepts the k-th is none of those given before.
KeyIsLeft(K, ref, Yes, k, g) ==
  \E a \in K : <<a, k>> \in Yes /\ \A j \in 1 .. k - 1 : ref[a] # ref[g[j]]

\* There is one, or k signatures would share fewer keys.
LEMMA KeyLeft ==
  ASSUME NEW K, NEW ref, NEW bytes, NEW Yes, NEW n, NEW k, NEW f, NEW g,
         Halfway(K, ref, bytes, Yes, n, k, f, g)
  PROVE  KeyIsLeft(K, ref, Yes, k, g)
<1> USE DEF Halfway
<1> SUFFICES ASSUME \A a \in K : <<a, k>> \in Yes =>
                      \E j \in 1 .. k - 1 : ref[a] = ref[g[j]]
             PROVE  FALSE
  BY DEF KeyIsLeft
<1> DEFINE J == {j \in 1 .. k - 1 : <<g[j], k>> \in Yes}
           I == J \cup {k}
           h == [j \in I |-> CHOOSE p \in J : ref[f[j]] = ref[g[p]]]
<1>1. 1 .. k - 1 \subseteq 1 .. n /\ J \subseteq 1 .. k - 1 /\ I \subseteq 1 .. n /\ k \notin J
  OBVIOUS
<1>2. IsFiniteSet(1 .. k - 1)
  <2>1. 1 \in Int /\ k - 1 \in Int
    OBVIOUS
  <2>2. QED
    BY <2>1, FS_Interval
<1>3. IsFiniteSet(J)
  <2>1. J \subseteq 1 .. k - 1
    BY <1>1
  <2> HIDE DEF J
  <2>2. QED
    BY <1>2, <2>1, FS_Subset
<1>4. IsFiniteSet(I) /\ Cardinality(I) = Cardinality(J) + 1 /\ Cardinality(J) \in Nat
  <2> HIDE DEF J
  <2>1. IsFiniteSet(J \cup {k})
    BY <1>3, FS_AddElement
  <2>2. Cardinality(J \cup {k}) = Cardinality(J) + 1
    BY <1>1, <1>3, FS_AddElement
  <2>3. Cardinality(J) \in Nat
    BY <1>3, FS_CardinalityType
  <2>4. QED
    BY <2>1, <2>2, <2>3
<1>5. ASSUME NEW j \in I
      PROVE  \E p \in J : ref[f[j]] = ref[g[p]]
  <2>1. j \in 1 .. n /\ f[j] \in K
    BY <1>1
  <2>2. <<f[j], k>> \in Yes
    <3>1. CASE j = k
      BY <3>1
    <3>2. CASE j \in J
      <4>1. /\ j \in 1 .. k - 1 /\ j \in 1 .. n /\ k \in 1 .. n /\ g[j] \in K
            /\ <<g[j], k>> \in Yes /\ <<g[j], j>> \in Yes /\ <<f[j], j>> \in Yes
        BY <2>1, <3>2
      <4>2. bytes[ref[g[j]]] = bytes[ref[f[j]]]
        BY <2>1, <4>1
      <4>3. QED
        BY <2>1, <4>1, <4>2
    <3>3. QED
      BY <3>1, <3>2
  <2>3. PICK p \in 1 .. k - 1 : ref[f[j]] = ref[g[p]]
    BY <2>1, <2>2
  <2>4. g[p] \in K /\ bytes[ref[f[j]]] = bytes[ref[g[p]]]
    BY <2>3
  <2>5. <<g[p], k>> \in Yes
    BY <2>1, <2>2, <2>4
  <2>6. QED
    BY <2>3, <2>5
<1>6. \A j \in I : h[j] \in J /\ ref[f[j]] = ref[g[h[j]]]
  BY <1>5
<1>7. h \in [I -> J]
  BY <1>6
<1> HIDE DEF h, I, J
<1>8. Cardinality(J) < Cardinality(I)
  BY <1>4
<1>9. PICK x, y \in I : x # y /\ h[x] = h[y]
  BY <1>3, <1>4, <1>7, <1>8, FS_PigeonHole
<1>10. ref[f[x]] = ref[f[y]] /\ x \in 1 .. n /\ y \in 1 .. n
  BY <1>1, <1>6, <1>9
<1>11. QED
  BY <1>9, <1>10

\* The pairs of places where the key accepts the signature.
Accepts ==
  {p \in (DOMAIN MultisigKeys) \X (DOMAIN MultisigSignatures) :
     Answer(heap[MultisigKeys[p[1]]], heap[MultisigSignatures[p[2]]]) = "yes"}

\* Keys given to the first k signatures, to each one of its own.
Gives(g, k) ==
  /\ g \in [1 .. k -> DOMAIN MultisigKeys]
  /\ \A j \in 1 .. k : <<g[j], j>> \in Accepts
  /\ \A i, j \in 1 .. k : i # j => MultisigKeys[g[i]] # MultisigKeys[g[j]]

\* What the search has found when it has been through the first k signatures.
Found(state, k) ==
  state.found =>
    \E g : Gives(g, k) /\ state.taken = {MultisigKeys[g[j]] : j \in 1 .. k}

\* No key is malformed, and those that accept one signature are the same.
Unambiguous ==
  \A j \in DOMAIN MultisigSignatures, i \in DOMAIN MultisigKeys :
    /\ Answer(heap[MultisigKeys[i]], heap[MultisigSignatures[j]]) # "malformed"
    /\ \A k \in DOMAIN MultisigKeys :
         <<i, j>> \in Accepts /\ <<k, j>> \in Accepts
           => heap[MultisigKeys[i]] = heap[MultisigKeys[k]]

\* What a search may be at.
Searches == [found : BOOLEAN, taken : SUBSET Held]

\* One signature looks for a key.
LEMMA TakeKeyStep ==
  ASSUME Sound, MultisigKeys \in Seq(Held), MultisigSignatures \in Seq(Held),
         NEW state \in Searches
  PROVE  /\ \A signature \in Held : TakeKey(state, signature) \in Searches
         /\ \A k \in 1 .. Len(MultisigSignatures) :
              /\ Found(state, k - 1) => Found(TakeKey(state, MultisigSignatures[k]), k)
              /\ AnswersAreKnown /\ Unambiguous /\ state.found /\ Found(state, k - 1)
                 /\ (\E f : Gives(f, Len(MultisigSignatures)))
                 => TakeKey(state, MultisigSignatures[k]).found
<1> DEFINE keys == MultisigKeys
           open(signature) == {i \in DOMAIN keys : /\ ~PassedOver(keys[i], state.taken)
                                                   /\ Answer(heap[keys[i]], heap[signature]) # "no"}
<1>1. ASSUME NEW signature, open(signature) # {}
      PROVE  Min(open(signature)) \in open(signature)
  <2>1. open(signature) \in SUBSET Nat
    OBVIOUS
  <2> HIDE DEF open
  <2>2. QED
    BY <1>1, <2>1, MinIn
<1>2. ASSUME NEW signature
      PROVE  TakeKey(state, signature) =
               IF /\ state.found /\ open(signature) # {}
                  /\ Answer(heap[keys[Min(open(signature))]], heap[signature]) = "yes"
               THEN [state EXCEPT !.taken = @ \cup {keys[Min(open(signature))]}]
               ELSE [state EXCEPT !.found = FALSE]
  BY DEF TakeKey
<1>3. ASSUME NEW signature \in Held
      PROVE  TakeKey(state, signature) \in Searches
  <2> DEFINE i == Min(open(signature))
             some == /\ state.found /\ open(signature) # {}
                     /\ Answer(heap[keys[i]], heap[signature]) = "yes"
  <2>1. open(signature) # {} => i \in DOMAIN keys /\ keys[i] \in Held
    BY <1>1
  <2>2. /\ some => keys[i] \in Held
        /\ TakeKey(state, signature) = IF some THEN [state EXCEPT !.taken = @ \cup {keys[i]}]
                                       ELSE [state EXCEPT !.found = FALSE]
    BY <1>2, <2>1
  <2>3. state \in [found : BOOLEAN, taken : SUBSET Held]
    BY DEF Searches
  <2> HIDE DEF i, some, keys
  <2>4. CASE some
    BY <2>2, <2>3, <2>4 DEF Searches
  <2>5. CASE ~some
    BY <2>2, <2>3, <2>5 DEF Searches
  <2>6. QED
    BY <2>4, <2>5
<1>4. ASSUME NEW k \in 1 .. Len(MultisigSignatures), Found(state, k - 1)
      PROVE  Found(TakeKey(state, MultisigSignatures[k]), k)
  <2> DEFINE signature == MultisigSignatures[k]
             i == Min(open(signature))
             after == TakeKey(state, signature)
  <2>1. SUFFICES ASSUME after.found
                 PROVE  \E g : Gives(g, k) /\ after.taken = {keys[g[j]] : j \in 1 .. k}
    BY DEF Found
  <2>2. /\ state.found /\ open(signature) # {}
        /\ Answer(heap[keys[i]], heap[signature]) = "yes"
        /\ after.taken = state.taken \cup {keys[i]}
    BY <1>2, <2>1 DEF Searches
  <2>3. i \in DOMAIN keys /\ keys[i] \notin state.taken
    BY <1>1, <2>2 DEF PassedOver
  <2>4. PICK g : Gives(g, k - 1) /\ state.taken = {keys[g[j]] : j \in 1 .. k - 1}
    BY <1>4, <2>2 DEF Found
  <2>5. <<i, k>> \in Accepts
    BY <2>2, <2>3 DEF Accepts
  <2> DEFINE h == [j \in 1 .. k |-> IF j = k THEN i ELSE g[j]]
  <2> HIDE DEF i, after, open
  <2>6. k \in Nat /\ k >= 1 /\ \A j \in 1 .. k : j # k => j \in 1 .. k - 1
    OBVIOUS
  <2>7. h[k] = i /\ \A j \in 1 .. k - 1 : j \in 1 .. k /\ j # k /\ h[j] = g[j]
    OBVIOUS
  <2>8. h \in [1 .. k -> DOMAIN keys]
    BY <2>3, <2>4, <2>6 DEF Gives
  <2> HIDE DEF h
  <2>9. \A j \in 1 .. k : <<h[j], j>> \in Accepts
    BY <2>4, <2>5, <2>6, <2>7 DEF Gives
  <2>10. \A a \in 1 .. k - 1 : keys[h[a]] \in state.taken
    BY <2>4, <2>7
  <2>11. ASSUME NEW a \in 1 .. k, NEW b \in 1 .. k, a # b
         PROVE  keys[h[a]] # keys[h[b]]
    <3>1. CASE a = k
      BY <2>3, <2>6, <2>7, <2>10, <2>11, <3>1
    <3>2. CASE b = k
      BY <2>3, <2>6, <2>7, <2>10, <2>11, <3>2
    <3>3. CASE a # k /\ b # k
      BY <2>4, <2>6, <2>7, <2>11, <3>3 DEF Gives
    <3>4. QED
      BY <3>1, <3>2, <3>3
  <2>12. after.taken = {keys[h[j]] : j \in 1 .. k}
    <3>1. \A x : x \in after.taken <=> x = keys[h[k]] \/ \E j \in 1 .. k - 1 : x = keys[h[j]]
      BY <2>2, <2>4, <2>7
    <3>2. \A x : x \in after.taken <=> \E j \in 1 .. k : x = keys[h[j]]
      BY <2>6, <2>7, <3>1
    <3>3. QED
      BY <3>2
  <2>13. QED
    BY <2>8, <2>9, <2>11, <2>12 DEF Gives
<1>5. ASSUME NEW k \in 1 .. Len(MultisigSignatures), Found(state, k - 1), AnswersAreKnown, Unambiguous,
             state.found, NEW f, Gives(f, Len(MultisigSignatures))
      PROVE  TakeKey(state, MultisigSignatures[k]).found
  <2> DEFINE signature == MultisigSignatures[k]
             i == Min(open(signature))
             K == DOMAIN keys
             n == Len(MultisigSignatures)
  <2>1. PICK g : Gives(g, k - 1) /\ state.taken = {keys[g[j]] : j \in 1 .. k - 1}
    BY <1>5 DEF Found
  <2>2. n \in Nat /\ DOMAIN MultisigSignatures = 1 .. n
    OBVIOUS
  <2>3. \A j \in 1 .. n : \A a, b \in K :
           /\ <<a, j>> \in Accepts /\ <<b, j>> \in Accepts => heap[keys[a]] = heap[keys[b]]
           /\ <<a, j>> \in Accepts /\ heap[keys[a]] = heap[keys[b]] => <<b, j>> \in Accepts
    <3>1. ASSUME NEW j \in 1 .. n, NEW a \in K, NEW b \in K
          PROVE  /\ <<a, j>> \in Accepts /\ <<b, j>> \in Accepts => heap[keys[a]] = heap[keys[b]]
                 /\ <<a, j>> \in Accepts /\ heap[keys[a]] = heap[keys[b]] => <<b, j>> \in Accepts
      <4>1. <<a, j>> \in Accepts /\ <<b, j>> \in Accepts => heap[keys[a]] = heap[keys[b]]
        BY <1>5, <2>2 DEF Unambiguous
      <4>2. <<a, j>> \in Accepts /\ heap[keys[a]] = heap[keys[b]] => <<b, j>> \in Accepts
        BY <2>2 DEF Accepts
      <4>3. QED
        BY <4>1, <4>2
    <3>2. QED
      BY <3>1
  <2>4. /\ f \in [1 .. n -> K] /\ g \in [1 .. k - 1 -> K]
        /\ \A j \in 1 .. n : <<f[j], j>> \in Accepts
        /\ \A a, b \in 1 .. n : a # b => keys[f[a]] # keys[f[b]]
        /\ \A j \in 1 .. k - 1 : <<g[j], j>> \in Accepts
    BY <1>5, <2>1 DEF Gives
  <2>5. PICK a \in K : <<a, k>> \in Accepts /\ \A j \in 1 .. k - 1 : keys[a] # keys[g[j]]
    <3>1. k \in 1 .. n
      OBVIOUS
    <3> HIDE DEF K, n, keys
    <3>2. Halfway(K, keys, heap, Accepts, n, k, f, g)
      BY <2>2, <2>3, <2>4, <3>1 DEF Halfway
    <3>3. KeyIsLeft(K, keys, Accepts, k, g)
      BY <3>2, KeyLeft
    <3>4. QED
      BY <3>3 DEF KeyIsLeft
  <2>6. a \in open(signature)
    BY <2>1, <2>5 DEF Accepts, PassedOver
  <2>7. i \in open(signature)
    BY <1>1, <2>6
  <2>8. Answer(heap[keys[i]], heap[signature]) = "yes"
    <3>1. i \in DOMAIN keys /\ Answer(heap[keys[i]], heap[signature]) # "no"
      BY <2>7
    <3>2. keys[i] \in Held /\ signature \in Held /\ k \in DOMAIN MultisigSignatures
      BY <3>1
    <3>3. \A p \in Held : heap[p] \in ByteArray
      BY DEF Held, Sound
    <3>4. Answer(heap[keys[i]], heap[signature]) \in {"yes", "no", "malformed"}
      BY <1>5, <3>2, <3>3 DEF AnswersAreKnown
    <3>5. Answer(heap[keys[i]], heap[signature]) # "malformed"
      BY <1>5, <3>1, <3>2 DEF Unambiguous
    <3>6. QED
      BY <3>1, <3>4, <3>5
  <2>9. QED
    BY <1>2, <1>5, <2>6, <2>8 DEF Searches
<1>6. QED
  BY <1>3, <1>4, <1>5

\* The search finds keys for all signatures just where there are some.
LEMMA SearchFinds ==
  ASSUME Sound, AnswersAreKnown, Unambiguous,
         MultisigKeys \in Seq(Held), MultisigSignatures \in Seq(Held)
  PROVE  EnoughSignatures <=> \E f : Gives(f, Len(MultisigSignatures))
<1> DEFINE chain == MultisigSignatures
           n == Len(chain)
           base == [found |-> TRUE, taken |-> {}]
<1>1. n \in Nat /\ \A k \in 1 .. n : chain[k] \in Held
  OBVIOUS
<1>2. base \in Searches
  BY DEF Searches
<1>3. Takings!Stays(Searches, Held)
  BY TakeKeyStep DEF Takings!Stays
<1> HIDE DEF chain, n, base
<1>4. PICK trace \in [0 .. n -> Searches] :
        trace[0] = base /\ Takings!IsTrace(trace, chain) /\ Takings!FoldOf(base, chain) = trace[n]
  BY <1>2, <1>3, Takings!FoldLeftTraced DEF chain, n
<1>5. \A k \in 1 .. n : trace[k] = TakeKey(trace[k - 1], chain[k])
  BY <1>4 DEF Takings!IsTrace, n
<1>6. EnoughSignatures = trace[n].found
  <2>1. FoldLeft(TakeKey, base, chain) = Takings!FoldOf(base, chain)
    BY DEF FoldLeft, MapThenFoldSet, Max,
           Takings!FoldOf, Takings!FoldLeft, Takings!MapThenFoldSet, Takings!Max
  <2>2. QED
    BY <1>4, <2>1 DEF EnoughSignatures, base, chain
<1>7. ASSUME NEW k \in 1 .. n
      PROVE  /\ k - 1 \in 0 .. n /\ k \in 0 .. n /\ trace[k - 1] \in Searches
             /\ trace[k] = TakeKey(trace[k - 1], MultisigSignatures[k])
             /\ k \in 1 .. Len(MultisigSignatures)
  BY <1>1, <1>4, <1>5 DEF chain, n
<1>8. \A k \in 0 .. n : Found(trace[k], k)
  <2> DEFINE S == {k \in Nat : k <= n => Found(trace[k], k)}
  <2>1. 0 \in S
    <3>1. Gives(<< >>, 0) /\ trace[0].taken = {}
      BY <1>4 DEF Gives, base
    <3>2. {MultisigKeys[<< >>[j]] : j \in 1 .. 0} = {}
      OBVIOUS
    <3>3. Found(trace[0], 0)
      BY <3>1, <3>2 DEF Found
    <3>4. QED
      BY <3>3
  <2>2. ASSUME NEW k \in Nat, k \in S
        PROVE  k + 1 \in S
    <3>1. CASE k + 1 <= n
      <4> DEFINE m == k + 1
      <4>1. m \in 1 .. n /\ m - 1 = k /\ Found(trace[m - 1], m - 1)
        BY <1>1, <2>2, <3>1
      <4> HIDE DEF m, S
      <4>2. Found(trace[m], m)
        BY <1>7, <4>1, TakeKeyStep
      <4>3. QED
        BY <4>2 DEF m, S
    <3>2. CASE ~(k + 1 <= n)
      BY <3>2
    <3>3. QED
      BY <3>1, <3>2
  <2> HIDE DEF S
  <2>3. Nat \subseteq S
    BY <2>1, <2>2, Takings!SetInduction
  <2>4. QED
    BY <1>1, <2>3 DEF S
<1>9. ASSUME trace[n].found
      PROVE  \E f : Gives(f, n)
  BY <1>1, <1>8, <1>9 DEF Found
<1>10. ASSUME NEW f, Gives(f, n)
       PROVE  trace[n].found
  <2> DEFINE S == {k \in Nat : k <= n => trace[k].found}
  <2>1. 0 \in S
    BY <1>4 DEF base
  <2>2. ASSUME NEW k \in Nat, k \in S
        PROVE  k + 1 \in S
    <3>1. CASE k + 1 <= n
      <4> DEFINE m == k + 1
      <4>1. m \in 1 .. n /\ m - 1 = k /\ Found(trace[m - 1], m - 1) /\ trace[m - 1].found
        BY <1>1, <1>8, <2>2, <3>1
      <4>2. \E h : Gives(h, Len(MultisigSignatures))
        BY <1>10 DEF n, chain
      <4> HIDE DEF m, S
      <4>3. trace[m].found
        BY <1>7, <4>1, <4>2, TakeKeyStep
      <4>4. QED
        BY <4>3 DEF m, S
    <3>2. CASE ~(k + 1 <= n)
      BY <3>2
    <3>3. QED
      BY <3>1, <3>2
  <2> HIDE DEF S
  <2>3. Nat \subseteq S
    BY <2>1, <2>2, Takings!SetInduction
  <2>4. QED
    BY <1>1, <2>3 DEF S
<1>11. QED
  BY <1>6, <1>9, <1>10 DEF n, chain

-----------------------------------------------------------------------------
(* What holds of every verification                                        *)

\* The invariant of the machines, for any scripts, widths and limits.
LEMMA SoundInductive ==
  ASSUME DigestsAreBytes
  PROVE  Spec => []Sound
<1>1. Sound /\ [Next]_vars => Sound'
  BY NextKept DEF Kept
<1>2. QED
  BY <1>1, InitSound, PTL DEF Spec

\* StepsShared: a script and all the machines it calls execute no more than the
\* allowed number of instructions together, and the one that exceeds it.
THEOREM ScriptStepsShared ==
  ASSUME DigestsAreBytes
  PROVE  Spec => []StepsShared
<1>1. Sound => StepsShared
  BY ScriptAssumption DEF Sound, StepsShared
<1>2. QED
  BY <1>1, SoundInductive, PTL

\* TransactionUntouched: without extended flow control nothing writes into the
\* scripts of the transactions.
THEOREM ScriptTransactionUntouched ==
  ASSUME DigestsAreBytes
  PROVE  Spec => TransactionUntouched
<1>1. Sound /\ [Next]_vars
        => [~extended => \A n \in {UnlockingScript, LockingScript} : heap'[n] = heap[n]]_vars
  BY NextKept DEF Kept, Untouched
<1>2. QED
  BY <1>1, SoundInductive, PTL DEF Spec, TransactionUntouched

\* Counters stay ints while lengths do.
LEMMA CountersInductive ==
  ASSUME DigestsAreBytes
  PROVE  Spec /\ []Lengths => []Counters
<1>1. Init => Counters
  BY IntMaxType DEF Init, Counters, Machine
<1>2. Sound /\ Lengths /\ Counters /\ [Next]_vars => Counters'
  BY NextKept DEF Kept
<1>3. QED
  BY <1>1, <1>2, SoundInductive, PTL DEF Spec

\* TypeOK: whatever the scripts are, references stay in the heap, counters ints,
\* steps within the limit, and only the last machine has failed.
THEOREM ScriptTypeOK ==
  ASSUME DigestsAreBytes
  PROVE  Spec /\ []Lengths => []TypeOK
<1>1. ASSUME Sound, Counters
      PROVE  TypeOK
  <2>1. ASSUME NEW n \in DOMAIN frames
        PROVE  /\ frames[n].Script \in DOMAIN heap
               /\ frames[n].Stack \in Seq(DOMAIN heap)
               /\ frames[n].InstructionCounter \in -IntMax - 1 .. IntMax
               /\ frames[n].Steps \in 0 .. MaximumStepsAllowed + 1
               /\ {frames[n].bScriptFailed, frames[n].going} \subseteq BOOLEAN
               /\ frames[n].bScriptFailed => ~frames[n].going /\ n = Len(frames)
    <3>1. frames[n] \in Machines /\ DOMAIN heap = 1 .. Len(heap)
      BY <1>1 DEF Sound
    <3>2. Held \subseteq DOMAIN heap
      BY <3>1 DEF Held
    <3>3. frames[n].Stack \in Seq(DOMAIN heap)
      BY <3>1, <3>2 DEF Machines
    <3>4. n = Len(frames) \/ n < Len(frames)
      BY <1>1 DEF Sound
    <3>5. frames[n].bScriptFailed => ~frames[n].going /\ n = Len(frames)
      BY <1>1, <3>4 DEF Sound, OneStops
    <3>6. QED
      BY <1>1, <3>1, <3>3, <3>5 DEF Counters, Machines
  <2>2. QED
    BY <1>1, <2>1, ScriptAssumption DEF Sound, TypeOK, Stages
<1>2. QED
  BY <1>1, SoundInductive, CountersInductive, PTL

\* ForwardOnly: without extended flow control a machine never comes back to an
\* instruction it has executed or jumped over.
THEOREM ScriptForwardOnly ==
  ASSUME DigestsAreBytes
  PROVE  Spec /\ []Lengths => ForwardOnly
<1>1. Sound /\ Lengths /\ [Next]_vars
        => [LET n == Len(frames)
            IN  ~extended /\ Executes /\ n \in DOMAIN frames' /\ frames'[n].going =>
                  \/ frames'[n].InstructionCounter > this.InstructionCounter
                  \/ frames'[n].InstructionCounter < 0]_vars
  BY NextKept DEF Kept, GoesForward
<1>2. QED
  BY <1>1, SoundInductive, PTL DEF Spec, ForwardOnly

\* What is no more than something else fits into it.
LEMMA FitsInto ==
  ASSUME NEW S, NEW T, IsFiniteSet(S), IsFiniteSet(T), Cardinality(S) <= Cardinality(T)
  PROVE  \E g \in [S -> T] : \A x, y \in S : g[x] = g[y] => x = y
<1> DEFINE s == Cardinality(S)
           t == Cardinality(T)
<1>1. /\ s \in Nat /\ ExistsBijection(1 .. s, S)
      /\ t \in Nat /\ ExistsBijection(1 .. t, T)
  BY FS_CardinalityType
<1>2. s <= t
  OBVIOUS
<1> HIDE DEF s, t
<1>3. PICK a : a \in Bijection(1 .. s, S)
  BY <1>1 DEF ExistsBijection
<1>4. PICK b : b \in Bijection(1 .. t, T)
  BY <1>1 DEF ExistsBijection
<1>5. \A x \in S : \E i \in 1 .. s : a[i] = x
  BY <1>3 DEF Bijection, Surjection
<1>6. b \in [1 .. t -> T] /\ \A i, j \in 1 .. t : b[i] = b[j] => i = j
  BY <1>4 DEF Bijection, Injection, IsInjective
<1> DEFINE at == [x \in S |-> CHOOSE i \in 1 .. s : a[i] = x]
           g  == [x \in S |-> b[at[x]]]
<1>7. \A x \in S : at[x] \in 1 .. t /\ a[at[x]] = x
  BY <1>1, <1>2, <1>5
<1> HIDE DEF at
<1>8. g \in [S -> T] /\ \A x, y \in S : g[x] = g[y] => x = y
  BY <1>6, <1>7
<1>9. QED
  BY <1>8

\* Every signature can have an array of its own exactly where no keyholder gave
\* more signatures than there are arrays with his key.
LEMMA Holders ==
  ASSUME Unambiguous, MultisigKeys \in Seq(Held), MultisigSignatures \in Seq(Held),
         NEW keys, keys = {heap[ref] : ref \in Range(MultisigKeys)}
  PROVE  (\E f : Gives(f, Len(MultisigSignatures))) <=>
           /\ DOMAIN MultisigSignatures = UNION {SignedWith(key) : key \in keys}
           /\ \A key \in keys : Cardinality(SignedWith(key)) <= Cardinality(ListedAs(key))
<1> DEFINE n == Len(MultisigSignatures)
           K == DOMAIN MultisigKeys
           ref(i) == MultisigKeys[i]
<1>1. n \in Nat /\ DOMAIN MultisigSignatures = 1 .. n
  OBVIOUS
<1>2. /\ \A i \in K : ref(i) \in Range(MultisigKeys) /\ heap[ref(i)] \in keys
      /\ \A p \in Range(MultisigKeys) : \E i \in K : p = ref(i)
      /\ \A key \in keys : \E i \in K : key = heap[ref(i)]
  BY DEF Range
<1>3. \A i \in K, j \in 1 .. n : <<i, j>> \in Accepts <=> j \in SignedWith(heap[ref(i)])
  BY <1>1 DEF Accepts, SignedWith
<1>4. \A j \in 1 .. n, k, l \in keys : j \in SignedWith(k) /\ j \in SignedWith(l) => k = l
  <2> SUFFICES ASSUME NEW j \in 1 .. n, NEW k \in keys, NEW l \in keys,
                      j \in SignedWith(k), j \in SignedWith(l)
               PROVE  k = l
    OBVIOUS
  <2>1. PICK x \in K, y \in K : k = heap[ref(x)] /\ l = heap[ref(y)]
    BY <1>2
  <2>2. <<x, j>> \in Accepts /\ <<y, j>> \in Accepts
    BY <1>3, <2>1
  <2>3. QED
    BY <1>1, <2>1, <2>2 DEF Unambiguous
<1>5. ASSUME NEW key
      PROVE  /\ SignedWith(key) \subseteq 1 .. n /\ IsFiniteSet(SignedWith(key))
             /\ ListedAs(key) \subseteq Range(MultisigKeys) /\ IsFiniteSet(ListedAs(key))
  <2>1. SignedWith(key) \subseteq 1 .. n /\ ListedAs(key) \subseteq Range(MultisigKeys)
    BY <1>1 DEF SignedWith, ListedAs
  <2>2. IsFiniteSet(1 .. n)
    BY <1>1, FS_Interval
  <2>3. IsFiniteSet(Range(MultisigKeys))
    <3>1. K = 1 .. Len(MultisigKeys) /\ Len(MultisigKeys) \in Nat
      OBVIOUS
    <3>2. IsFiniteSet(K)
      BY <3>1, FS_Interval
    <3>3. MultisigKeys \in Surjection(K, Range(MultisigKeys))
      BY DEF Surjection, Range
    <3>4. QED
      BY <3>2, <3>3, FS_Surjection
  <2>4. QED
    BY <2>1, <2>2, <2>3, FS_Subset
<1> HIDE DEF n, K, ref
<1>6. ASSUME NEW f, Gives(f, n)
      PROVE  /\ 1 .. n = UNION {SignedWith(key) : key \in keys}
             /\ \A key \in keys : Cardinality(SignedWith(key)) <= Cardinality(ListedAs(key))
  <2>1. /\ f \in [1 .. n -> K] /\ \A j \in 1 .. n : <<f[j], j>> \in Accepts
        /\ \A i, j \in 1 .. n : i # j => ref(f[i]) # ref(f[j])
    BY <1>6 DEF Gives, K, ref
  <2>2. \A j \in 1 .. n : j \in SignedWith(heap[ref(f[j])]) /\ heap[ref(f[j])] \in keys
    BY <1>2, <1>3, <2>1
  <2>3. 1 .. n = UNION {SignedWith(key) : key \in keys}
    BY <1>5, <2>2
  <2>4. ASSUME NEW key \in keys
        PROVE  Cardinality(SignedWith(key)) <= Cardinality(ListedAs(key))
    <3> DEFINE S == SignedWith(key)
               T == ListedAs(key)
               g == [j \in S |-> ref(f[j])]
    <3>1. \A j \in S : j \in 1 .. n
      BY <1>5
    <3>2. \A j \in S : heap[ref(f[j])] = key /\ ref(f[j]) \in Range(MultisigKeys)
      BY <1>2, <1>4, <2>1, <2>2, <3>1
    <3>3. \A j \in S : ref(f[j]) \in T
      BY <3>2 DEF ListedAs
    <3>4. \A i, j \in S : ref(f[i]) = ref(f[j]) => i = j
      BY <2>1, <3>1
    <3>5. IsFiniteSet(T)
      BY <1>5
    <3> HIDE DEF S, T
    <3>6. g \in Injection(S, T)
      BY <3>3, <3>4 DEF Injection, IsInjective
    <3>7. Cardinality(S) <= Cardinality(T)
      BY <3>5, <3>6, FS_Injection
    <3>8. QED
      BY <3>7 DEF S, T
  <2>5. QED
    BY <2>3, <2>4
<1>7. ASSUME 1 .. n = UNION {SignedWith(key) : key \in keys},
             \A key \in keys : Cardinality(SignedWith(key)) <= Cardinality(ListedAs(key))
      PROVE  \E f : Gives(f, n)
  <2> DEFINE Own(key, g) == /\ g \in [SignedWith(key) -> ListedAs(key)]
                            /\ \A x, y \in SignedWith(key) : g[x] = g[y] => x = y
             own(key) == CHOOSE g : Own(key, g)
             holder(j) == CHOOSE key \in keys : j \in SignedWith(key)
             array(j) == own(holder(j))[j]
             f == [j \in 1 .. n |-> CHOOSE i \in K : ref(i) = array(j)]
  <2>1. ASSUME NEW key \in keys
        PROVE  Own(key, own(key))
    <3>1. \E g : Own(key, g)
      BY <1>5, <1>7, FitsInto
    <3> HIDE DEF Own
    <3>2. QED
      BY <3>1
  <2>2. \A j \in 1 .. n : holder(j) \in keys /\ j \in SignedWith(holder(j))
    BY <1>7
  <2> HIDE DEF own, holder
  <2>3. ASSUME NEW j \in 1 .. n
        PROVE  array(j) \in Range(MultisigKeys) /\ heap[array(j)] = holder(j)
    <3>1. array(j) \in ListedAs(holder(j))
      BY <2>1, <2>2
    <3>2. QED
      BY <3>1 DEF ListedAs
  <2>4. ASSUME NEW i \in 1 .. n, NEW j \in 1 .. n, array(i) = array(j)
        PROVE  i = j
    <3>1. holder(i) = holder(j)
      BY <2>3, <2>4
    <3>2. i \in SignedWith(holder(j)) /\ j \in SignedWith(holder(j)) /\ holder(j) \in keys
      BY <2>2, <3>1
    <3>3. own(holder(j))[i] = own(holder(j))[j]
      BY <2>4, <3>1
    <3>4. QED
      BY <2>1, <3>2, <3>3
  <2> HIDE DEF array
  <2>5. \A j \in 1 .. n : f[j] \in K /\ ref(f[j]) = array(j)
    BY <1>2, <2>3
  <2>6. f \in [1 .. n -> K]
    BY <2>5
  <2> HIDE DEF f
  <2>7. \A j \in 1 .. n : <<f[j], j>> \in Accepts
    BY <1>3, <2>2, <2>3, <2>5
  <2>8. \A i, j \in 1 .. n : i # j => ref(f[i]) # ref(f[j])
    BY <2>4, <2>5
  <2>9. Gives(f, n)
    BY <2>6, <2>7, <2>8 DEF Gives, K, ref
  <2>10. QED
    BY <2>9
<1>8. QED
  BY <1>1, <1>6, <1>7 DEF n

\* MultisigMatches: however many keys and signatures there are, where keys can
\* be told apart by what they accept, VERIFYMULTISIG passes just when no holder
\* of a listed key gave more signatures than there are arrays with his key.
THEOREM ScriptMultisigMatches ==
  ASSUME DigestsAreBytes, AnswersAreKnown
  PROVE  Spec => []MultisigMatches
<1>1. ASSUME Sound
      PROVE  MultisigMatches
  <2> DEFINE keys == {heap[ref] : ref \in Range(MultisigKeys)}
             clear == \A j \in DOMAIN MultisigSignatures, key \in keys :
                        /\ Answer(key, heap[MultisigSignatures[j]]) # "malformed"
                        /\ \A other \in keys :
                             j \in SignedWith(key) \cap SignedWith(other) => key = other
             counted == /\ DOMAIN MultisigSignatures = UNION {SignedWith(key) : key \in keys}
                        /\ \A key \in keys :
                             Cardinality(SignedWith(key)) <= Cardinality(ListedAs(key))
  <2>1. SUFFICES ASSUME running, MultisigOperands, Enough(MultisigNumber), clear
                 PROVE  EnoughSignatures <=> counted
    BY DEF MultisigMatches
  <2>2. MultisigKeys \in Seq(Held) /\ MultisigSignatures \in Seq(Held)
    BY <1>1, <2>1, MultisigTypes
  <2>3. \A i \in DOMAIN MultisigKeys : heap[MultisigKeys[i]] \in keys
    BY DEF Range
  <2>4. Unambiguous
    BY <2>1, <2>3 DEF Unambiguous, Accepts, SignedWith
  <2>5. EnoughSignatures <=> \E f : Gives(f, Len(MultisigSignatures))
    BY <1>1, <2>2, <2>4, SearchFinds
  <2>6. (\E f : Gives(f, Len(MultisigSignatures))) <=> counted
    BY <2>2, <2>4, Holders
  <2>7. QED
    BY <2>5, <2>6
<1>2. QED
  BY <1>1, SoundInductive, PTL
=============================================================================
