-------------------------- MODULE ScriptExecution --------------------------
(***************************************************************************)
(* The script machine, and the verification of a transaction input with    *)
(* it: the unlocking script runs on an empty stack, the locking script of  *)
(* the output on what it leaves.                                           *)
(*                                                                         *)
(* The stack holds references to byte arrays: duplicating, picking and     *)
(* calling hand on the same array, and SET and COPY write into it. So does *)
(* the model: heap holds the arrays, stacks hold places in the heap. Arrays*)
(* 1 and 2 are the two scripts of the transactions themselves.             *)
(*                                                                         *)
(* A CALL runs a machine of its own to its end inside a step of its caller;*)
(* here it is one more frame, the last one running. A script exception     *)
(* unwinds all frames and is caught around the first. Java's own           *)
(* exceptions (an index out of bounds) are caught nowhere: "crashed".      *)
(***************************************************************************)
EXTENDS Bytes, ScriptOperator, SequencesExt

CONSTANTS
  Programs,               \* pairs of an unlocking and a locking script
  FlowControl,            \* the values bExtendedFlowControl may have
  MaximumStepsAllowed,
  MaximumAllocation,      \* Short.MAX_VALUE
  Digest(_),              \* SHA512
  Answer(_, _),           \* what a key says of a signature: "yes", "no" or "malformed"
  Floats,                 \* the arrays floating point operations may result in
  Blobs                   \* the arrays compression and encryption may result in

ASSUME ScriptAssumption ==
  /\ \A program \in Programs : program \in ByteArray \X ByteArray
  /\ FlowControl \subseteq BOOLEAN
  /\ MaximumStepsAllowed \in Nat /\ MaximumAllocation \in Nat
  /\ Floats \subseteq {bytes \in ByteArray : Len(bytes) = IntBytes}
  /\ Blobs \subseteq ByteArray

VARIABLES
  extended,     \* bExtendedFlowControl
  heap,         \* the byte arrays
  frames,       \* the machines, each called by the one before it
  stage,        \* of TransactionInput.verify
  executed      \* the instructions that were executed in this stage

vars == <<extended, heap, frames, stage, executed>>

UnlockingScript == 1
LockingScript   == 2

Machine(script, stack, steps) ==
  [Script |-> script, InstructionCounter |-> 0, Stack |-> stack, Steps |-> steps,
   bScriptFailed |-> FALSE, going |-> TRUE]    \* going: step has not returned false

TypeOK ==
  /\ extended \in FlowControl
  /\ heap \in Seq(ByteArray)
  /\ stage \in {"unlocking", "locking", "verified", "rejected", "crashed"}
  /\ executed \in Nat
  /\ \A n \in DOMAIN frames :
       /\ frames[n].Script \in DOMAIN heap
       /\ frames[n].Stack \in Seq(DOMAIN heap)
       /\ frames[n].InstructionCounter \in -IntMax - 1 .. IntMax
       /\ frames[n].Steps \in 0 .. MaximumStepsAllowed + 1
       /\ {frames[n].bScriptFailed, frames[n].going} \subseteq BOOLEAN
       /\ frames[n].bScriptFailed => ~frames[n].going /\ n = Len(frames)
  /\ frames = << >> <=> stage \notin {"unlocking", "locking"}

Init ==
  /\ extended \in FlowControl
  /\ heap \in Programs
  /\ frames = <<Machine(UnlockingScript, << >>, 0)>>
  /\ stage = "unlocking"
  /\ executed = 0

-----------------------------------------------------------------------------
(* The running machine                                                     *)

this    == Last(frames)
running == frames # << >> /\ this.going
code    == heap[this.Script]
depth   == Len(this.Stack)

\* The operand k places from the top, its array, and the stack without k operands.
Ref(k)     == this.Stack[depth + 1 - k]
Operand(k) == heap[Ref(k)]
Without(k) == SubSeq(this.Stack, 1, depth - k)

\* The number in an int operand, and in a single byte.
IntOf(k)    == Number(Operand(k), IntBytes)
Single(k) == Operand(k)[1]

Enough(k)         == depth >= k                        \* checkInsufficientStackSize
AtLeast(k, bytes) == Len(Operand(k)) >= bytes          \* checkInsufficientBytes
Exactly(k, bytes) == Len(Operand(k)) = bytes           \* checkIncorrectNumberBytes
InRange(x, S)     == x \in S                           \* checkNumberIsInRange

\* checkScriptEndsBefore: the sum is an int.
EndsBefore(at, n) == Len(code) >= Narrow(at + n, IntBytes)

-----------------------------------------------------------------------------
(* What a step can do                                                      *)

Fetched == [this EXCEPT !.InstructionCounter = @ + 1, !.Steps = @ + 1]

Become(machine) == frames' = [frames EXCEPT ![Len(frames)] = machine] /\ UNCHANGED stage

\* Go on with these references on the stack.
Arrange(stack) == Become([Fetched EXCEPT !.Stack = stack]) /\ UNCHANGED heap

\* Pop k operands and push new arrays.
PushAll(k, arrays) ==
  /\ Become([Fetched EXCEPT !.Stack = Without(k) \o [i \in DOMAIN arrays |-> Len(heap) + i]])
  /\ heap' = heap \o arrays

Push(k, bytes) == PushAll(k, <<bytes>>)

PushBoolean(k, condition) == Push(k, IF condition THEN <<1>> ELSE <<0>>)

\* Pop k operands and return false: the machine stops, as failed or not. What it
\* leaves on its stack goes to the locking script or to its caller.
Halt(k, failing) ==
  /\ Become([Fetched EXCEPT !.Stack = Without(k), !.going = FALSE, !.bScriptFailed = failing])
  /\ UNCHANGED heap

\* A script exception: the machine that throws may note that it failed, its
\* callers do not.
Throw(failing) ==
  /\ frames' = <<[frames[1] EXCEPT !.going = FALSE,
                                   !.bScriptFailed = failing /\ Len(frames) = 1]>>
  /\ UNCHANGED <<heap, stage>>

\* An exception of Java itself.
Crash == frames' = << >> /\ stage' = "crashed" /\ UNCHANGED heap

\* The machine fetches one of these operators.
Fetches(operators) ==
  /\ running
  /\ this.InstructionCounter \in 0 .. Len(code) - 1
  /\ this.Steps <= MaximumStepsAllowed
  /\ getByOpCode(code[this.InstructionCounter + 1]) \in operators
  /\ executed' = executed + 1
  /\ UNCHANGED extended

operator == getByOpCode(code[this.InstructionCounter + 1])

\* An operator that checks its operands and then has its effect.
Instruction(operators, checks, effect) ==
  /\ Fetches(operators)
  /\ \/ checks /\ effect
     \/ ~checks /\ Throw(TRUE)

-----------------------------------------------------------------------------
(* Floating point: any of Floats may result                                *)

FloatOf(k, operators) ==
  Instruction(operators, Enough(k) /\ \A i \in 1 .. k : Exactly(i, IntBytes),
              \E result \in Floats : Push(k, result))

FloatPower    == FloatOf(2, {"EXPONENT", "ROOT"})
FloatFunction == FloatOf(1, {"FABS", "LOG", "SIN", "COS", "TAN", "ASIN", "ACOS", "ATAN"})
FloatLogarithm == FloatOf(2, {"LOGN"})
FloatRound    == FloatOf(1, {"FLOOR", "CEIL", "ROUND"})
FloatNegate   == FloatOf(1, {"NEGATEFLOAT"})
FloatArithmetic == FloatOf(2, {"ADDFLOAT", "SUBTRACTFLOAT", "MULTIPLYFLOAT"})

\* The divisor may be zero or not finite.
FloatDivide ==
  \/ FloatOf(2, {"DIVIDEFLOAT"})
  \/ Instruction({"DIVIDEFLOAT"}, Enough(2) /\ Exactly(1, IntBytes) /\ Exactly(2, IntBytes),
                 Halt(2, TRUE))

FloatTest ==
  Instruction({"ISNAN", "ISINF", "ISFIN"}, Enough(1) /\ Exactly(1, IntBytes),
              \E result \in BOOLEAN : PushBoolean(1, result))

FloatConstant(op) == Instruction({op}, TRUE, \E result \in Floats : Push(0, result))

PushPi == FloatConstant("PI")
PushE  == FloatConstant("E")

\* These read the first bytes of a longer array, too.
FloatOfFirst(operators) ==
  Instruction(operators, Enough(1) /\ AtLeast(1, IntBytes),
              \E result \in Floats : Push(1, result))

FloatInvert  == FloatOfFirst({"INVERTFLOAT"})
FloatConvert == FloatOfFirst({"CONVERTFLOATTO32", "CONVERT32TOFLOAT"})

-----------------------------------------------------------------------------
(* Constants and data in the script                                        *)

PushNull == Instruction({"NULL"}, TRUE, Push(0, << >>))

PushInstruction ==
  Instruction({"INSTRUCTION"}, TRUE, Push(0, ToBytes(this.InstructionCounter + 1, IntBytes)))

PushBool ==
  Instruction({"TRUE", "FALSE"}, TRUE, PushBoolean(0, operator = "TRUE"))

PushDepth == Instruction({"DEPTH"}, TRUE, Push(0, <<Narrow(depth, 1)>>))

Nop == Instruction({"NOP"}, TRUE, Arrange(this.Stack))

\* An operator is followed by a header, and that by as much data as the last
\* bytes of the header say. The data are pushed or skipped.
Follows(header, width, pushed) ==
  LET at     == this.InstructionCounter + 1
      length == Number(SubSeq(code, at + header - width + 1, at + header), width)
      end    == at + header + length
      past   == [Fetched EXCEPT !.InstructionCounter = end]
      held   == at + header <= Len(code)     \* not so if only the sum that is checked overflowed
  IN  \/ ~EndsBefore(at, header) /\ Throw(TRUE)
      \/ /\ EndsBefore(at, header)
         /\ \/ held /\ length <= 0 /\ Halt(0, TRUE)
            \/ held /\ length > 0 /\ ~EndsBefore(at + header, length) /\ Throw(TRUE)
            \/ /\ held => length > 0 /\ EndsBefore(at + header, length) /\ end > Len(code)
               /\ Crash
            \/ /\ held /\ length > 0
               /\ end <= Len(code)
               /\ IF pushed
                  THEN /\ heap' = Append(heap, SubSeq(code, at + header + 1, end))
                       /\ Become([past EXCEPT !.Stack = Append(@, Len(heap) + 1)])
                  ELSE Become(past) /\ UNCHANGED heap

PushData    == Fetches({"PUSH"}) /\ Follows(1, 1, TRUE)
BigPushData == Fetches({"BIGPUSH"}) /\ Follows(IntBytes, IntBytes, TRUE)
FlagData    == Fetches({"FLAGDATA"}) /\ Follows(2, 1, FALSE)

Flag ==
  Instruction({"FLAG"}, EndsBefore(this.InstructionCounter + 1, 1),
    IF this.InstructionCounter + 1 < Len(code)
    THEN Become([Fetched EXCEPT !.InstructionCounter = @ + 1]) /\ UNCHANGED heap
    ELSE Crash)

-----------------------------------------------------------------------------
(* Comparing                                                               *)

\* A single byte, or an int or a long at the start of the array. Two or three
\* bytes pass the check and are read as four.
Readable(bytes) == Len(bytes) = 1 \/ Len(bytes) >= IntBytes
Value(bytes)    == IF Len(bytes) = 1 THEN bytes[1] ELSE Numeric(bytes)

Compares(x, y) ==
  CASE operator = "NUMEQUAL"         -> x = y
    [] operator = "LESSTHAN"         -> x < y
    [] operator = "LESSTHANEQUAL"    -> x <= y
    [] operator = "GREATERTHAN"      -> x > y
    [] operator = "GREATERTHANEQUAL" -> x >= y

Comparison(operators) ==
  Instruction(operators, Enough(2) /\ AtLeast(1, 1) /\ AtLeast(2, 1),
    IF Readable(Operand(1)) /\ Readable(Operand(2))
    THEN PushBoolean(2, Compares(Value(Operand(2)), Value(Operand(1))))
    ELSE Crash)

CompareEqual == Comparison({"NUMEQUAL"})
CompareOrder == Comparison({"LESSTHAN", "LESSTHANEQUAL", "GREATERTHAN", "GREATERTHANEQUAL"})

CompareArrays ==
  Instruction({"BYTESEQUAL", "SHA512EQUAL", "LENEQUAL"}, Enough(2),
    PushBoolean(2,
      CASE operator = "BYTESEQUAL"  -> Operand(2) = Operand(1)
        [] operator = "SHA512EQUAL" -> Operand(2) = Digest(Operand(1))
        [] operator = "LENEQUAL"    -> Len(Operand(2)) = Len(Operand(1))))

CompareUnequal == Instruction({"NOTEQUAL"}, Enough(2), PushBoolean(2, Operand(2) # Operand(1)))
CompareZero    == Instruction({"NOTZERO"}, Enough(1), PushBoolean(1, ~IsZero(Operand(1))))

-----------------------------------------------------------------------------
(* Elements by their place, counted from the bottom and from 0             *)

\* Source's bytes from sourceBegin on, written over the length bytes of dest
\* from destBegin on.
Overwritten(dest, destBegin, source, sourceBegin, length) ==
  [i \in DOMAIN dest |->
     IF i \in destBegin + 1 .. destBegin + length
     THEN source[sourceBegin + i - destBegin] ELSE dest[i]]

Get ==
  LET length  == IntOf(1)
      begin   == IntOf(2)
      element == IntOf(3)
      from    == heap[this.Stack[element + 1]]
  IN  Instruction({"GET"},
        /\ Enough(3) /\ \A k \in 1 .. 3 : AtLeast(k, IntBytes)
        /\ InRange(element, 0 .. depth - 4)
        /\ InRange(length, 0 .. Len(from))
        /\ InRange(begin, 0 .. Len(from))
        /\ begin + length <= Len(from),
        Push(3, SubSeq(from, begin + 1, begin + length)))

\* A negative beginning passes the checks.
Set ==
  LET length  == IntOf(1)
      begin   == IntOf(2)
      element == IntOf(3)
      source  == Operand(4)
      dest    == this.Stack[element + 1]
  IN  Instruction({"SET"},
        /\ Enough(4) /\ \A k \in 1 .. 3 : AtLeast(k, IntBytes)
        /\ InRange(element, 0 .. depth - 5)
        /\ InRange(length, 0 .. Len(source))
        /\ InRange(Narrow(begin + length, IntBytes), 0 .. Len(heap[dest])),
        IF begin < 0 THEN Crash
        ELSE /\ Become([Fetched EXCEPT !.Stack = Without(4)])
             /\ heap' = [heap EXCEPT ![dest] = Overwritten(@, begin, source, 0, length)])

\* The range of the source's place is checked twice, that of the
\* destination's only from above.
Copy ==
  LET length      == IntOf(1)
      destBegin   == IntOf(2)
      destElement == IntOf(3)
      begin       == IntOf(4)
      element     == IntOf(5)
      source      == heap[this.Stack[element + 1]]
      dest        == this.Stack[destElement + 1]
      room(array, from) ==
        /\ InRange(length, 0 .. Len(array))
        /\ InRange(from, 0 .. Len(array))
        /\ from + length <= Len(array)
      checks ==
        /\ Enough(5) /\ \A k \in 1 .. 5 : AtLeast(k, IntBytes)
        /\ InRange(element, 0 .. depth - 6)
        /\ room(source, begin)
        /\ depth - 5 >= Narrow(destElement + 1, IntBytes)
  IN  /\ Fetches({"COPY"})
      /\ \/ ~checks /\ Throw(TRUE)
         \/ checks /\ destElement \notin 0 .. depth - 6 /\ Crash
         \/ /\ checks /\ destElement \in 0 .. depth - 6
            /\ IF room(heap[dest], destBegin)
               THEN /\ Become([Fetched EXCEPT !.Stack = Without(5)])
                    /\ heap' = [heap EXCEPT ![dest] =
                                  Overwritten(@, destBegin, source, begin, length)]
               ELSE Throw(TRUE)

Alloc ==
  Instruction({"ALLOC"},
    Enough(1) /\ AtLeast(1, IntBytes) /\ InRange(IntOf(1), 0 .. MaximumAllocation),
    Push(1, [i \in 1 .. IntOf(1) |-> 0]))

\* Slip: the running script can be had without extended flow control.
PushThisAlways == Instruction({"THIS"}, TRUE, Arrange(Append(this.Stack, this.Script)))

PushThis == Instruction({"THIS"}, extended, Arrange(Append(this.Stack, this.Script)))

Pick ==
  Instruction({"PICK"}, Enough(2) /\ Exactly(1, 1) /\ depth - 1 >= Single(1) + 1,
    IF Single(1) < 0 THEN Halt(1, TRUE)
    ELSE Arrange(Append(Without(1), this.Stack[Single(1) + 1])))

Put ==
  Instruction({"PUT"}, Enough(2) /\ Exactly(1, 1) /\ depth - 2 >= Single(1) + 1,
    IF Single(1) < 0 THEN Halt(2, TRUE)
    ELSE Arrange([Without(2) EXCEPT ![Single(1) + 1] = Ref(2)]))

-----------------------------------------------------------------------------
(* Calculating                                                             *)

Plus(x, y)  == x + y
Minus(x, y) == x - y
Times(x, y) == x * y

\* The result of two numbers has the width of the wider one.
Calculation(operators, result(_, _)) ==
  LET width == IF Width(Operand(1)) > Width(Operand(2)) THEN Width(Operand(1))
               ELSE Width(Operand(2))
  IN  Instruction(operators, Enough(2) /\ AtLeast(1, IntBytes) /\ AtLeast(2, IntBytes),
        IF operator \in {"DIVIDE", "MODULO"} /\ Numeric(Operand(1)) = 0 THEN Halt(2, TRUE)
        ELSE Push(2, ToBytes(Narrow(result(Numeric(Operand(2)), Numeric(Operand(1))), width),
                             width)))

Add      == Calculation({"ADD"}, Plus)
Subtract == Calculation({"SUBTRACT"}, Minus)
Multiply == Calculation({"MULTIPLY"}, Times)
Divide   == Calculation({"DIVIDE"}, Quotient)
Modulo   == Calculation({"MODULO"}, Remainder)

OfOneNumber(operators, result(_)) ==
  LET width == Width(Operand(1))
  IN  Instruction(operators, Enough(1) /\ AtLeast(1, IntBytes),
        Push(1, ToBytes(Narrow(result(Numeric(Operand(1))), width), width)))

Absolute == OfOneNumber({"ABS"}, Abs)
Negate   == OfOneNumber({"NEGATE"}, LAMBDA x : -x)

\* Where B is too short A is left as it is.
CalculateBytes ==
  LET A == Operand(2)
      B == Operand(1)
      same(x) == x
  IN  Instruction({"ADDBYTES", "SUBTRACTBYTES", "MULTIPLYBYTES"}, Enough(2),
        Push(2, CASE operator = "ADDBYTES"      -> ByteByByte(Plus, A, B, same)
                  [] operator = "SUBTRACTBYTES" -> ByteByByte(Minus, A, B, same)
                  [] operator = "MULTIPLYBYTES" -> ByteByByte(Times, A, B, same)))

DivideBytes ==
  LET A == Operand(2)
      B == Operand(1)
      same(x) == x
  IN  Instruction({"DIVIDEBYTES"}, Enough(2),
        IF \E i \in DOMAIN A \cap DOMAIN B : B[i] = 0 THEN Halt(2, TRUE)
        ELSE Push(2, ByteByByte(Quotient, A, B, same)))

Convert(op, bytes, result) ==
  Instruction({op}, Enough(1) /\ AtLeast(1, bytes), Push(1, result))

Convert8To32  == Convert("CONVERT8TO32", 1, ToBytes(Single(1), IntBytes))
Convert32To8  == Convert("CONVERT32TO8", IntBytes, <<Narrow(IntOf(1), 1)>>)
Convert64To32 ==
  Convert("CONVERT64TO32", LongBytes,
          ToBytes(Narrow(Number(Operand(1), LongBytes), IntBytes), IntBytes))
Convert32To64 == Convert("CONVERT32TO64", IntBytes, ToBytes(IntOf(1), LongBytes))

BitNot ==
  Instruction({"BITNOT"}, Enough(1), Push(1, [i \in DOMAIN Operand(1) |-> -1 - Operand(1)[i]]))

\* Arrays of different lengths stop the script, and it does not fail.
BitCombine ==
  LET A == Operand(2)
      B == Operand(1)
      combine(x, y) == CASE operator = "BITOR"  -> BitOr(x, y)
                         [] operator = "BITAND" -> BitAnd(x, y)
                         [] operator = "BITXOR" -> BitXor(x, y)
  IN  Instruction({"BITOR", "BITAND", "BITXOR"}, Enough(2),
        IF Len(A) # Len(B) THEN Halt(2, FALSE)
        ELSE Push(2, [i \in DOMAIN A |-> BitByBit(combine, A[i], B[i])]))

\* Bytes as booleans: only 1 is true. Where B is too short A is left as it is,
\* or, with AND, false.
Negation ==
  Instruction({"NOT"}, Enough(1),
    Push(1, [i \in DOMAIN Operand(1) |-> IF Operand(1)[i] = 0 THEN 1 ELSE 0]))

Logic ==
  LET holds(x, y) == CASE operator = "OR"  -> x = 1 \/ y = 1
                       [] operator = "AND" -> x = 1 /\ y = 1
                       [] operator = "XOR" -> (x = 1) # (y = 1)
      combine(x, y) == IF holds(x, y) THEN 1 ELSE 0
      beyond(x)     == IF operator = "AND" THEN 0 ELSE x
  IN  Instruction({"OR", "AND", "XOR"}, Enough(2),
        Push(2, ByteByByte(combine, Operand(2), Operand(1), beyond)))

-----------------------------------------------------------------------------
(* Arrays                                                                  *)

Concatenate == Instruction({"APPEND"}, Enough(2), Push(2, Operand(2) \o Operand(1)))

ReverseArray == Instruction({"REVERSE"}, Enough(1), Push(1, Reverse(Operand(1))))

Limit ==
  LET n == IF Single(1) < 0 THEN 0
           ELSE IF Single(1) > Len(Operand(2)) THEN Len(Operand(2)) ELSE Single(1)
  IN  Instruction({"LIMIT"}, Enough(2) /\ Exactly(1, 1), Push(2, SubSeq(Operand(2), 1, n)))

Split ==
  Instruction({"SPLIT"}, Enough(1), PushAll(1, [i \in DOMAIN Operand(1) |-> <<Operand(1)[i]>>]))

\* How many operands a byte asks for: none if it is negative.
Count(n) == IF n < 0 THEN 0 ELSE n

Joined(A, B) == A \o B

Combine ==
  LET n == Count(Single(1))
  IN  Instruction({"COMBINE"}, Enough(2) /\ Exactly(1, 1) /\ depth - 1 >= n,
        Push(1 + n, FoldLeft(Joined, << >>, [i \in 1 .. n |-> Operand(2 + n - i)])))

Length == Instruction({"LEN"}, Enough(1), Push(0, ToBytes(Len(Operand(1)), IntBytes)))

ShiftElements ==
  Instruction({"SHIFTELEMENTSRIGHT", "SHIFTELEMENTSLEFT"}, Enough(1),
    Push(1, Rotate(Operand(1), IF operator = "SHIFTELEMENTSRIGHT" THEN 1 ELSE -1)))

HashTop == Instruction({"SHA512"}, Enough(1), Push(1, Digest(Operand(1))))

ZlibHeader == <<120, -100>>

\* Compression and encryption of the Java platform result in some array.
Transform(op, k) == Instruction({op}, Enough(k), \E blob \in Blobs : Push(k, blob))

Compress == Transform("ZIP", 1)
Encrypt  == Transform("ENCRYPTAES", 2)

\* What was not encrypted, or not with this key, fails the script.
Decrypt ==
  \/ Transform("DECRYPTAES", 2)
  \/ Fetches({"DECRYPTAES"}) /\ Enough(2) /\ Halt(2, TRUE)

\* unzipBytes looks at the first byte, and if that is a zlib header's at the
\* second, before it looks at the length. Without a zlib header its exceptions
\* are swallowed and it may return an empty array.
Decompress ==
  LET bytes == Operand(1)
  IN  Instruction({"UNZIP"}, Enough(1),
        CASE bytes \in {<< >>, <<ZlibHeader[1]>>} -> Crash
          [] IsPrefix(ZlibHeader, bytes) -> Halt(1, TRUE) \/ \E blob \in Blobs : Push(1, blob)
          [] OTHER -> \E blob \in Blobs \cup {<< >>} : Push(1, blob))

-----------------------------------------------------------------------------
(* The stack as a whole                                                    *)

Rearrange(op, needed, stack) == Instruction({op}, Enough(needed), Arrange(stack))

Drop      == Rearrange("DROP", 1, Without(1))
Dup       == Rearrange("DUP", 1, Append(this.Stack, Ref(1)))
Dup2      == Rearrange("DUP2", 2, this.Stack \o <<Ref(2), Ref(1)>>)
Swap      == Rearrange("SWAP", 2, Without(2) \o <<Ref(1), Ref(2)>>)
Clear     == Rearrange("CLEAR", 0, << >>)
Clone     == Rearrange("CLONE", 0, this.Stack \o this.Stack)
Flip      == Rearrange("FLIP", 0, Reverse(this.Stack))
ShiftUp   == Rearrange("SHIFTUP", 0, Rotate(this.Stack, 1))
ShiftDown == Rearrange("SHIFTDOWN", 0, Rotate(this.Stack, -1))

\* These take a number from a single byte on top.
RearrangeMany(op, needed(_), stack(_)) ==
  Instruction({op}, Enough(1) /\ Exactly(1, 1) /\ depth - 1 >= needed(Single(1)),
              Arrange(stack(Single(1))))

\* The n operands below the top one, and the stack without them.
Uppermost(n) == SubSeq(this.Stack, depth - Count(n), depth - 1)
Below(n)     == Without(1 + Count(n))

DupN   == RearrangeMany("DUPN", LAMBDA n : n, LAMBDA n : Without(1) \o Uppermost(n))
DropN  == RearrangeMany("DROPN", LAMBDA n : n, Below)
ShiftN == RearrangeMany("SHIFTN", LAMBDA n : 0, LAMBDA n : Rotate(Without(1), n))

ShiftNExcept ==
  LET excluded == Single(1)
  IN  Instruction({"SHIFTNEXCEPT"},
        Enough(2) /\ Exactly(1, 1) /\ Exactly(2, 1) /\ InRange(excluded, 0 .. depth - 2),
        Arrange(SubSeq(this.Stack, 1, excluded)
                  \o Rotate(SubSeq(this.Stack, excluded + 1, depth - 2), Single(2))))

-----------------------------------------------------------------------------
(* Verdicts                                                                *)

Drops(k) == Become([Fetched EXCEPT !.Stack = Without(k)]) /\ UNCHANGED heap

Verify ==
  Instruction({"VERIFY"}, Enough(1), IF IsTrue(Operand(1)) THEN Drops(1) ELSE Halt(1, TRUE))

Return == Instruction({"RETURN"}, TRUE, Halt(0, TRUE))

ReturnIf ==
  Instruction({"RETURNIF"}, Enough(1), IF IsTrue(Operand(1)) THEN Halt(1, TRUE) ELSE Drops(1))

\* The message that was signed is only set for the locking script.
MessageMissing == stage = "unlocking"

VerifySig ==
  \/ Fetches({"VERIFYSIG"}) /\ MessageMissing /\ Halt(0, TRUE)
  \/ /\ ~MessageMissing
     /\ Instruction({"VERIFYSIG"}, Enough(2), Halt(2, Answer(Operand(1), Operand(2)) # "yes"))

\* From the top: the number of keys, the keys, the number of signatures, the
\* signatures.
MultisigKeys   == Reverse(Uppermost(Single(1)))
MultisigNumber == 2 + Len(MultisigKeys)             \* the place of the number of signatures
MultisigSignatures ==
  LET n == Count(Single(MultisigNumber))
  IN  [i \in 1 .. n |-> Ref(MultisigNumber + i)]
MultisigPopped == MultisigNumber + Count(Single(MultisigNumber))

\* Slip: a key may be taken again.
NeverPassedOver(key, taken) == FALSE

\* VerifiedPublicKeys.contains compares references, not the keys' bytes.
PassedOver(key, taken) == key \in taken

\* A signature takes the first of the keys that accepts it, if no key before
\* that is malformed; keys that were taken are passed over.
TakeKey(state, signature) ==
  LET says(key) == Answer(heap[key], heap[signature])
      open == {i \in DOMAIN MultisigKeys : /\ ~PassedOver(MultisigKeys[i], state.taken)
                                           /\ says(MultisigKeys[i]) # "no"}
      key  == MultisigKeys[Min(open)]
  IN  IF state.found /\ open # {} /\ says(key) = "yes"
      THEN [state EXCEPT !.taken = @ \cup {key}]
      ELSE [state EXCEPT !.found = FALSE]

EnoughSignatures ==
  FoldLeft(TakeKey, [found |-> TRUE, taken |-> {}], MultisigSignatures).found

MultisigOperands ==
  /\ Enough(1) /\ Exactly(1, 1)
  /\ depth - 1 >= Single(1) + 1
  /\ Enough(MultisigNumber) =>
       /\ Exactly(MultisigNumber, 1)
       /\ depth - MultisigNumber >= Single(MultisigNumber)

\* With a negative number of keys the next pop may find an empty stack.
VerifyMultisig ==
  \/ Fetches({"VERIFYMULTISIG"}) /\ MessageMissing /\ Halt(0, TRUE)
  \/ /\ ~MessageMissing
     /\ Instruction({"VERIFYMULTISIG"}, MultisigOperands,
          IF Enough(MultisigNumber) THEN Halt(MultisigPopped, ~EnoughSignatures) ELSE Crash)

-----------------------------------------------------------------------------
(* Calls and jumps                                                         *)

\* The called machine starts with this machine's steps and the operands it is
\* given.
Call ==
  Instruction({"CALL"},
    Enough(2) /\ AtLeast(1, 1) /\ Exactly(2, 1) /\ depth - 2 >= Single(2),
    LET n == Count(Single(2))
    IN  /\ frames' = Front(frames)
                       \o << [Fetched EXCEPT !.Stack = Without(2 + n)],
                             Machine(Ref(1), SubSeq(this.Stack, depth - 1 - n, depth - 2),
                                     Fetched.Steps) >>
        /\ UNCHANGED <<heap, stage>>)

Destination == IF Len(Operand(1)) = IntBytes THEN IntOf(1) ELSE Single(1)

\* Slip: without extended flow control, too, a jump may go back.
MayJumpAnywhere == EndsBefore(this.InstructionCounter + 1, Destination)

MayJump ==
  /\ EndsBefore(this.InstructionCounter + 1, Destination)
  /\ ~extended => Destination > 0

\* The destination counts from the jump itself.
Jumped(k) ==
  /\ Become([Fetched EXCEPT !.Stack = Without(k),
                            !.InstructionCounter = Narrow(@ + Destination - 1, IntBytes)])
  /\ UNCHANGED heap

Jump == Instruction({"JUMP"}, Enough(1) /\ AtLeast(1, 1) /\ MayJump, Jumped(1))

JumpIf ==
  Instruction({"JUMPIF"},
    Enough(2) /\ AtLeast(1, 1) /\ Exactly(2, 1) /\ (Single(2) = 0 \/ MayJump),
    IF Single(2) = 0 THEN Drops(2) ELSE Jumped(2))

\* Codes without an operator and operators without a case.
Unhandled == Fetches({"null", "TIME", "CODESEPARATOR"}) /\ Throw(TRUE)

-----------------------------------------------------------------------------
(* Between the instructions                                                *)

EndOfScript ==
  /\ running
  /\ this.InstructionCounter >= Len(code)
  /\ frames' = [frames EXCEPT ![Len(frames)].going = FALSE]
  /\ UNCHANGED <<extended, heap, stage, executed>>

\* The limit is an exception that leaves bScriptFailed as it is.
StepLimit ==
  /\ running
  /\ this.InstructionCounter < Len(code)
  /\ this.Steps > MaximumStepsAllowed
  /\ Throw(FALSE)
  /\ UNCHANGED <<extended, executed>>

\* A jump has gone to before the script.
BeforeScript ==
  /\ running
  /\ this.InstructionCounter < 0
  /\ this.Steps <= MaximumStepsAllowed
  /\ Crash
  /\ UNCHANGED <<extended, executed>>

Returning == Len(frames) > 1 /\ ~this.going

\* The caller gets what the called machine leaves on its stack, and a verdict.
Returned(steps) ==
  LET caller == frames[Len(frames) - 1]
  IN  [caller EXCEPT !.Stack = @ \o this.Stack \o <<Len(heap) + 1>>, !.Steps = steps]

Returns(steps) ==
  /\ Returning
  /\ frames' = Append(Front(Front(frames)), Returned(steps))
  /\ heap' = Append(heap, IF this.bScriptFailed THEN <<0>> ELSE <<1>>)
  /\ UNCHANGED <<extended, stage, executed>>

\* Slip: the caller goes on with the steps it had.
ReturnForgettingSteps == Returns(frames[Len(frames) - 1].Steps)

\* Slip: the caller of a machine that failed waits forever.
ReturnOfSuccess == Returns(this.Steps) /\ ~this.bScriptFailed

\* Slip: the called machine's steps, which began with its caller's, are added.
ReturnAddingSteps == Returns(frames[Len(frames) - 1].Steps + this.Steps)

ReturnFromCall == Returns(this.Steps)

Stopped == Len(frames) = 1 /\ ~this.going

\* verify: the locking script gets the unlocking script's stack.
StartLocking ==
  /\ Stopped
  /\ stage = "unlocking"
  /\ \/ /\ this.bScriptFailed
        /\ stage' = "rejected" /\ frames' = << >> /\ UNCHANGED executed
     \/ /\ ~this.bScriptFailed
        /\ stage' = "locking" /\ executed' = 0
        /\ frames' = <<Machine(LockingScript, this.Stack, 0)>>
  /\ UNCHANGED <<extended, heap>>

EndVerification ==
  /\ Stopped
  /\ stage = "locking"
  /\ stage' = IF this.bScriptFailed THEN "rejected" ELSE "verified"
  /\ frames' = << >>
  /\ UNCHANGED <<extended, heap, executed>>

-----------------------------------------------------------------------------
FloatStep ==
  \/ FloatPower \/ FloatFunction \/ FloatLogarithm \/ FloatRound \/ FloatNegate
  \/ FloatArithmetic \/ FloatDivide \/ FloatTest \/ FloatInvert \/ FloatConvert
  \/ PushPi \/ PushE

DataStep ==
  \/ PushNull \/ PushInstruction \/ PushBool \/ PushDepth \/ Nop
  \/ PushData \/ BigPushData \/ FlagData \/ Flag

CompareStep == CompareEqual \/ CompareOrder \/ CompareArrays \/ CompareUnequal \/ CompareZero

MemoryStep == Get \/ Set \/ Copy \/ Alloc \/ PushThis \/ Pick \/ Put

CalculateStep ==
  \/ Add \/ Subtract \/ Multiply \/ Divide \/ Modulo \/ Absolute \/ Negate
  \/ CalculateBytes \/ DivideBytes \/ Convert8To32 \/ Convert32To8 \/ Convert64To32
  \/ Convert32To64 \/ BitNot \/ BitCombine \/ Negation \/ Logic

ArrayStep ==
  \/ Concatenate \/ ReverseArray \/ Limit \/ Split \/ Combine \/ Length \/ ShiftElements
  \/ HashTop \/ Compress \/ Decompress \/ Encrypt \/ Decrypt

StackStep ==
  \/ Drop \/ Dup \/ Dup2 \/ Swap \/ Clear \/ Clone \/ Flip \/ ShiftUp \/ ShiftDown
  \/ DupN \/ DropN \/ ShiftN \/ ShiftNExcept

ControlStep ==
  \/ Verify \/ Return \/ ReturnIf \/ VerifySig \/ VerifyMultisig
  \/ Call \/ Jump \/ JumpIf \/ Unhandled

\* step, TransactionInput.verify around it.
Next ==
  \/ FloatStep \/ DataStep \/ CompareStep \/ MemoryStep
  \/ CalculateStep \/ ArrayStep \/ StackStep \/ ControlStep
  \/ EndOfScript \/ StepLimit \/ BeforeScript
  \/ ReturnFromCall \/ StartLocking \/ EndVerification

\* The loop around step and the calls run in one thread that nothing stops.
Spec == Init /\ [][Next]_vars /\ WF_vars(Next)

-----------------------------------------------------------------------------
\* Every verification comes to an end, whatever the scripts are, calls of
\* calls and backward jumps included: the step limit is not evaded.
Terminates == <>(frames = << >>)

\* A script and all the machines it calls together execute no more than the
\* allowed number of instructions, and the one that exceeds it: Steps is handed
\* to the called machine and taken back.
StepsShared == executed <= MaximumStepsAllowed + 1

Executes == frames # << >> /\ executed' = executed + 1

\* Without extended flow control an instruction that was executed, or jumped
\* over, is never executed again by the same machine. (A jump that overflows
\* the counter leaves the script.)
ForwardOnly ==
  [][LET n == Len(frames)
     IN  ~extended /\ Executes /\ n \in DOMAIN frames' /\ frames'[n].going =>
           \/ frames'[n].InstructionCounter > this.InstructionCounter
           \/ frames'[n].InstructionCounter < 0]_vars

\* Without extended flow control no script can reach the scripts of the
\* transactions being verified, which the storage goes on using: SET and COPY
\* write into arrays, and only THIS would hand those out.
TransactionUntouched ==
  [][~extended => \A n \in {UnlockingScript, LockingScript} : heap'[n] = heap[n]]_vars

\* The signatures a key accepts, and the arrays its bytes are listed in.
SignedWith(key) ==
  {j \in DOMAIN MultisigSignatures : Answer(key, heap[MultisigSignatures[j]]) = "yes"}
ListedAs(key) == {ref \in Range(MultisigKeys) : heap[ref] = key}

\* Where no signature fits two keys and no key is malformed, VERIFYMULTISIG
\* passes exactly when every signature is some listed key's and no keyholder gave
\* more of them than there are arrays with his key. So one keyholder may sign
\* twice if his key is listed in two arrays: the comment there, that verified
\* keys are skipped because "otherwise one keyholder could submit multiple
\* sigs", holds of one array listed twice (by DUP) and not of equal arrays.
MultisigMatches ==
  (/\ running
   /\ this.InstructionCounter \in 0 .. Len(code) - 1
   /\ operator = "VERIFYMULTISIG"
   /\ MultisigOperands /\ Enough(MultisigNumber)) =>
  LET keys  == {heap[ref] : ref \in Range(MultisigKeys)}
      clear == \A j \in DOMAIN MultisigSignatures, key \in keys :
                 /\ Answer(key, heap[MultisigSignatures[j]]) # "malformed"
                 /\ \A other \in keys : j \in SignedWith(key) \cap SignedWith(other) => key = other
  IN  clear =>
        (EnoughSignatures <=>
           /\ DOMAIN MultisigSignatures = UNION {SignedWith(key) : key \in keys}
           /\ \A key \in keys : Cardinality(SignedWith(key)) <= Cardinality(ListedAs(key)))

\* What ScriptOperator says of CALL: whenever a called machine stops, its
\* caller goes on with a true or a false on its stack.
CallAnswers ==
  [][Len(frames) > 1 /\ Len(frames') < Len(frames) =>
       /\ Len(frames') = Len(frames) - 1
       /\ Last(frames').going
       /\ heap'[Last(Last(frames').Stack)] \in {<<0>>, <<1>>}]_vars
=============================================================================
