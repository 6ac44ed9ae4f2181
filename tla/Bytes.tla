------------------------------- MODULE Bytes -------------------------------
(***************************************************************************)
(* Java's byte arrays as scripts use them: signed bytes, and numbers of    *)
(* two widths read from and written to them, the first byte highest. The   *)
(* code has 8, 4 and 8 for the three widths.                               *)
(***************************************************************************)
EXTENDS Integers, Sequences, Functions

CONSTANTS
  ByteBits,
  IntBytes,    \* the bytes of an int
  LongBytes    \* the bytes of a long

ASSUME WidthAssumption ==
  /\ ByteBits \in Nat /\ IntBytes \in Nat /\ LongBytes \in Nat
  /\ 1 < ByteBits /\ 1 < IntBytes /\ IntBytes < LongBytes

\* How many numbers n bytes can hold; half of them are negative.
Radix(n) == 2 ^ (ByteBits * n)
Half(n)  == 2 ^ (ByteBits * n - 1)

\* What is left of a number in n bytes.
Narrow(x, n) == ((x + Half(n)) % (2 * Half(n))) - Half(n)

Byte      == -Half(1) .. Half(1) - 1
ByteArray == Seq(Byte)
IntMax    == Half(IntBytes) - 1

Unsigned(byte) == byte % Radix(1)

\* byteArrayToNumber32 and byteArrayToNumber64: the number in the first n bytes.
Number(bytes, n) ==
  Narrow(SumFunction([i \in 1 .. n |-> Unsigned(bytes[i]) * Radix(n - i)]), n)

\* numberToByteArray32 and numberToByteArray64.
ToBytes(number, n) == [i \in 1 .. n |-> Narrow(number \div Radix(n - i), 1)]

\* Arrays are read as an int unless they have the length of a long.
Width(bytes)   == IF Len(bytes) < LongBytes THEN IntBytes ELSE LongBytes
Numeric(bytes) == Number(bytes, Width(bytes))

-----------------------------------------------------------------------------
\* Java's division rounds towards zero, and its remainder goes with it.
Abs(x)       == IF x < 0 THEN -x ELSE x
Quotient(x, y)  == IF (x < 0) = (y < 0) THEN Abs(x) \div Abs(y) ELSE -(Abs(x) \div Abs(y))
Remainder(x, y) == x - y * Quotient(x, y)

\* The bits of a byte, combined one by one.
Bit(byte, i) == (Unsigned(byte) \div (2 ^ i)) % 2

BitByBit(combine(_, _), x, y) ==
  Narrow(SumFunction([i \in 0 .. ByteBits - 1 |-> (2 ^ i) * combine(Bit(x, i), Bit(y, i))]), 1)

BitOr(x, y)  == IF x + y > 0 THEN 1 ELSE 0
BitAnd(x, y) == x * y
BitXor(x, y) == (x + y) % 2

\* An array made of A's bytes and B's, and of A's alone (or zeros) beyond B.
ByteByByte(combine(_, _), A, B, beyond(_)) ==
  [i \in DOMAIN A |-> IF i > Len(B) THEN beyond(A[i]) ELSE Narrow(combine(A[i], B[i]), 1)]

IsZero(bytes) == \A i \in DOMAIN bytes : bytes[i] = 0
IsTrue(bytes) == bytes = <<1>>

\* Collections.rotate by n, towards the end of the sequence.
Rotate(s, n) == [i \in DOMAIN s |-> s[((i - 1 - n) % Len(s)) + 1]]
=============================================================================
