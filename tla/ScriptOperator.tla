--------------------------- MODULE ScriptOperator ---------------------------
(***************************************************************************)
(* The operators of a script and their codes, in the groups in which       *)
(* ScriptExecution treats them alike.                                      *)
(***************************************************************************)
EXTENDS Integers, TLC, Functions

Pushing == [
  NOP |-> 0, PUSH |-> 1, INSTRUCTION |-> 2, FLAG |-> 3, BIGPUSH |-> 4, FLAGDATA |-> 5,
  TIME |-> 6, PUT |-> 8] @@ "PICK" :> 7

Comparing == [
  NUMEQUAL |-> 16, BYTESEQUAL |-> 17, SHA512EQUAL |-> 18, LENEQUAL |-> 19, LESSTHAN |-> 20,
  LESSTHANEQUAL |-> 21, GREATERTHAN |-> 22, GREATERTHANEQUAL |-> 23, NOTEQUAL |-> 24,
  NOTZERO |-> 25]

Memory == [GET |-> 26, SET |-> 27, COPY |-> 28, ALLOC |-> 29, THIS |-> 30]

Calculating == [
  ADD |-> 32, SUBTRACT |-> 33, MULTIPLY |-> 34, DIVIDE |-> 35, ADDBYTES |-> 36,
  SUBTRACTBYTES |-> 37, MULTIPLYBYTES |-> 38, DIVIDEBYTES |-> 39, NEGATE |-> 40, MODULO |-> 41,
  CONVERT8TO32 |-> 42, CONVERT32TO8 |-> 43, CONVERT64TO32 |-> 44, CONVERT32TO64 |-> 45,
  CONVERTFLOATTO32 |-> 46, CONVERT32TOFLOAT |-> 47,
  BITNOT |-> 49, BITOR |-> 50, BITAND |-> 51, BITXOR |-> 52]

Arrays == [
  APPEND |-> 64, LIMIT |-> 65, REVERSE |-> 66, SPLIT |-> 67, COMBINE |-> 68, LEN |-> 69,
  NOT |-> 80, OR |-> 81, AND |-> 82, XOR |-> 83]

Floating == [
  INVERTFLOAT |-> 96, NEGATEFLOAT |-> 97, ADDFLOAT |-> 98, SUBTRACTFLOAT |-> 99,
  MULTIPLYFLOAT |-> 100, DIVIDEFLOAT |-> 101, LOGN |-> 102, ISINF |-> 103, ISFIN |-> 104,
  EXPONENT |-> 112, ROOT |-> 113, ABS |-> 114, FABS |-> 115, LOG |-> 116, SIN |-> 117,
  PI |-> 118, COS |-> 119, TAN |-> 120, ASIN |-> 121, ACOS |-> 122, ATAN |-> 123,
  FLOOR |-> 124, CEIL |-> 125, ROUND |-> 126, ISNAN |-> 127]

\* Codes are bytes: from 128 on they are negative.
Stacking == [
  E |-> -128, NULL |-> -127,
  DEPTH |-> -112, DROP |-> -111, DUP |-> -110, SWAP |-> -109, CLEAR |-> -108, CLONE |-> -107,
  FLIP |-> -106, SHIFTUP |-> -105, SHIFTDOWN |-> -104, SHIFTN |-> -103,
  SHIFTELEMENTSRIGHT |-> -102, SHIFTELEMENTSLEFT |-> -101, DUP2 |-> -100, DUPN |-> -99,
  DROPN |-> -98, SHIFTNEXCEPT |-> -97]
  @@ "FALSE" :> -126 @@ "TRUE" :> -125

Ending == [
  VERIFY |-> -96, RETURN |-> -95, RETURNIF |-> -94, SHA512 |-> -80, ZIP |-> -79, UNZIP |-> -78,
  ENCRYPTAES |-> -75, DECRYPTAES |-> -74, VERIFYSIG |-> -64, CODESEPARATOR |-> -63,
  VERIFYMULTISIG |-> -62, CALL |-> -48, JUMP |-> -16, JUMPIF |-> -15]

OPCode ==
  Pushing @@ Comparing @@ Memory @@ Calculating @@ Arrays @@ Floating @@ Stacking @@ Ending

OperatorOf == [code \in Range(OPCode) |-> CHOOSE op \in DOMAIN OPCode : OPCode[op] = code]

getByOpCode(byte) == IF byte \in DOMAIN OperatorOf THEN OperatorOf[byte] ELSE "null"
=============================================================================
