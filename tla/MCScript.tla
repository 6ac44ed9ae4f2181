------------------------------ MODULE MCScript ------------------------------
(***************************************************************************)
(* Scripts to be run: every operator on many small stacks, and chosen      *)
(* scripts with jumps, calls, memory and several signatures.               *)
(***************************************************************************)
EXTENDS ScriptExecution

MCDigest(bytes) == <<Len(bytes), 7>>

\* A signature names its key in its first byte. Keys have one byte, 9 is none.
MCAnswer(key, signature) ==
  IF key = <<9>> THEN "malformed"
  ELSE IF signature # << >> /\ key = <<signature[1]>> THEN "yes" ELSE "no"

MCFloats == {<<64, 0>>}
MCBlobs  == {<<5, 6, 7>>}

Op(name)     == <<OPCode[name]>>
Data(bytes)  == IF bytes = << >> THEN Op("NULL") ELSE Op("PUSH") \o <<Len(bytes)>> \o bytes
Datas(list)  == FlattenSeq([i \in DOMAIN list |-> Data(list[i])])
Script(list) == FlattenSeq(list)
Int16(n)     == ToBytes(n, IntBytes)

\* Each operator, and a code without one, on up to two elements.
Elements == {<< >>, <<0>>, <<1>>, <<-1>>, Int16(0), Int16(3), <<0, 0, 5>>}
Pairs    == [1 .. 2 -> Elements \ {<<-1>>, Int16(0)}]
Stacks   == {<< >>} \cup [1 .. 1 -> Elements \cup {<<120>>, ZlibHeader}] \cup Pairs
Bytecode == {<<byte>> : byte \in Range(OPCode) \cup {-2}}
Single1  == ({Datas(stack) : stack \in Stacks} \X Bytecode) \cup (Bytecode \X {<< >>})

\* Memory: the operands over two elements.
Places      == {Int16(n) : n \in {-1, 0, 1, 2}}
Places5     ==
  {p \in [1 .. 5 -> Places] :
     \E i \in 1 .. 5 : \A j \in (1 .. 5) \ {i} : p[j] \in {Int16(0), Int16(1)}}
Memory3     == {<<Datas(<<<<4>>, <<5, 6>>>> \o p), Op("GET")>> : p \in [1 .. 3 -> Places]}
Memory4     == {<<Datas(<<<<4>>, <<5, 6>>, <<8>>>> \o p), Op("SET")>> : p \in [1 .. 3 -> Places]}
Memory5     == {<<Datas(<<<<4>>, <<5, 6>>>> \o p), Op("COPY")>> : p \in Places5}

\* Several elements, and a byte that says how many of them are meant.
Many ==
  {<<Datas(<<<<4>>, <<5>>, <<6>>>> \o amounts), Op(name)>> :
     amounts \in {<<a>> : a \in {<<n>> : n \in -1 .. 4}}
                   \cup {<<a, b>> : a, b \in {<<n>> : n \in {-1, 0, 1, 3, 4}}},
     name \in {"DUPN", "DROPN", "SHIFTN", "SHIFTNEXCEPT", "PICK", "PUT", "COMBINE", "SPLIT",
               "ROOT", "CLONE", "FLIP", "SHIFTUP", "SHIFTDOWN", "CLEAR", "LIMIT"}}

\* Data that reach the end of the script, and beyond it.
Headers ==
  {<<first \o rest, <<>>>> :
     first \in {Op("PUSH"), Op("BIGPUSH"), Op("FLAGDATA"), Op("FLAG")},
     rest \in UNION {[1 .. n -> {-1, 0, 1, 127}] : n \in 0 .. 3}}

\* Signatures and keys: a key twice, as one array or as two.
Multisig ==
  {<<Datas(signatures),
     Script(<<Data(<<Len(signatures) + more>>)>> \o keys \o <<Op("VERIFYMULTISIG")>>)>> :
     signatures \in UNION {[1 .. n -> {<<1, 1>>, <<2, 1>>}] : n \in 0 .. 2},
     more \in {-1, 0, 1},
     keys \in {<<Datas(list), Data(<<n>>)>> :
                 list \in UNION {[1 .. k -> {<<1>>, <<2>>, <<9>>}] : k \in 0 .. 2},
                 n \in {-1, 0, 1, 2}}
               \cup {<<Data(<<1>>), Op("DUP"), Data(<<2>>)>>}}

\* Jumps and calls among other instructions; a called script may fail or throw.
Idle(n) == FlattenSeq([i \in 1 .. n |-> Op("NOP")])
Called ==
  {Op("TRUE"), Op("DROP"), Op("RETURN"), Op("FLIP") \o Op("VERIFY"), Op("VERIFYSIG"),
   <<>>, Idle(2)}
Calls ==
  {<<Datas(<<<<4>>, <<n>>, called>>), before \o Op("CALL") \o after>> :
     n \in {-1, 0, 1, 2}, called \in Called,
     before \in {Idle(0), Idle(4)}, after \in {Idle(0), Op("VERIFY"), Idle(5)}}

Jumping ==
  {Data(d) \o Op("JUMP") :
     d \in {<<1>>, <<2>>, <<0>>, <<-1>>, <<-3>>, <<-9>>, Int16(IntMax), Int16(2)}}
    \cup {Op("TRUE") \o Data(d) \o Op("JUMPIF") : d \in {<<2>>, <<-4>>}}
Jumps ==
  {<<<<>>, a \o b>> : a \in Jumping, b \in Jumping \cup {Idle(1), Idle(1) \o Op("RETURN")}}

\* The running script calls itself, and writes into itself.
Selves ==
  {<<<<>>, script>> :
     script \in {Data(<<0>>) \o Op("THIS") \o Op("CALL"),
                 Op("THIS") \o Datas(<<<<-95>>, Int16(0), Int16(0), Int16(1)>>) \o Op("SET"),
                 Op("FALSE") \o Data(<<0>>) \o Op("THIS") \o Op("CALL") \o Op("VERIFY")}}

MCPrograms ==
  Single1 \cup Memory3 \cup Memory4 \cup Memory5 \cup Many \cup Headers \cup Multisig
    \cup Calls \cup Jumps \cup Selves
=============================================================================
