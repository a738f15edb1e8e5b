----------------------------- MODULE FireChunk -----------------------------
(***************************************************************************)
(* A chunk as the code keeps it: the bytes of its instructions, words with *)
(* their low byte first, jumps to offsets; and the table of spans, an      *)
(* entry for each run of bytes that share one. Offsets count from 0.       *)
(***************************************************************************)
EXTENDS FireBytecode, SequencesExt, FiniteSetsExt

CONSTANT Bytes   \* how many values a byte has: 256 in the code

ASSUME BytesAssumption == Bytes \in Nat \ {0}

\* The enumeration that numbers the opcodes.
OpCodeList ==
  << "Constant", "PushTrue", "PushFalse", "Pop", "Dup", "Dup2",
     "GetLocal", "SetLocal", "GetGlobal", "SetGlobal",
     "AddInt", "SubInt", "MulInt", "DivInt", "ModInt", "NegInt",
     "AddFloat", "SubFloat", "MulFloat", "DivFloat", "NegFloat", "ConcatStr",
     "BitAnd", "BitOr", "BitXor", "ShiftLeft", "ShiftRight", "BitNot", "Not",
     "Equal", "NotEqual", "LessInt", "LessEqualInt", "GreaterInt", "GreaterEqualInt",
     "LessFloat", "LessEqualFloat", "GreaterFloat", "GreaterEqualFloat",
     "LessStr", "LessEqualStr", "GreaterStr", "GreaterEqualStr",
     "MakeArray", "IndexGet", "IndexSet",
     "Jump", "JumpIfFalse", "JumpIfFalsePeek", "JumpIfTruePeek",
     "Call", "CallNative", "Return", "ReturnVoid", "Halt" >>

OpCodeByte == [op \in OpCodes |-> CHOOSE n \in 0 .. Len(OpCodeList) - 1 : OpCodeList[n + 1] = op]

WordOps == {"Constant", "GetLocal", "SetLocal", "GetGlobal", "SetGlobal", "MakeArray"}
CallOps == {"Call", "CallNative"}

\* A slip of opcode_length: a call without its argument count.
OpCodeLengthUncounted(op) ==
  IF op \in WordOps \cup CallOps THEN 1 + 2 ELSE IF op \in Jumps THEN 1 + 4 ELSE 1

\* How far the disassembler goes from one instruction to the next.
OpCodeLength(op) ==
  IF op \in WordOps THEN 1 + 2 ELSE IF op \in Jumps THEN 1 + 4
  ELSE IF op \in CallOps THEN 1 + 2 + 1 ELSE 1

---------------------------------------------------------------------------
(* Words, of 2 and of 4 bytes.                                             *)

U16Bytes(n) == << n % Bytes, (n \div Bytes) % Bytes >>
U32Bytes(n) == U16Bytes(n) \o U16Bytes(n \div (Bytes * Bytes))

ReadU16(code, offset) == code[offset + 1] + Bytes * code[offset + 2]
ReadU32(code, offset) == ReadU16(code, offset) + (Bytes * Bytes) * ReadU16(code, offset + 2)

---------------------------------------------------------------------------
(* Writing.                                                                *)

\* An instruction's bytes, for a jump once its target is known: patch_u32 puts
\* it where emit_jump left 0xFFFFFFFF.
InstrBytes(I, target) ==
  <<OpCodeByte[I.op]>> \o
    (IF I.op \in WordOps THEN U16Bytes(I.a)
     ELSE IF I.op \in CallOps THEN Append(U16Bytes(I.a), I.b)
     ELSE IF I.op \in Jumps THEN U32Bytes(target)
     ELSE << >>)

\* Where each instruction begins, and the code ends: behind what has been written.
Offsets(code) ==
  LET before[i \in 1 .. Len(code) + 1] ==
        IF i = 1 THEN 0 ELSE before[i - 1] + Len(InstrBytes(code[i - 1], 0))
  IN before

\* The offset of a jump's target.
Target(I, begins) == IF I.op \in Jumps THEN begins[I.a] ELSE 0

\* The table of spans after the first n instructions: Chunk::write adds no entry
\* when the last one has the same span.
Table(F, begins, n) ==
  LET table[i \in 0 .. n] ==
        IF i = 0 THEN << >>
        ELSE LET before == table[i - 1]
             IN IF before # << >> /\ Last(before).span = F.spans[i] THEN before
                ELSE Append(before, [offset |-> begins[i], span |-> F.spans[i]])
  IN table[n]

\* The bytes of a function's instructions.
Pieces(F, begins) ==
  [i \in DOMAIN F.code |-> InstrBytes(F.code[i], Target(F.code[i], begins))]

\* The chunk of a function, its instructions written one after the other.
Encoded(F, begins) ==
  [code  |-> FlattenSeq(Pieces(F, begins)),
   spans |-> Table(F, begins, Len(F.spans))]

---------------------------------------------------------------------------
(* Reading.                                                                *)

\* The instruction that begins at an offset, as the machine fetches it and the
\* disassembler shows it: a jump's target is an offset.
FetchedAt(chunk, offset) ==
  LET op == OpCodeList[chunk.code[offset + 1] + 1]
      operand == offset + 1
  IN IF op \in WordOps THEN Instr(op, ReadU16(chunk.code, operand), 0)
     ELSE IF op \in CallOps
       THEN Instr(op, ReadU16(chunk.code, operand), chunk.code[operand + 3])
     ELSE IF op \in Jumps THEN Instr(op, ReadU32(chunk.code, operand), 0)
     ELSE Instr(op, 0, 0)

\* The offsets where a line is shown, from the first byte,
\* each instruction's length further, up to the end.
ListedOffsets(chunk) ==
  LET from[offset \in 0 .. Len(chunk.code) + 4] ==
        IF offset >= Len(chunk.code) THEN {}
        ELSE {offset} \cup from[offset + OpCodeLength(FetchedAt(chunk, offset).op)]
  IN from[0]

\* The last entry at or before the offset; the first one if there is none.
SpanAt(chunk, offset) ==
  LET before == { k \in DOMAIN chunk.spans : chunk.spans[k].offset <= offset }
  IN chunk.spans[Max(before \cup {1})].span
=============================================================================
