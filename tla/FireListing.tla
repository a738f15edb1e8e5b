---------------------------- MODULE FireListing ----------------------------
(***************************************************************************)
(* The machine on compiled programs, beside the bytes that it runs: what   *)
(* the machine fetches and what the disassembler shows is what the code    *)
(* generator meant, and a failure is reported at the place in the source   *)
(* that it comes from.                                                     *)
(***************************************************************************)
EXTENDS FirePipeline, FireChunk

\* A function's instructions have room in their bytes: the generator casts every
\* operand to its width, patches every jump to a place in the function, and gives
\* each instruction a span; a function is shorter than offsets go.
Fits(F) ==
  LET size == Offsets(F.code)[Len(F.code) + 1]
  IN /\ size < (Bytes * Bytes) * (Bytes * Bytes)
     /\ Len(F.spans) = Len(F.code)
     /\ \A i \in DOMAIN F.code :
          LET I == F.code[i]
          IN /\ I.op \in WordOps \cup CallOps => I.a < Bytes * Bytes
             /\ I.op \in CallOps => I.b < Bytes
             /\ I.op \in Jumps => I.a \in 1 .. Len(F.code) + 1
             /\ I.op \notin WordOps \cup CallOps \cup Jumps => I.a = 0
             /\ I.op \notin CallOps => I.b = 0

ASSUME ChunkAssumption ==
  /\ Len(OpCodeList) <= Bytes
  /\ \A m \in DOMAIN Modules : \A f \in FunctionIds(m) : Fits(Function(m, f))

\* What a function's bytes must say at the offset of an instruction: a jump's
\* operand is the offset at which its target begins.
Meant(I, begins) == IF I.op \in Jumps THEN [I EXCEPT !.a = begins[@]] ELSE I

SaysTheSame(F, begins, chunk) ==
  /\ \A i \in DOMAIN F.code : FetchedAt(chunk, begins[i]) = Meant(F.code[i], begins)
  /\ ListedOffsets(chunk) = { begins[i] : i \in DOMAIN F.code }

\* The span that report gives for a frame whose next instruction is at offset
\* ip: that of the byte before it, as "ip has already advanced".
ReportedAtNext(chunk, ip) == SpanAt(chunk, ip)
ReportedAt(chunk, ip) == SpanAt(chunk, IF ip > 0 THEN ip - 1 ELSE 0)

---------------------------------------------------------------------------

\* The bytes of every function that is called say what was generated: at each
\* offset where an instruction begins, its opcode and operands, and for a jump
\* the offset where its target begins. The disassembler, which goes through the
\* bytes by the lengths of what it finds there, shows those instructions and no
\* others. It is looked at where the function starts. (Chunk::write, write_u16,
\* patch_u32, read_u16, read_u32, opcode_length, disassemble_function)
BytesSayTheSame ==
  (status = "running" /\ Top.ip = 1) =>
    \A F \in {Fn} : \A begins \in {Offsets(F.code)} :
      SaysTheSame(F, begins, Encoded(F, begins))

\* When a program fails, the report names the place of the very instruction that
\* failed, and the backtrace that of the call each caller is in, whatever spans
\* their neighbours have: a table with an entry for each run of bytes must give
\* it from the offset after the instruction. (VM::report, Chunk::span_at)
FailuresWhereTheyHappen ==
  status \in {"failed", "internal"} =>
    \A k \in DOMAIN frames : \A F \in {Function(prog, frames[k].fn)} :
      \A begins \in {Offsets(F.code)} :
        ReportedAt(Encoded(F, begins), begins[frames[k].ip]) = F.spans[frames[k].ip - 1]
=============================================================================
