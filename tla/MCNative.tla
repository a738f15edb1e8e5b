------------------------------ MODULE MCNative ------------------------------
(***************************************************************************)
(* The machine code of the programs of MCNativePrograms, against what the  *)
(* programs mean.                                                          *)
(***************************************************************************)
EXTENDS MCNativePrograms, FireReference, FireX86

MCNoModules == << >>
MCFloatVals == {NaN}

\* What the VM writes for a value, byte for byte (std::to_string and the words
\* for the booleans), and for a call of print or println.
BytesOf(v) ==
  CASE Tag(v) = "int"  -> IF Payload(v) < 0 THEN <<45>> \o DigitsOf[-Payload(v)]
                                            ELSE DigitsOf[Payload(v)]
    [] Tag(v) = "bool" -> IF Payload(v) THEN TrueText ELSE FalseText
    [] Tag(v) = "str"  -> Payload(v)

PrintedBytes(call) ==
  LET args == [i \in 1 .. Len(call[2]) |-> (IF i > 1 THEN <<32>> ELSE <<>>) \o BytesOf(call[2][i])]
  IN FlattenSeq(args) \o (IF call[1] = "println" THEN <<10>> ELSE <<>>)

AssembledOf(emitted) ==
  [p \in DOMAIN emitted |-> Assemble(emitted[p].text, emitted[p].global_count)] @@ << >>

OutcomesOf(programs) ==
  LET meanings == [p \in programs |-> Meaning(p)] @@ << >>
      Bytes(calls) == FlattenSeq([i \in 1 .. Len(calls) |-> PrintedBytes(calls[i])])
  IN [p \in programs |->
        [status |-> meanings[p].status, exit_status |-> meanings[p].exit_status,
         bytes |-> Bytes(meanings[p].out)]] @@ << >>

Assembled == AssembledOf(Emitted)
Outcomes  == OutcomesOf(DOMAIN Emitted)

MCExecutables == LET built == Assembled IN built
MCExpected == LET outcomes == Outcomes IN outcomes
=============================================================================
