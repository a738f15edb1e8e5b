----------------------------- MODULE FireFlow -----------------------------
(***************************************************************************)
(* What compiled code shows of itself without being run: which addresses   *)
(* control can reach, and which slots have been stored in by then. A flow  *)
(* is found once (FireCertify); that it is right is checked here address   *)
(* by address, and what the code then never does, whatever its data, is    *)
(* proved (FireFlowProofs).                                                *)
(***************************************************************************)
EXTENDS FireBytecode, FireSyntax, SequencesExt

\* The builtins that end the program (the never_returns of natives.cpp, table).
NeverReturning == {"exit", "panic"}

\* The test of `while true`: it takes the TRUE made right before it, and no jump
\* leads to it. The analyzer counts on such a test to pass.
SurelyPasses(F, i) ==
  /\ i > 1 /\ F.code[i].op = "JumpIfFalse" /\ F.code[i - 1].op = "PushTrue"
  /\ \A j \in 1 .. Len(F.code) : F.code[j].op \in Jumps => F.code[j].a # i

\* Where control can be after the instruction at i of F, within the same frame.
Follows(F, i) ==
  LET I == F.code[i]
  IN CASE SurelyPasses(F, i) -> {i + 1}
       [] I.op = "CallNative" /\ NativeNames[I.a + 1] \in NeverReturning -> {}
       [] OTHER -> Successors(I, i)

StoredBy(I) == IF I.op = "SetLocal" THEN {I.a} ELSE {}

\* w gives, for each address of F that control can reach, slots that have been
\* stored in on every way there; a call has stored its arguments.
IsFlow(w, F) ==
  /\ 1 \in DOMAIN w /\ w[1] \subseteq 0 .. F.arity - 1
  /\ DOMAIN w \subseteq 1 .. Len(F.code)
  /\ \A i \in DOMAIN w : \A j \in Follows(F, i) :
       j \in DOMAIN w /\ w[j] \subseteq w[i] \cup StoredBy(F.code[i])

\* The flow w of function f of module m is as the front end promises: control
\* reaches no read of a slot without a value, no end of a function whose
\* return type is not void, no statement warned about, and a HALT only at
\* the end of the script, with no operand left by the certificate h.
Promised(w, h, m, f, type, warned) ==
  LET F == Function(m, f)
  IN \A i \in DOMAIN w :
       LET I == F.code[i]
       IN /\ I.op = "GetLocal" => I.a \in w[i]
          /\ I.op = "ReturnVoid" => type = VoidT
          /\ \A u \in warned : ~IsPrefix(u, F.spans[i])
          /\ I.op = "Halt" => f = 0 /\ h[i] = 0

\* Every function has a flow, and it is as promised. The script has neither
\* parameters nor a type.
CodeFlows(flow, heights, declared, unreachable) ==
  \A m \in DOMAIN Modules :
    /\ Modules[m].script.arity = 0
    /\ \A f \in FunctionIds(m) :
         /\ IsFlow(flow[m][f], Function(m, f))
         /\ Promised(flow[m][f], heights[m][f], m, f,
                     IF f = 0 THEN NoType ELSE declared[m][f].return_type, unreachable[m])
=============================================================================
