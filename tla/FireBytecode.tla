--------------------------- MODULE FireBytecode ---------------------------
(***************************************************************************)
(* The instruction set, and what a compiled module looks like to the VM.   *)
(*                                                                         *)
(* A chunk is a sequence of decoded instructions [op, a, b]: an address is *)
(* the position of an instruction, where the code's is the offset of its   *)
(* first byte. The operands a and b keep the width the encoding gives them *)
(* because the code generator reduces them when it emits (FireCodegen).    *)
(***************************************************************************)
EXTENDS FireNatives

CONSTANTS
  Modules,       \* compiled modules, each under an identifier
  MaxCallDepth   \* VM::Options::max_call_depth, 4096 in the code

Instr(op, a, b) == [op |-> op, a |-> a, b |-> b]

FloatBinaryOps == {"AddFloat", "SubFloat", "MulFloat", "DivFloat"}
PeekJumps      == {"JumpIfFalsePeek", "JumpIfTruePeek"}
Jumps          == {"Jump", "JumpIfFalse"} \cup PeekJumps
EqualityOps    == {"Equal", "NotEqual"}
CompareOps     == IntCompareOps \cup FloatCompareOps \cup StrCompareOps
ReturnOps      == {"Return", "ReturnVoid"}
PushOps        == {"Constant", "PushTrue", "PushFalse"}

OpCodes ==
  PushOps \cup {"Pop", "Dup", "Dup2", "GetLocal", "SetLocal", "GetGlobal", "SetGlobal"}
    \cup IntBinaryOps \cup IntUnaryOps \cup FloatBinaryOps \cup {"NegFloat", "ConcatStr", "Not"}
    \cup EqualityOps \cup CompareOps \cup {"MakeArray", "IndexGet", "IndexSet"}
    \cup Jumps \cup {"Call", "CallNative", "Halt"} \cup ReturnOps

\* The number of values an instruction looks at on top of the stack.
Needs(I) ==
  CASE I.op \in PushOps \cup {"GetLocal", "GetGlobal", "Jump", "ReturnVoid", "Halt"} -> 0
    [] I.op \in {"Pop", "Dup", "SetLocal", "SetGlobal", "NegFloat", "Not", "JumpIfFalse", "Return"}
         \cup IntUnaryOps \cup PeekJumps -> 1
    [] I.op = "IndexSet"  -> 3
    [] I.op = "MakeArray" -> I.a
    [] I.op \in {"Call", "CallNative"} -> I.b
    [] OTHER -> 2

\* The number of values it leaves in their place; for Call, once it returns.
Leaves(I) ==
  CASE I.op \in {"Pop", "SetLocal", "SetGlobal", "IndexSet", "Jump", "JumpIfFalse", "Halt"} -> 0
    [] I.op = "Dup"  -> 2
    [] I.op = "Dup2" -> 4
    [] OTHER -> 1

\* The tags each value looked at may have, the top of the stack first, for the
\* instructions whose operands go through std::get and may throw. Natives check
\* their own arguments (FireNatives).
AnyTag == {"int", "float", "bool", "str", "array"}

OperandTags(I) ==
  CASE I.op \in IntBinaryOps \cup IntCompareOps     -> << {"int"}, {"int"} >>
    [] I.op \in IntUnaryOps                         -> << {"int"} >>
    [] I.op \in FloatBinaryOps \cup FloatCompareOps -> << {"float"}, {"float"} >>
    [] I.op = "NegFloat"                            -> << {"float"} >>
    [] I.op \in {"ConcatStr"} \cup StrCompareOps    -> << {"str"}, {"str"} >>
    [] I.op \in {"Not", "JumpIfFalse"} \cup PeekJumps -> << {"bool"} >>
    [] I.op = "IndexGet"                            -> << {"int"}, {"str", "array"} >>
    [] I.op = "IndexSet"                            -> << AnyTag, {"int"}, {"array"} >>
    [] OTHER                                        -> << >>

---------------------------------------------------------------------------
(* Functions of a module: 0 names the script, i >= 1 functions[i].          *)

FunctionIds(m) == 0 .. Len(Modules[m].functions)

Function(m, f) == IF f = 0 THEN Modules[m].script ELSE Modules[m].functions[f]

\* Where control can be after the instruction at i, within the same frame.
Successors(I, i) ==
  CASE I.op = "Jump" -> {I.a}
    [] I.op \in {"JumpIfFalse"} \cup PeekJumps -> {I.a, i + 1}
    [] I.op \in ReturnOps \cup {"Halt"} -> {}
    [] OTHER -> {i + 1}

\* The operands of an instruction of function f of module m name things that
\* exist: a constant, a slot of the frame, a global, a function with that many
\* parameters, a builtin. Only a function returns.
OperandsOK(m, f, I) ==
  /\ I.op = "Constant" => I.a < Len(Function(m, f).consts)
  /\ I.op \in {"GetLocal", "SetLocal"} => I.a < Function(m, f).local_count
  /\ I.op \in {"GetGlobal", "SetGlobal"} => I.a < Modules[m].global_count
  /\ I.op = "Call" => /\ I.a < Len(Modules[m].functions)
                      /\ I.b = Modules[m].functions[I.a + 1].arity
  /\ I.op \in ReturnOps => f # 0

\* A certificate that function f of m keeps its operand stack in order: for
\* every address control can reach, the number of values above the locals there.
\* Each instruction finds what it needs and leaves every successor its number.
Certifies(h, m, f) ==
  LET F == Function(m, f)
  IN /\ F.arity <= F.local_count
     /\ DOMAIN h \subseteq 1 .. Len(F.code)
     /\ 1 \in DOMAIN h /\ h[1] = 0
     /\ \A i \in DOMAIN h :
          LET I == F.code[i]
          IN /\ h[i] \in Nat
             /\ OperandsOK(m, f, I)
             /\ Needs(I) <= h[i]
             /\ \A j \in Successors(I, i) :
                  j \in DOMAIN h /\ h[j] = h[i] - Needs(I) + Leaves(I)

\* The shape of a compiled function: its constants are scalars, every operand is
\* a natural number, and the analyzer has counted the arguments of builtins.
FunctionOK(F) ==
  /\ F.arity \in Nat /\ F.local_count \in Nat
  /\ F.consts \in Seq(ValueUpTo(0))
  /\ F.code \in Seq([op : OpCodes, a : Nat, b : Nat])
  /\ \A i \in 1 .. Len(F.code) :
       F.code[i].op = "CallNative" =>
         /\ F.code[i].a < Len(NativeNames)
         /\ F.code[i].b \in NativeArity(NativeNames[F.code[i].a + 1])

ASSUME ModuleAssumption ==
  /\ MaxCallDepth \in Nat \ {0}
  /\ \A m \in DOMAIN Modules :
       /\ Modules[m].global_count \in Nat
       /\ Len(Modules[m].functions) \in Nat
       /\ \A f \in FunctionIds(m) : FunctionOK(Function(m, f))
=============================================================================
