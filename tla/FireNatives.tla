---------------------------- MODULE FireNatives ----------------------------
(***************************************************************************)
(* The builtin functions, as VM::call_native invokes them.                 *)
(*                                                                         *)
(* A call has a set of possible outcomes: it returns a value, with its     *)
(* effect on the arrays and on the output; it fails the program; it ends   *)
(* the program; or std::get throws because an argument has a tag that the  *)
(* type checker should have excluded ("internal").                         *)
(*                                                                         *)
(* Modelled here: output, the array builtins, abs/min/max, and the three   *)
(* builtins that end a program. Text, conversions, randomness, time and    *)
(* input are not; no program given to the machine calls them.              *)
(***************************************************************************)
EXTENDS FireValues

\* enum NativeId: an id is a position in this table, counting from 0.
NativeNames ==
  << "print", "println", "len", "push", "pop", "insert", "remove", "slice",
     "int", "float", "bool", "str", "abs", "min", "max", "pow", "sqrt", "floor",
     "ceil", "round", "chr", "ord", "find", "split", "join", "trim", "upper",
     "lower", "replace", "repeat", "input", "eof", "exit", "assert", "panic",
     "clock", "args", "seed", "rand_int" >>

NativeId(name) == CHOOSE id \in 0 .. Len(NativeNames) - 1 : NativeNames[id + 1] = name

\* The numbers of arguments the signature of a builtin admits (natives.cpp,
\* table); none for the builtins that are not modelled.
NativeArity(name) ==
  CASE name \in {"print", "println"} -> 0 .. 65535
    [] name \in {"len", "pop", "abs", "exit", "panic"} -> {1}
    [] name \in {"push", "remove", "min", "max"} -> {2}
    [] name \in {"insert", "slice"}  -> {3}
    [] name = "assert" -> {1, 2}
    [] OTHER -> {}

Outcome(kind, value, h, o, code) ==
  [kind |-> kind, value |-> value, heap |-> h, out |-> o, code |-> code]

Clamp(index, length) ==
  IF index < 0 THEN 0 ELSE IF index > length THEN length ELSE index

InsertElement(s, i, x) == SubSeq(s, 1, i) \o <<x>> \o SubSeq(s, i + 1, Len(s))
RemoveElement(s, i)    == SubSeq(s, 1, i) \o SubSeq(s, i + 2, Len(s))

\* The tags each builtin's arguments must have for std::get not to throw.
ArgumentsOK(name, args) ==
  LET Tags == [i \in 1 .. Len(args) |-> Tag(args[i])]
  IN /\ name \in {"len", "slice"} => Tags[1] \in {"str", "array"}
     /\ name \in {"push", "pop", "insert", "remove"} => Tags[1] = "array"
     /\ name \in {"insert", "remove", "slice"} => Tags[2] = "int"
     /\ name = "slice"  => Tags[3] = "int"
     /\ name = "abs"    => Tags[1] \in {"int", "float"}
     /\ name \in {"min", "max"} => Tags \in {<<"int", "int">>, <<"float", "float">>}
     /\ name = "exit"   => Tags[1] = "int"
     /\ name = "assert" => Tags[1] = "bool" /\ (Payload(args[1]) \/ Len(args) = 1 \/ Tags[2] = "str")
     /\ name = "panic"  => Tags[1] = "str"

\* The calls that end in a RuntimeError although every tag is right.
NativeFault(name, args, h) ==
  LET elements == h[Payload(args[1])]
  IN \/ name = "pop" /\ elements = <<>>
     \/ name = "insert" /\ Payload(args[2]) \notin 0 .. Len(elements)
     \/ name = "remove" /\ Payload(args[2]) \notin 0 .. Len(elements) - 1
     \/ name = "abs" /\ Tag(args[1]) = "int" /\ Payload(args[1]) = -IntHalf
     \/ name = "assert" /\ ~Payload(args[1])
     \/ name = "panic"

\* What a call that does not throw returns, and the arrays and output after it.
\* exit ends the program: its status is the low byte of the argument.
NativeReturns(name, args, h, o) ==
  LET first    == Payload(args[1])
      second   == Payload(args[2])
      Void     == IntV(0)
      Pure(v)  == { Outcome("value", v, h, o, 0) }
      Update(v, s) == { Outcome("value", v, [h EXCEPT ![first] = s], o, 0) }
  IN CASE name \in {"print", "println"} ->
            { Outcome("value", Void, h,
                Append(o, <<name, [i \in 1 .. Len(args) |-> Display(h, args[i])]>>), 0) }
       [] name = "len" ->
            LET length == IF Tag(args[1]) = "str" THEN Len(first) ELSE Len(h[first])
            IN UNION { Pure(IntV(n)) : n \in {m \in IntRange : SameBits(m, length)} }
       [] name = "push"   -> Update(Void, Append(h[first], args[2]))
       [] name = "pop"    -> Update(h[first][Len(h[first])],
                                    SubSeq(h[first], 1, Len(h[first]) - 1))
       [] name = "insert" -> Update(Void, InsertElement(h[first], second, args[3]))
       [] name = "remove" -> Update(h[first][second + 1], RemoveElement(h[first], second))
       [] name = "slice"  ->
            LET source == IF Tag(args[1]) = "str" THEN first ELSE h[first]
                part   == SubSeq(source, Clamp(second, Len(source)) + 1,
                                         Clamp(Payload(args[3]), Len(source)))
            IN IF Tag(args[1]) = "str" THEN Pure(StrV(part))
               ELSE { Outcome("value", ArrayV(Len(h) + 1), Append(h, part), o, 0) }
       [] name \in {"abs", "min", "max"} ->
            IF Tag(args[1]) = "float" THEN UNION { Pure(FloatV(x)) : x \in FloatVals }
            ELSE Pure(IntV(CASE name = "abs" -> AbsVal(first)
                             [] name = "min" -> IF second < first THEN second ELSE first
                             [] OTHER        -> IF first < second THEN second ELSE first))
       [] name = "exit"   -> { Outcome("exited", Void, h, o, first % 256) }
       [] name = "assert" -> Pure(Void)
       [] OTHER -> {}

\* invoke_native.
NativeOutcomes(id, args, h, o) ==
  LET name == NativeNames[id + 1]
      Ends(kind) == { Outcome(kind, IntV(0), h, o, 70) }
  IN IF ~ArgumentsOK(name, args) THEN Ends("internal")
     ELSE IF NativeFault(name, args, h) THEN Ends("failed")
     ELSE NativeReturns(name, args, h, o)
=============================================================================
