--------------------------- MODULE MCNativePrograms ---------------------------
(***************************************************************************)
(* Programs compiled to machine code: every program of the other runs that *)
(* the backend takes, loops over plain numbers, calls with arguments and   *)
(* numbers at their limits.                                                *)
(***************************************************************************)
EXTENDS MCPrograms, FireSema, FireBackend

CONSTANT Programs   \* a set of syntax trees

\* Each accepted program whose assembly can be built.
Emitted ==
  LET checked == [p \in Programs |-> Analyze(p)] @@ << >>
      emitted == [p \in {q \in Programs : Accepted(checked[q])} |-> EmitNative(checked[p])] @@ << >>
  IN [p \in {q \in DOMAIN emitted : Buildable(emitted[q])} |->
        [text |-> emitted[p].text, global_count |-> checked[p].global_count]] @@ << >>

---------------------------------------------------------------------------
(* Families.                                                               *)

\* The lowest number.
Low == Binary(Unary("-", I(IntHalf - 1)), "-", I(1))

\* What every program of the first family may do with the loop variable `i` and
\* the variable `n` of the script.
NativeSteps ==
  { Say(<<N("i"), N("n")>>),
    Let("t", Plus(N("i"), N("n"))),
    Compound(N("n"), "+", N("i")),
    If(Same(N("i"), I(1)), <<Let("u", I(6)), Continue>>),
    If(Binary(N("n"), ">", I(2)), <<Say(<<N("n")>>), Break>>) }

NativeBodies == { <<a, b>> : a \in NativeSteps, b \in NativeSteps }

NativeAround(loop) ==
  { Program(<< Let("n", I(0)) >> \o ss \o << Say(<<N("n")>>) >>, <<>>) :
      ss \in { << loop, Let("z", I(4)), Say(<<N("z")>>) >>,
               << ForRange("j", I(0), I(2), << Let("v", N("j")), loop, Say(<<N("v"), N("j")>>) >>) >> } }

NativeLoops ==
  UNION { NativeAround(ForLoop(b)) \cup NativeAround(WhileLoop(b)) : b \in NativeBodies }

\* fn mix(a: int, b: bool, c: int) -> int {
\*   let d = a - c; if b { let e = d * 2; return e; } for k in a .. c { d += k; } return d; }
Mix ==
  Fun("mix", <<Param("a", IntT), Param("b", BoolT), Param("c", IntT)>>, IntT,
    << Let("d", Binary(N("a"), "-", N("c"))),
       If(N("b"), << Let("e", Binary(N("d"), "*", I(2))), Ret(N("e")) >>),
       ForRange("k", N("a"), N("c"), << Compound(N("d"), "+", N("k")) >>),
       Ret(N("d")) >>)

MixCalls ==
  { Program(<< Let("n", I(3)),
               Say(<<Binary(Apply("mix", <<I(low), test, N("n")>>), "-",
                            Apply("mix", <<N("n"), test, I(low)>>))>>),
               Say(<<Apply("mix", <<N("n"), test, Apply("mix", <<I(low), test, N("n")>>)>>)>>) >>,
            <<Mix>>) :
      low \in {1, 5}, test \in {BoolLit(TRUE), Binary(N("n"), "<", I(2))} }

Operators ==
  { Shown1(Binary(l, op, r)) : op \in {"+", "-", "*", "/", "%", "&", "|", "^", "<", "<=", ">", ">=", "==", "!="},
      l \in {Low, Unary("-", I(7)), I(100)}, r \in {I(0), I(3), Unary("-", I(5)), Low} }
    \cup { Shown1(Binary(l, op, I(c))) : op \in {"<<", ">>"}, c \in {0, 1, ShiftMax},
             l \in {Low, Unary("-", I(7)), I(100)} }
    \cup { Shown1(Unary("-", Low)), Shown1(Unary("~", Low)), Shown1(Low),
           Shown1(Apply("min", <<Low, I(3)>>)), Shown1(Apply("max", <<Low, I(3)>>)),
           Shown1(Apply("abs", <<Unary("-", I(5))>>)), Shown1(Apply("abs", <<I(0)>>)) }

\* Programs that fail on the VM: natively the first two divide by zero, the
\* third overflows a register and the last the stack.
Failing ==
  { Division, Shown1(Binary(I(1), "%", I(0))),
    Shown1(Binary(Low, "/", Unary("-", I(1)))),
    Program(<< Say(<<Apply("run", <<I(0)>>)>>) >>,
            << Fun("run", <<Param("n", IntT)>>, IntT, <<Ret(Apply("run", <<N("n")>>))>>) >>) }

\* Where a failure is other than a division by zero, or a call of a function is
\* one of several arguments, the two are known to differ (MCNativeDiffers).
Alike == (Constructs \ {Overflow, Limits}) \cup NativeLoops \cup MixCalls \cup Operators \cup Failing

\* Every small expression, store and call over operands of every type, less the
\* shifts by more than the width of a word.
ShiftedFar(e) == e.kind = "Binary" /\ e.op = "<<" /\ e.right.kind = "Binary"

MCNativeFamily ==
  LET near == UNION Range(TypedFamilies) \ {Shown1(e) : e \in {x \in Nested : ShiftedFar(x)}}
  IN Alike \cup near

\* Programs both ways of running take, each of which ends differently natively:
\* the second argument's effects come before the first's; a line is begun before
\* its later arguments are evaluated, or fail; a shift by the width of a word or
\* more; two divisions whose quotient is no word, which kill the process; abs of
\* the lowest number; calls nested deeper than the VM allows.
\* Each alone violates AlwaysAgreesWithVM; the checker stops at the first.
Sum == Fun("sum", <<Param("a", IntT), Param("b", IntT)>>, IntT, <<Ret(Plus(N("a"), N("b")))>>)
Say1 == Fun("say", <<Param("x", IntT)>>, IntT, << Say(<<N("x")>>), Ret(N("x")) >>)

Unlike ==
  LET said(n) == Apply("say", <<I(n)>>)
  IN { Program(<< Say(<<Apply("sum", <<said(1), said(2)>>)>>) >>, <<Sum, Say1>>),
       Program(<< Say(<<I(7), said(1)>>) >>, <<Say1>>),
       Shown1(Binary(I(1), "<<", I(ShiftMax + 1))),
       Program(<< Say(<<I(1), Binary(I(1), "/", I(0))>>) >>, <<>>),
       Shown1(Binary(Low, "/", Unary("-", I(1)))),
       Shown1(Binary(Low, "%", Unary("-", I(1)))),
       Shown1(Apply("abs", <<Low>>)), Overflow }
=============================================================================
