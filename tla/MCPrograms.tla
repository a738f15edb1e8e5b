---------------------------- MODULE MCPrograms ----------------------------
(***************************************************************************)
(* Programs for the model checker.                                         *)
(***************************************************************************)
EXTENDS FireSyntax, Integers

N(x)        == Name(x)
I(n)        == IntLit(n)
Say(es)   == Do(Apply("println", es))
Plus(a, b)  == Binary(a, "+", b)
Same(a, b) == Binary(a, "==", b)

\* Text: a string is a sequence of bytes.
A == StrLit(<<97>>)
B == StrLit(<<98>>)

---------------------------------------------------------------------------
(* One program for each construct, each with the case that is easy to get  *)
(* wrong.                                                                  *)

\* fn fact(n: int) -> int { if n < 2 { return 1; } return n * fact(n - 1); }
Fact ==
  Fun("fact", <<Param("n", IntT)>>, IntT,
    << If(Binary(N("n"), "<", I(2)), <<Ret(I(1))>>),
       Ret(Binary(N("n"), "*", Apply("fact", <<Binary(N("n"), "-", I(1))>>))) >>)

\* fn note(x: int) -> bool { println(x); return x > 0; }
Note ==
  Fun("note", <<Param("x", IntT)>>, BoolT,
    << Say(<<N("x")>>), Ret(Binary(N("x"), ">", I(0))) >>)

\* fn grow(xs: [int]) { let n = len(xs); push(xs, n); }
Grow ==
  Fun("grow", <<Param("xs", ArrayT(IntT))>>, VoidT,
    << Let("n", Apply("len", <<N("xs")>>)), Do(Apply("push", <<N("xs"), N("n")>>)) >>)

\* fn down(n: int) { if n > 0 { down(n - 1); println(n); return; } println("a"); }
Down ==
  Fun("down", <<Param("n", IntT)>>, VoidT,
    << If(Binary(N("n"), ">", I(0)),
          << Do(Apply("down", <<Binary(N("n"), "-", I(1))>>)), Say(<<N("n")>>), RetVoid >>),
       Say(<<A>>) >>)

\* fn pick(n: int) -> int { while true { if n > 2 { return n; } n += 1; } }
Pick ==
  Fun("pick", <<Param("n", IntT)>>, IntT,
    << While(BoolLit(TRUE),
         << If(Binary(N("n"), ">", I(2)), <<Ret(N("n"))>>), Compound(N("n"), "+", I(1)) >>) >>)

\* fn quit(n: int) -> int { if n == 0 { exit(5); } else { panic("a"); } println(n); }
Quit ==
  Fun("quit", <<Param("n", IntT)>>, IntT,
    << IfElse(Same(N("n"), I(0)), Block(<<Do(Apply("exit", <<I(5)>>))>>),
              <<Block(<<Do(Apply("panic", <<A>>))>>)>>),
       Say(<<N("n")>>) >>)

\* Two sibling scopes share slots, and a name shadows another from inside.
Shadowing ==
  Program(<< Let("x", I(1)),
             Block(<< Let("x", Plus(N("x"), I(1))), Let("y", N("x")), Say(<<N("x"), N("y")>>) >>),
             Block(<< Let("z", I(5)), Say(<<N("z"), N("x")>>) >>),
             Say(<<N("x")>>) >>, <<>>)

Recursion ==
  Program(<< Say(<<Apply("fact", <<I(3)>>)>>), Do(Apply("down", <<I(2)>>)) >>, <<Fact, Down>>)

Overflow == Program(<< Do(Apply("down", <<I(7)>>)) >>, <<Down>>)

\* Both operators short-circuit; the right operand has an effect.
ShortCircuit ==
  LET note(n) == Apply("note", <<I(n)>>)
  IN Program(<< If(Logical(note(0), "&&", note(1)), <<Say(<<A>>)>>),
                If(Logical(note(2), "||", note(3)), <<Say(<<B>>)>>),
                Let("b", Logical(Logical(note(0), "||", note(4)), "&&", Unary("!", note(0)))),
                Say(<<N("b")>>) >>, <<Note>>)

\* Arrays have reference semantics; a compound store evaluates its target once.
Aliasing ==
  Program(<< Let("xs", ArrayLit(<<I(1), I(2)>>)), Let("ys", N("xs")),
             Compound(Index(N("xs"), I(0)), "+", I(3)),
             Compound(Index(N("ys"), Apply("pop", <<N("ys")>>)), "*", I(2)) >>, <<>>)

Sharing ==
  Program(<< Let("xs", ArrayLit(<<I(1)>>)), Let("yss", ArrayLit(<<N("xs"), N("xs")>>)),
             Do(Apply("grow", <<Index(N("yss"), I(0))>>)),
             Assign(Index(Index(N("yss"), I(1)), I(0)), I(7)),
             Say(<<N("xs"), N("yss"), Same(Index(N("yss"), I(0)), ArrayLit(<<I(7), I(1)>>))>>),
             Do(Apply("insert", <<N("xs"), I(0), I(4)>>)),
             Say(<<Apply("remove", <<N("xs"), I(1)>>), Apply("slice", <<N("xs"), I(0), I(1)>>)>>)
          >>, <<Grow>>)

\* A loop over an array that its body extends.
Growing ==
  Program(<< Let("xs", ArrayLit(<<I(0)>>)),
             ForIn("x", N("xs"),
               << If(Binary(Apply("len", <<N("xs")>>), "<", I(3)),
                     << Do(Apply("grow", <<N("xs")>>)), Let("t", N("x")), Say(<<N("t")>>) >>),
                  If(Same(N("x"), I(1)), <<Continue>>),
                  Say(<<N("x"), N("xs")>>) >>) >>, <<Grow>>)

\* fn count() { n += 1; println(n); }, over a global of the script.
Globals ==
  Program(<< Let("n", I(0)), Do(Apply("count", <<>>)), Compound(N("n"), "*", I(3)),
             Do(Apply("count", <<>>)), Say(<<N("n")>>) >>,
          << Fun("count", <<>>, VoidT, << Compound(N("n"), "+", I(1)), Say(<<N("n")>>) >>) >>)

Text ==
  Program(<< Let("s", Plus(A, B)), Compound(N("s"), "+", A),
             ForIn("c", N("s"), << If(Binary(N("c"), ">=", B), <<Break>>), Say(<<N("c")>>) >>),
             Say(<<Binary(N("s"), "<", B), Index(N("s"), I(1)),
                     Apply("slice", <<N("s"), I(1), I(7)>>)>>),
             Say(<<Index(N("s"), I(3))>>) >>, <<>>)

Dead ==
  Program(<< Say(<<Apply("pick", <<I(0)>>)>>), Say(<<Apply("quit", <<I(0)>>)>>) >>,
          <<Pick, Quit>>)

Panics == Program(<< Do(Apply("quit", <<I(1)>>)), Say(<<A>>) >>, <<Quit>>)

Asserts ==
  Program(<< Do(Apply("assert", <<BoolLit(TRUE)>>)),
             Do(Apply("assert", <<Binary(I(1), ">", I(2)), A>>)), Say(<<B>>) >>, <<>>)

\* Numbers at their limits.
Limits ==
  Program(<< Let("low", Binary(Unary("-", I(7)), "-", I(1))),
             Say(<<N("low"), Unary("-", N("low")), Unary("~", N("low")),
                     Binary(N("low"), "%", Unary("-", I(1))), Binary(N("low"), "-", I(1)),
                     Apply("min", <<N("low"), I(3)>>), Apply("max", <<N("low"), I(3)>>)>>),
             Say(<<Apply("abs", <<N("low")>>)>>) >>, <<>>)

\* A divisor that is zero ends the run.
Division ==
  Program(<< Let("n", Binary(I(7), "/", I(2))), Say(<<N("n"), Binary(N("n"), "%", I(2))>>),
             Say(<<Binary(I(7), "%", Binary(N("n"), "-", I(3)))>>) >>, <<>>)

\* What floats compute is not a number (FloatVals is {NaN} here), so that
\* comparisons with it and without it both happen.
Floats ==
  LET f(x) == FloatLit(x)
  IN Program(<< Let("x", Binary(f(3), "/", f(4))), Let("ys", ArrayLit(<<N("x")>>)),
                Say(<<Same(N("x"), N("x")), Same(N("ys"), N("ys")),
                      Same(N("ys"), ArrayLit(<<N("x")>>)), Binary(N("x"), "<=", f(1)),
                      Binary(f(1), "<=", f(2)), Binary(f(1), ">", f(2)),
                      Unary("-", f(1)), Apply("max", <<f(1), f(2)>>)>>),
                Compound(N("x"), "-", f(2)), Say(<<N("x")>>) >>, <<>>)

Constructs ==
  { Floats, Shadowing, Recursion, Overflow, ShortCircuit, Aliasing, Sharing, Growing, Globals,
     Text, Dead, Panics, Asserts, Limits, Division }

---------------------------------------------------------------------------
(* Programs with a function some path of which ends without a result: the  *)
(* analyzer rejects them.                                                  *)

\* Calls f(0) and prints the result; f(n: int) -> int is the function.
Calling(ss) ==
  Program(<< Say(<<Apply("f", <<I(0)>>)>>) >>, << Fun("f", <<Param("n", IntT)>>, IntT, ss) >>)

FallingPrograms ==
  { Calling(<<>>),
    Calling(<< If(Same(N("n"), I(1)), <<Ret(N("n"))>>) >>),
    Calling(<< While(Same(N("n"), N("n")), <<Ret(N("n"))>>) , Say(<<N("n")>>) >>),
    Calling(<< While(BoolLit(TRUE),
                 << If(Same(N("n"), I(2)), <<Break>>), Compound(N("n"), "+", I(1)) >>) >>),
    Calling(<< While(BoolLit(FALSE), <<Ret(N("n"))>>) >>),
    Calling(<< ForRange("i", N("n"), I(3), <<Ret(N("i"))>>) >>) }

---------------------------------------------------------------------------
(* Every expression over small operands of every type.                     *)

Atoms == { I(2), I(7), BoolLit(TRUE), A, FloatLit(1), ArrayLit(<<I(1)>>) }

\* Those, an array whose type its context must tell, and the result of a call of
\* fn none() { }, which is no value at all.
None     == Fun("none", <<>>, VoidT, <<>>)
Operands == Atoms \cup { ArrayLit(<<>>), Apply("none", <<>>) }

BinaryOps == ArithmeticOps \cup BitwiseOps \cup OrderOps \cup EqualOps

\* What the code generator has no opcode for although the analyzer lets it by.
KnownHole(e) == e.kind = "Binary" /\ e.op = "%" /\ e.left.kind = "FloatLiteral"

Compounds ==
  { Binary(l, op, r) : l \in Operands, op \in BinaryOps, r \in Operands }
    \cup { Logical(l, op, r) : l \in Operands, op \in {"&&", "||"}, r \in Operands }
    \cup { Unary(op, x) : op \in {"-", "!", "~"}, x \in Operands }
    \cup { Index(x, i) : x \in Operands \cup {ArrayLit(<<A, A, A>>)}, i \in Operands }

Thirds == { I(2), A, ArrayLit(<<I(1)>>), Apply("none", <<>>) }

\* Calls of the builtins with as many arguments as they take, and fewer.
Calls ==
  { Apply(f, <<x>>) : f \in {"len", "pop", "push", "abs", "exit", "panic", "assert"}, x \in Operands }
    \cup { Apply(f, <<x, y>>) : f \in {"push", "remove", "min", "max", "assert"},
                                 x \in Operands, y \in Operands }
    \cup { Apply(f, <<x, y, z>>) : f \in {"insert", "slice"}, x \in Operands,
                                    y \in Thirds, z \in Thirds }

\* An operation on the result of an operation.
Inner  == { Binary(l, op, r) : l \in {I(7), A}, op \in {"+", "*", "<", "=="}, r \in {I(3), B} }
Nested == Inner \cup { Binary(x, op, y) : x \in Inner, op \in {"-", "<<", "<=", "!="}, y \in Inner }

Shown1(e) == Program(<< Say(<<e>>) >>, <<None>>)

\* let x = <a>; x <op>= <b>; println(x);  and the same through an index.
Stores ==
  { Program(<< Let("x", a), Compound(t, op, b), Say(<<N("x")>>) >>, <<>>) :
      a \in Atoms \ {A}, b \in Operands \ {Apply("none", <<>>)}, op \in {"", "+", "-"},
      t \in {N("x"), Index(N("x"), I(0))} }

\* fn f(x: T) -> T { return <e>; }  f(<a>)
Passing ==
  { Program(<< Say(<<Apply("f", <<a>>)>>) >>,
            << Fun("f", <<Param("x", t)>>, u, << Ret(e) >>) >>) :
      a \in Atoms, t \in {IntT, StrT, FloatT}, u \in {IntT, StrT, BoolT},
      e \in {N("x"), Plus(N("x"), N("x")), Same(N("x"), N("x"))} }

TypedFamilies ==
  << { Shown1(e) : e \in {x \in Compounds : ~KnownHole(x)} }, { Shown1(e) : e \in Calls \cup Nested },
     { Program(<< Do(e) >>, <<None>>) : e \in Calls }, Stores, Passing >>

---------------------------------------------------------------------------
(* Every loop with a short body: declarations, jumps and effects in every  *)
(* order, alone or in another loop.                                        *)

\* `i` is the loop variable; `n` is a variable of the script, `xs` an array.
Steps ==
  { Say(<<N("i"), N("n")>>),
    Let("t", Plus(N("i"), N("i"))),
    Compound(N("n"), "+", N("i")),
    If(Same(N("i"), I(1)), <<Let("u", I(6)), Continue>>),
    If(Binary(N("n"), ">", I(2)), <<Say(<<N("n")>>), Break>>),
    Do(Apply("push", <<N("ys"), N("i")>>)) }

Bodies == { <<a, b>> : a \in Steps, b \in Steps}

\* The three loops, each over i = 0, 1, 2 or 1, 0, 2.
ForLoop(body)  == ForRange("i", I(0), I(3), body)
EachLoop(body) == ForIn("i", ArrayLit(<<I(1), I(0), I(2)>>), body)
WhileLoop(body) ==
  Block(<< Let("k", I(0)),
           While(Binary(N("k"), "<", I(3)),
                 << Let("w", N("k")), Let("i", N("w")), Compound(N("k"), "+", I(1)) >> \o body) >>)

\* The loop alone, twice in a row, and inside another loop.
Around(loop) ==
  { Program(<< Let("n", I(0)), Let("ys", ArrayLit(<<I(3)>>)) >> \o ss \o << Say(<<N("n"), N("ys")>>) >>,
            <<>>) :
      ss \in { << loop, Let("z", I(4)), Say(<<N("z")>>) >>,
               << ForRange("j", I(0), I(2), << Let("v", N("j")), loop, Say(<<N("v"), N("j")>>) >>) >> } }

LoopFamilies ==
  << UNION { Around(ForLoop(b)) : b \in Bodies }, UNION { Around(EachLoop(b)) : b \in Bodies },
     UNION { Around(WhileLoop(b)) : b \in Bodies } >>

---------------------------------------------------------------------------
(* Programs the analyzer accepts and that still end in an internal error.  *)

\* println(late()); let s = "a"; fn late() -> str { return s + "b"; }
ReadsLateGlobal ==
  Program(<< Say(<<Apply("late", <<>>)>>), Let("s", A) >>,
          << Fun("late", <<>>, StrT, <<Ret(Plus(N("s"), B))>>) >>)

\* println(1.0 % 2.0);
FloatRemainder == Program(<< Say(<<Binary(FloatLit(1), "%", FloatLit(2))>>) >>, <<>>)

\* let s = "a"; s[0] = "b";
StoresIntoText == Program(<< Let("s", A), Assign(Index(N("s"), I(0)), B) >>, <<>>)

\* fn none() { }  let xs = [none()]; println(xs + 1);
ArrayOfVoid ==
  Program(<< Let("xs", ArrayLit(<<Apply("none", <<>>)>>)), Say(<<Plus(N("xs"), I(1))>>) >>,
          <<None>>)

Holes == { ReadsLateGlobal, FloatRemainder, StoresIntoText, ArrayOfVoid }
=============================================================================
