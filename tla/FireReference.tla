--------------------------- MODULE FireReference ---------------------------
(***************************************************************************)
(* What a Fire program means: a definition to hold the compiler and the    *)
(* virtual machine against.                                                *)
(*                                                                         *)
(* It evaluates the syntax tree directly. There are no slots, frames, jumps*)
(* or operand stack: a declaration makes a new cell and binds its name in  *)
(* the innermost scope, a function body sees the global scope and its own, *)
(* a loop body is a scope of its own each time round, and `break`,         *)
(* `continue`, `return` and failure are how a statement ends. It shares    *)
(* with the machine the operations on single values, and nothing else.     *)
(*                                                                         *)
(* R is the state of an evaluation: scopes (global scope first), cells,    *)
(* heap, output, the depth of calls, how the last construct ended (`ctl`)  *)
(* and the value it produced (`val`).                                      *)
(***************************************************************************)
EXTENDS FireSyntax, FireBytecode, SequencesExt

Ending(R, ctl) == [R EXCEPT !.ctl = ctl]
Gives(R, v)    == [R EXCEPT !.val = v]
Goes(R)        == R.ctl = "next"

Enter(R) == [R EXCEPT !.scopes = Append(@, << >>)]
Leave(R, outer) == [R EXCEPT !.scopes = outer.scopes]

\* Bind x to a new cell that holds v.
Bind(R, x, v) ==
  [R EXCEPT !.cells = Append(@, v),
            !.scopes[Len(R.scopes)] = (x :> Len(R.cells) + 1) @@ @]

\* The cell of x in the innermost scope that binds it; 0 when none does yet.
CellOf(R, x) ==
  LET binding == {i \in 1 .. Len(R.scopes) : x \in DOMAIN R.scopes[i]}
  IN IF binding = {} THEN 0 ELSE R.scopes[Max(binding)][x]

\* The values of single operations; an empty set is a run-time failure. The
\* result of a float operation is any of FloatVals, as it is for the machine:
\* a program that computes with floats has a meaning when there is only one.
IntOpcode ==
  [o \in ArithmeticOps \cup BitwiseOps |->
     CASE o = "+" -> "AddInt"     [] o = "-" -> "SubInt" [] o = "*" -> "MulInt"
       [] o = "/" -> "DivInt"     [] o = "%" -> "ModInt" [] o = "&" -> "BitAnd"
       [] o = "|" -> "BitOr"      [] o = "^" -> "BitXor"
       [] o = "<<" -> "ShiftLeft" [] o = ">>" -> "ShiftRight"]

IntValues(op, l, r) ==
  IF IntFault(op, l, r) THEN {} ELSE {IntV(n) : n \in {m \in IntRange : IsIntResult(op, l, r, m)}}

\* Nothing is less than, greater than or equal to NaN.
LessThan(a, b) ==
  CASE Tag(a) = "str"   -> BytesLess(Payload(a), Payload(b))
    [] Tag(a) = "float" -> NaN \notin {Payload(a), Payload(b)} /\ Payload(a) < Payload(b)
    [] OTHER            -> Payload(a) < Payload(b)

BinaryValues(h, op, l, r) ==
  CASE op = "==" -> {BoolV(Equals(h, l, r))}
    [] op = "!=" -> {BoolV(~Equals(h, l, r))}
    [] op = "<"  -> {BoolV(LessThan(l, r))}
    [] op = ">"  -> {BoolV(LessThan(r, l))}
    [] op = "<=" -> {BoolV(LessThan(l, r) \/ Equals(h, l, r))}
    [] op = ">=" -> {BoolV(LessThan(r, l) \/ Equals(h, l, r))}
    [] op = "+" /\ Tag(l) = "str" -> {StrV(Payload(l) \o Payload(r))}
    [] Tag(l) = "float"           -> {FloatV(x) : x \in FloatVals}
    [] OTHER                      -> IntValues(IntOpcode[op], Payload(l), Payload(r))

\* An operation on a value of another type has no meaning.
UnaryDefined(op, x) ==
  \/ op = "!" /\ Tag(x) = "bool"
  \/ op = "-" /\ Tag(x) \in {"int", "float"}
  \/ op = "~" /\ Tag(x) = "int"

UnaryValue(op, x) ==
  CASE op = "!" -> BoolV(~Payload(x))
    [] op = "-" /\ Tag(x) = "float" -> FloatV(CHOOSE y \in FloatVals : TRUE)
    [] op = "-" /\ Tag(x) = "int" ->
         IntV(CHOOSE n \in IntRange : IsIntUnaryResult("NegInt", Payload(x), n))
    [] op = "~" -> IntV(-Payload(x) - 1)

ElementAt(R, x, i) ==
  LET items == IF Tag(x) = "str" THEN Payload(x) ELSE R.heap[Payload(x)]
  IN IF i \notin 0 .. Len(items) - 1 THEN Ending(R, "failed")
     ELSE Gives(R, IF Tag(x) = "str" THEN StrV(<<items[i + 1]>>) ELSE items[i + 1])

\* Text cannot be changed: a store into it has no meaning.
StoreAt(R, x, i, v) ==
  IF Tag(x) # "array" THEN Ending(R, "undefined")
  ELSE IF i \notin 0 .. Len(R.heap[Payload(x)]) - 1 THEN Ending(R, "failed")
  ELSE [R EXCEPT !.heap[Payload(x)] = [@ EXCEPT ![i + 1] = v]]

RunNative(R, name, args) ==
  LET r == CHOOSE o \in NativeOutcomes(NativeId(name), args, R.heap, R.out) : TRUE
  IN IF r.kind = "value" THEN [R EXCEPT !.val = r.value, !.heap = r.heap, !.out = r.out]
     ELSE [R EXCEPT !.ctl = r.kind, !.code = r.code]

---------------------------------------------------------------------------
(* Expressions: Eval(R, e) ends with ctl = "next" and the value in val, or *)
(* with the ctl of a run that is over.                                     *)

RECURSIVE Eval(_, _), EvalAll(_, _), Exec(_, _), ExecAll(_, _),
          Repeat(_, _), Count(_, _, _, _), Iterate(_, _, _, _)

\* The values of a list of expressions, from left to right, as [R, vs].
EvalAll(R, es) ==
  IF es = <<>> THEN [R |-> R, vs |-> <<>>]
  ELSE LET first == Eval(R, Head(es))
           rest  == EvalAll(first, Tail(es))
       IN IF Goes(first) THEN [R |-> rest.R, vs |-> <<first.val>> \o rest.vs]
          ELSE [R |-> first, vs |-> <<>>]

\* The callee's parameters are bound in a scope that its body shares.
RunFunction(R, f, args) ==
  LET callee == SelectSeq(R.functions, LAMBDA g : g.name = f)[1]
      inside == [R EXCEPT !.scopes = << Head(@), << >> >>, !.depth = @ + 1]
      RECURSIVE BindAll(_, _)
      BindAll(Q, i) == IF i > Len(args) THEN Q
                       ELSE BindAll(Bind(Q, callee.params[i].name, args[i]), i + 1)
      done   == ExecAll(BindAll(inside, 1), callee.body.statements)
      back   == [done EXCEPT !.scopes = R.scopes, !.depth = R.depth]
  IN CASE R.depth >= MaxCallDepth -> Ending(R, "failed")
       [] R.depth < MaxCallDepth /\ done.ctl = "return" -> Ending(back, "next")
       [] R.depth < MaxCallDepth /\ done.ctl = "next"   -> Gives(back, IntV(0))
       [] OTHER -> back

Eval(R, e) ==
  CASE e.kind = "IntLiteral"    -> Gives(R, IntV(e.int))
    [] e.kind = "FloatLiteral"  -> Gives(R, FloatV(e.float))
    [] e.kind = "StringLiteral" -> Gives(R, StrV(e.str))
    [] e.kind = "BoolLiteral"   -> Gives(R, BoolV(e.bool))
    [] e.kind = "Name"          ->
         IF CellOf(R, e.name) = 0 THEN Ending(R, "unset")
         ELSE Gives(R, R.cells[CellOf(R, e.name)])
    [] e.kind = "ArrayLiteral"  ->
         LET all == EvalAll(R, e.elements)
         IN IF ~Goes(all.R) THEN all.R
            ELSE Gives([all.R EXCEPT !.heap = Append(@, all.vs)],
                       ArrayV(Len(all.R.heap) + 1))
    [] e.kind = "Unary"         ->
         LET x == Eval(R, e.operand)
         IN IF ~Goes(x) THEN x
            ELSE IF UnaryDefined(e.op, x.val) THEN Gives(x, UnaryValue(e.op, x.val))
            ELSE Ending(x, "undefined")
    [] e.kind = "Binary"        ->
         LET both == EvalAll(R, <<e.left, e.right>>)
             vs   == BinaryValues(both.R.heap, e.op, both.vs[1], both.vs[2])
         IN IF ~Goes(both.R) THEN both.R
            ELSE IF vs = {} THEN Ending(both.R, "failed")
            ELSE Gives(both.R, CHOOSE v \in vs : TRUE)
    [] e.kind = "Logical"       ->
         LET l == Eval(R, e.left)
         IN IF ~Goes(l) \/ Payload(l.val) = (e.op = "||") THEN l ELSE Eval(l, e.right)
    [] e.kind = "Index"         ->
         LET both == EvalAll(R, <<e.target, e.position>>)
         IN IF Goes(both.R) THEN ElementAt(both.R, both.vs[1], Payload(both.vs[2]))
            ELSE both.R
    [] e.kind = "Call"          ->
         LET all == EvalAll(R, e.arguments)
         IN IF ~Goes(all.R) THEN all.R
            ELSE IF \E i \in 1 .. Len(R.functions) : R.functions[i].name = e.callee
              THEN RunFunction(all.R, e.callee, all.vs)
              ELSE RunNative(all.R, e.callee, all.vs)

---------------------------------------------------------------------------
(* Statements. A loop ends when its body breaks or its test fails.         *)

ExecAll(R, ss) ==
  IF ss = <<>> THEN R
  ELSE LET first == Exec(R, Head(ss))
       IN IF Goes(first) THEN ExecAll(first, Tail(ss)) ELSE first

Scoped(R, ss) == Leave(ExecAll(Enter(R), ss), R)

\* One round of a loop: "next" asks for another round.
Round(R, s) ==
  LET done == Scoped(R, s.body.statements)
  IN IF done.ctl = "continue" THEN Ending(done, "next") ELSE done

AfterLoop(R) == IF R.ctl = "break" THEN Ending(R, "next") ELSE R

Repeat(R, s) ==
  LET test  == Eval(R, s.condition)
      round == Round(test, s)
  IN IF ~Goes(test) \/ ~Payload(test.val) THEN test
     ELSE IF Goes(round) THEN Repeat(round, s) ELSE AfterLoop(round)

\* `for x in i .. limit`: x is a variable of the loop, which its body may set.
Count(R, s, limit, outer) ==
  LET cell  == CellOf(R, s.name)
      i     == Payload(R.cells[cell])
      round == Round(R, s)
      after == Payload(round.cells[cell])
      next  == CHOOSE n \in IntRange : SameBits(n, after + 1)
  IN IF i >= limit THEN Leave(R, outer)
     ELSE IF Goes(round) THEN Count([round EXCEPT !.cells[cell] = IntV(next)], s, limit, outer)
     ELSE Leave(AfterLoop(round), outer)

\* `for x in xs`: xs is looked at anew each round, so it may grow or shrink.
Iterate(R, s, xs, i) ==
  LET length == IF Tag(xs) = "str" THEN Len(Payload(xs)) ELSE Len(R.heap[Payload(xs)])
      bound  == Bind(Enter(R), s.name, ElementAt(R, xs, i).val)
      round  == Leave(Round(bound, s), R)
  IN IF i >= length THEN R
     ELSE IF Goes(round) THEN Iterate(round, s, xs, i + 1) ELSE AfterLoop(round)

\* A compound assignment reads its target first, and evaluates it only once.
ExecAssign(R, s) ==
  LET named == s.target.kind = "Name"
      place == IF named THEN [R |-> R, vs |-> <<>>]
               ELSE EvalAll(R, <<s.target.target, s.target.position>>)
      old   == IF s.compound = "" THEN place.R
               ELSE IF named THEN Eval(R, s.target)
               ELSE ElementAt(place.R, place.vs[1], Payload(place.vs[2]))
      right == Eval(old, s.value)
      vs    == IF s.compound = "" THEN {right.val}
               ELSE BinaryValues(right.heap, s.compound, old.val, right.val)
      v     == CHOOSE x \in vs : TRUE
  IN IF ~Goes(place.R) THEN place.R
     ELSE IF ~Goes(old) THEN old
     ELSE IF ~Goes(right) THEN right
     ELSE IF vs = {} THEN Ending(right, "failed")
     ELSE IF named THEN [right EXCEPT !.cells[CellOf(right, s.target.name)] = v]
     ELSE StoreAt(right, place.vs[1], Payload(place.vs[2]), v)

Exec(R, s) ==
  CASE s.kind = "VarDecl"  ->
         LET x == Eval(R, s.init) IN IF Goes(x) THEN Bind(x, s.name, x.val) ELSE x
    [] s.kind = "ExprStmt" -> Eval(R, s.expr)
    [] s.kind = "Assign"   -> ExecAssign(R, s)
    [] s.kind = "Block"    -> Scoped(R, s.statements)
    [] s.kind = "If"       ->
         LET c == Eval(R, s.condition)
         IN IF ~Goes(c) THEN c
            ELSE IF Payload(c.val) THEN Exec(c, s.then_branch)
            ELSE IF s.else_branch # <<>> THEN Exec(c, s.else_branch[1]) ELSE c
    [] s.kind = "While"    -> Repeat(R, s)
    [] s.kind = "ForRange" ->
         LET both == EvalAll(R, <<s.start, s.end>>)
         IN IF ~Goes(both.R) THEN both.R
            ELSE Count(Bind(Enter(both.R), s.name, both.vs[1]), s, Payload(both.vs[2]), R)
    [] s.kind = "ForIn"    ->
         LET x == Eval(R, s.iterable) IN IF Goes(x) THEN Iterate(x, s, x.val, 0) ELSE x
    [] s.kind = "Break"    -> Ending(R, "break")
    [] s.kind = "Continue" -> Ending(R, "continue")
    [] s.kind = "Return"   ->
         LET x == IF s.result = <<>> THEN Gives(R, IntV(0)) ELSE Eval(R, s.result[1])
         IN IF Goes(x) THEN Ending(x, "return") ELSE x

---------------------------------------------------------------------------

\* How a program ends, what it prints and what it exits with. One that
\* reads a global before its declaration has run is "unset", one that applies an
\* operation to a value of another type "undefined".
Meaning(program) ==
  LET R == ExecAll([scopes |-> << << >> >>, cells |-> <<>>, heap |-> <<>>, out |-> <<>>,
                    ctl |-> "next", val |-> IntV(0), code |-> 0, depth |-> 1,
                    functions |-> program.functions], program.top_level)
  IN [status |-> IF R.ctl = "next" THEN "halted" ELSE R.ctl,
      exit_status |-> CASE R.ctl = "exited" -> R.code
                        [] R.ctl = "next"   -> 0
                        [] OTHER            -> 70,
      out |-> R.out]
=============================================================================
