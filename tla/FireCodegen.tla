---------------------------- MODULE FireCodegen ----------------------------
(***************************************************************************)
(* Bytecode generation: an analysed program in, a module out, in one walk. *)
(*                                                                         *)
(* The generator is a record C threaded through the walk: the code emitted *)
(* so far, its constants, the span of each instruction, and a stack of     *)
(* loops with the addresses of the jumps still to be patched. Operands are *)
(* reduced to their width where the code casts them.                       *)
(*                                                                         *)
(* A span is a path: that of the statement, and from it to the part that   *)
(* an instruction was emitted for.                                         *)
(***************************************************************************)
EXTENDS FireSyntax, FireBytecode, SequencesExt

CONSTANTS
  U8,    \* 256 in the code: an argument count is reduced modulo this
  U16    \* 65536 in the code: a slot, an index or a length is

ASSUME WidthAssumption == U8 \in Nat \ {0} /\ U16 \in Nat \ {0}

EmptyChunk == [code |-> <<>>, consts |-> <<>>, spans |-> <<>>, loops |-> <<>>]

\* The parts of a statement or an expression have negative numbers, so that none
\* is taken for a statement in it; the operator has no number of its own.
Part(at, k)  == Append(at, -k)
OpSpan(at)   == Append(at, 0)
VarSpan(at)  == Part(at, 3)

Emit2(C, at, op, a, b) ==
  [C EXCEPT !.code = Append(@, Instr(op, a, b)), !.spans = Append(@, at)]

Emit1(C, at, op, a) == Emit2(C, at, op, a, 0)
Emit(C, at, op)     == Emit2(C, at, op, 0, 0)

\* The address of the next instruction, and of the latest.
Here(C)   == Len(C.code) + 1
Latest(C) == Len(C.code)

\* Until it is patched a jump leads nowhere: 0xFFFFFFFF in the code.
EmitJump(C, at, op) == Emit1(C, at, op, 0)

Patch(C, jump, target) == [C EXCEPT !.code[jump].a = target]
PatchToHere(C, jump)   == Patch(C, jump, Here(C))

\* Reuse an equal constant of the pool, or append the value to it.
EmitConstant(C, at, v) ==
  LET equal == {i \in 1 .. Len(C.consts) : Equals(<<>>, C.consts[i], v)}
      i     == IF equal = {} THEN Len(C.consts) + 1
               ELSE CHOOSE j \in equal : \A k \in equal : j <= k
      pool  == IF equal = {} THEN Append(C.consts, v) ELSE C.consts
  IN Emit1([C EXCEPT !.consts = pool], at, "Constant", (i - 1) % U16)

EmitLoad(C, at, storage, slot) ==
  Emit1(C, at, IF storage = "Global" THEN "GetGlobal" ELSE "GetLocal", slot % U16)

EmitStore(C, at, storage, slot) ==
  Emit1(C, at, IF storage = "Global" THEN "SetGlobal" ELSE "SetLocal", slot % U16)

---------------------------------------------------------------------------
(* Expressions.                                                            *)

\* The type of the left operand selects the opcode. `%` has only one.
ArithmeticOpcode(op, t) ==
  LET Pick(int, float, str) == IF t = FloatT THEN float ELSE IF t = StrT THEN str ELSE int
  IN CASE op = "+"  -> Pick("AddInt", "AddFloat", "ConcatStr")
       [] op = "-"  -> Pick("SubInt", "SubFloat", "SubInt")
       [] op = "*"  -> Pick("MulInt", "MulFloat", "MulInt")
       [] op = "/"  -> Pick("DivInt", "DivFloat", "DivInt")
       [] op = "%"  -> "ModInt"
       [] op = "==" -> "Equal"
       [] op = "!=" -> "NotEqual"
       [] op = "<"  -> Pick("LessInt", "LessFloat", "LessStr")
       [] op = "<=" -> Pick("LessEqualInt", "LessEqualFloat", "LessEqualStr")
       [] op = ">"  -> Pick("GreaterInt", "GreaterFloat", "GreaterStr")
       [] op = ">=" -> Pick("GreaterEqualInt", "GreaterEqualFloat", "GreaterEqualStr")
       [] op = "&"  -> "BitAnd"
       [] op = "|"  -> "BitOr"
       [] op = "^"  -> "BitXor"
       [] op = "<<" -> "ShiftLeft"
       [] op = ">>" -> "ShiftRight"

UnaryOpcode(op, t) ==
  CASE op = "-" -> IF t = FloatT THEN "NegFloat" ELSE "NegInt"
    [] op = "!" -> "Not"
    [] op = "~" -> "BitNot"

RECURSIVE GenExpr(_, _, _), GenExprs(_, _, _)

\* The parts of what is at `at`, in order.
GenExprs(C, at, es) ==
  IF es = <<>> THEN C
  ELSE GenExpr(GenExprs(C, at, Front(es)), Part(at, Len(es)), Last(es))

\* A taken peeking jump leaves the left operand as the short-circuit result.
GenLogical(C, at, e) ==
  LET jump  == IF e.op = "&&" THEN "JumpIfFalsePeek" ELSE "JumpIfTruePeek"
      left  == EmitJump(GenExpr(C, Part(at, 1), e.left), at, jump)
      right == GenExpr(Emit(left, at, "Pop"), Part(at, 2), e.right)
  IN PatchToHere(right, Latest(left))

GenCall(C, at, e) ==
  LET args  == GenExprs(C, at, e.arguments)
      count == Len(e.arguments) % U8
  IN IF e.target = "Native"
       THEN Emit2(args, at, "CallNative", NativeId(e.callee), count)
       ELSE Emit2(args, at, "Call", e.index % U16, count)

GenExpr(C, at, e) ==
  CASE e.kind = "IntLiteral"    -> EmitConstant(C, at, IntV(e.int))
    [] e.kind = "FloatLiteral"  -> EmitConstant(C, at, FloatV(e.float))
    [] e.kind = "StringLiteral" -> EmitConstant(C, at, StrV(e.str))
    [] e.kind = "BoolLiteral"   -> Emit(C, at, IF e.bool THEN "PushTrue" ELSE "PushFalse")
    [] e.kind = "ArrayLiteral"  ->
         Emit1(GenExprs(C, at, e.elements), at, "MakeArray", Len(e.elements) % U16)
    [] e.kind = "Name"          -> EmitLoad(C, at, e.storage, e.slot)
    [] e.kind = "Unary"         ->
         Emit(GenExpr(C, Part(at, 1), e.operand), at, UnaryOpcode(e.op, e.operand.type))
    [] e.kind = "Binary"        ->
         Emit(GenExprs(C, at, <<e.left, e.right>>), OpSpan(at),
              ArithmeticOpcode(e.op, e.left.type))
    [] e.kind = "Logical"       -> GenLogical(C, at, e)
    [] e.kind = "Call"          -> GenCall(C, at, e)
    [] e.kind = "Index"         ->
         Emit(GenExprs(C, at, <<e.target, e.position>>), at, "IndexGet")

---------------------------------------------------------------------------
(* Statements.                                                             *)

OpenLoop(C) == [C EXCEPT !.loops = Append(@, [breaks |-> {}, continues |-> {}])]

\* The latest instruction is a jump that the innermost loop will patch.
Awaits(C, field) == [C EXCEPT !.loops[Len(C.loops)][field] = @ \cup {Latest(C)}]

\* Mutant: a break goes where a continue goes.
CloseLoopOnce(C, continue_target, exit_target) ==
  LET loop == C.loops[Len(C.loops)]
  IN [C EXCEPT
        !.code = [i \in 1 .. Len(@) |->
                    IF i \in loop.breaks \cup loop.continues
                      THEN [@[i] EXCEPT !.a = continue_target] ELSE @[i]],
        !.loops = SubSeq(@, 1, Len(@) - 1)]

\* Patch the breaks to one target, the continues to another; leave the loop.
CloseLoop(C, continue_target, exit_target) ==
  LET loop == C.loops[Len(C.loops)]
  IN [C EXCEPT
        !.code = [i \in 1 .. Len(@) |->
                    CASE i \in loop.breaks    -> [@[i] EXCEPT !.a = exit_target]
                      [] i \in loop.continues -> [@[i] EXCEPT !.a = continue_target]
                      [] OTHER -> @[i]],
        !.loops = SubSeq(@, 1, Len(@) - 1)]

RECURSIVE GenStmt(_, _), GenStmts(_, _)

GenStmts(C, ss) == IF ss = <<>> THEN C ELSE GenStmts(GenStmt(C, Head(ss)), Tail(ss))

\* Through an index, one copy of (array, index) survives reading the element.
GenAssign(C, s) ==
  LET t  == s.target
      at == s.at
      Value(D) == GenExpr(D, Part(at, 2), s.value)
      Computed(D) == IF s.compound = "" THEN Value(D)
                     ELSE Emit(Value(D), OpSpan(at), ArithmeticOpcode(s.compound, t.type))
      place == GenExprs(C, Part(at, 1), <<t.target, t.position>>)
      old   == Emit(Emit(place, at, "Dup2"), at, "IndexGet")
  IN IF t.kind = "Name"
       THEN EmitStore(Computed(IF s.compound = "" THEN C
                               ELSE EmitLoad(C, Part(at, 1), t.storage, t.slot)),
                      at, t.storage, t.slot)
       ELSE Emit(Computed(IF s.compound = "" THEN place ELSE old), at, "IndexSet")

\* The condition of an `if` or a `while`, and the jump past what it guards.
GenCondition(C, s) ==
  LET at == Part(s.at, 1) IN EmitJump(GenExpr(C, at, s.condition), at, "JumpIfFalse")

GenIf(C, s) ==
  LET test == GenCondition(C, s)
      then == GenStmt(test, s.then_branch)
      over == EmitJump(then, s.at, "Jump")
      else == GenStmt(PatchToHere(over, Latest(test)), s.else_branch[1])
  IN IF s.else_branch = <<>> THEN PatchToHere(then, Latest(test))
     ELSE PatchToHere(else, Latest(over))

GenWhile(C, s) ==
  LET start == Here(C)
      test  == GenCondition(C, s)
      body  == GenStmt(OpenLoop(test), s.body)
      back  == Emit1(body, s.at, "Jump", start)
  IN CloseLoop(PatchToHere(back, Latest(test)), start, Here(back))

\* Mutant: a continue goes to the test, past the increment.
GenForBodyRestarting(test, s, var_span, start, slot) ==
  LET body == GenStmt(OpenLoop(test), s.body)
      one  == EmitConstant(EmitLoad(body, var_span, "Local", slot), s.at, IntV(1))
      next == EmitStore(Emit(one, s.at, "AddInt"), var_span, "Local", slot)
      back == Emit1(next, s.at, "Jump", start)
  IN [back |-> back, increment |-> start]

\* What both `for` loops share: the body of a loop whose test is `test`, the
\* increment of a local slot, and the way back to `start`. A `continue` goes
\* to the increment.
GenForBody(test, s, var_span, start, slot) ==
  LET body == GenStmt(OpenLoop(test), s.body)
      one  == EmitConstant(EmitLoad(body, var_span, "Local", slot), s.at, IntV(1))
      next == EmitStore(Emit(one, s.at, "AddInt"), var_span, "Local", slot)
      back == Emit1(next, s.at, "Jump", start)
  IN [back |-> back, increment |-> Here(body)]

GenForRange(C, s) ==
  LET at    == s.at
      first == EmitStore(GenExpr(C, Part(at, 1), s.start), at, "Local", s.slot)
      limit == EmitStore(GenExpr(first, Part(at, 2), s.end), at, "Local", s.limit_slot)
      i     == EmitLoad(limit, VarSpan(at), "Local", s.slot)
      test  == EmitJump(Emit(EmitLoad(i, VarSpan(at), "Local", s.limit_slot), at, "LessInt"),
                        at, "JumpIfFalse")
      loop  == GenForBody(test, s, VarSpan(at), Here(limit), s.slot)
  IN CloseLoop(PatchToHere(loop.back, Latest(test)), loop.increment, Here(loop.back))

\* The length is read again before every iteration.
GenForIn(C, s) ==
  LET seq  == EmitStore(GenExpr(C, Part(s.at, 1), s.iterable), s.at, "Local", s.seq_slot)
      zero == EmitStore(EmitConstant(seq, s.at, IntV(0)), s.at, "Local", s.index_slot)
      Both(D, a, b) == EmitLoad(EmitLoad(D, s.at, "Local", a), s.at, "Local", b)
      len  == Emit2(Both(zero, s.index_slot, s.seq_slot), s.at, "CallNative", NativeId("len"), 1)
      test == EmitJump(Emit(len, s.at, "LessInt"), s.at, "JumpIfFalse")
      item == EmitStore(Emit(Both(test, s.seq_slot, s.index_slot), s.at, "IndexGet"),
                        VarSpan(s.at), "Local", s.slot)
      loop == GenForBody(item, s, s.at, Here(zero), s.index_slot)
  IN CloseLoop(PatchToHere(loop.back, Latest(test)), loop.increment, Here(loop.back))

GenStmt(C, s) ==
  CASE s.kind = "VarDecl"  -> EmitStore(GenExpr(C, Part(s.at, 1), s.init), s.at, s.storage, s.slot)
    [] s.kind = "ExprStmt" -> Emit(GenExpr(C, Part(s.at, 1), s.expr), s.at, "Pop")
    [] s.kind = "Assign"   -> GenAssign(C, s)
    [] s.kind = "Block"    -> GenStmts(C, s.statements)
    [] s.kind = "If"       -> GenIf(C, s)
    [] s.kind = "While"    -> GenWhile(C, s)
    [] s.kind = "ForRange" -> GenForRange(C, s)
    [] s.kind = "ForIn"    -> GenForIn(C, s)
    [] s.kind = "Break"    -> Awaits(EmitJump(C, s.at, "Jump"), "breaks")
    [] s.kind = "Continue" -> Awaits(EmitJump(C, s.at, "Jump"), "continues")
    [] s.kind = "Return"   ->
         IF s.result = <<>> THEN Emit(C, s.at, "ReturnVoid")
         ELSE Emit(GenExpr(C, Part(s.at, 1), s.result[1]), s.at, "Return")

---------------------------------------------------------------------------
(* Modules.                                                                *)

Compiled(C, arity, local_count) ==
  [arity |-> arity, local_count |-> local_count,
   code |-> C.code, consts |-> C.consts, spans |-> C.spans]

GenFunction(f) ==
  Compiled(Emit(GenStmts(EmptyChunk, f.body.statements), f.at, "ReturnVoid"),
           Len(f.params), f.local_count)

\* generate, for a program that Analyze accepted.
Generate(analysed) ==
  [script |-> Compiled(Emit(GenStmts(EmptyChunk, analysed.top_level), <<0>>, "Halt"),
                       0, analysed.script_local_count),
   functions |-> [i \in 1 .. Len(analysed.functions) |-> GenFunction(analysed.functions[i])],
   global_count |-> analysed.global_count]
=============================================================================
