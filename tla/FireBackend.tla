---------------------------- MODULE FireBackend ----------------------------
(***************************************************************************)
(* The native backend: x86-64 assembly from an analysed program, in one    *)
(* walk over the same tree the bytecode generator walks.                   *)
(*                                                                         *)
(* The emitter is a record E threaded through the walk: the lines emitted  *)
(* so far, the label counter, the labels of the enclosing loops, and the   *)
(* features it reported as unsupported (N0001, once for each). A line is   *)
(* an instruction <<mnemonic, operands...>> or a label. A string constant  *)
(* stands in the line that writes it, where the code keeps it in .rodata.  *)
(***************************************************************************)
EXTENDS FireSyntax, Integers, SequencesExt

\* Operands: a register, an immediate, a word of the frame or of fire_globals.
Reg(r)    == <<"reg", r>>
Imm(n)    == <<"imm", n>>
Arg(i)    == <<"arg", i>>            \* [rbp + 16 + 8i]: argument i
RAX == Reg("rax")
RCX == Reg("rcx")
RDX == Reg("rdx")
RDI == Reg("rdi")

\* Mutant: slot 0 is put where the saved rbp is.
SlotAddressFromBase(storage, slot) ==
  IF storage = "Global" THEN <<"global", slot>> ELSE <<"local", slot - 1>>

\* slot_address: slot 0 of a frame is the word after rbp, slot 1 the next.
SlotAddress(storage, slot) ==
  IF storage = "Global" THEN <<"global", slot>> ELSE <<"local", slot>>

NewEmitter == [text |-> <<>>, label_counter |-> 0, loops |-> <<>>, reported |-> {}]

Lines(E, ls) == [E EXCEPT !.text = @ \o ls]

Push(x)     == <<"push", x>>
Pop(r)      == <<"pop", r>>
Move(to, x) == <<"mov", to, x>>
Label(name) == <<"label", name>>

\* fresh_label: the name the next label of this prefix gets; Fresh takes n of them.
LabelName(E, prefix, i) == <<prefix, E.label_counter + i>>
Fresh(E, n)             == [E EXCEPT !.label_counter = @ + n]

Unsupported(E, what) == [E EXCEPT !.reported = @ \cup {what}]
UnsupportedIf(bad, E, what) == IF bad THEN Unsupported(E, what) ELSE E

SupportedScalar(t) == t \in {IntT, BoolT, ErrorT}

\* fire_fn_<index>_<name>: the index alone tells functions apart.
Mangle(index) == <<"fn", index>>

---------------------------------------------------------------------------
(* Expressions: each leaves its value on the machine stack.                *)

SetCondition ==
  [o \in OrderOps \cup EqualOps |->
     CASE o = "==" -> "sete" [] o = "!=" -> "setne" [] o = "<" -> "setl"
       [] o = "<=" -> "setle" [] o = ">" -> "setg"  [] o = ">=" -> "setge"]

\* Mutant: the remainder is left in rdx.
BinaryOperatorKeepingQuotient(op) ==
  CASE op \in {"/", "%"} ->
         << <<"test", RCX>>, <<"jz", <<"fire_div_zero", 0>> >>, <<"idiv", RCX>> >>
    [] op \in OrderOps \cup EqualOps -> << <<"cmp", RAX, RCX>>, <<SetCondition[op]>> >>
    [] OTHER -> << <<op, RAX, RCX>> >>

\* gen_binary_operator: rax := rax op rcx. The mnemonics of add, sub, imul, and,
\* or, xor, shl and sar are written as the operator they stand for; `cqo` goes
\* with the idiv after it, and `movzx rax, al` with the setcc before it.
BinaryOperator(op) ==
  CASE op \in {"/", "%"} ->
         << <<"test", RCX>>, <<"jz", <<"fire_div_zero", 0>> >>, <<"idiv", RCX>> >>
           \o (IF op = "%" THEN << Move(RAX, RDX) >> ELSE << >>)
    [] op \in OrderOps \cup EqualOps -> << <<"cmp", RAX, RCX>>, <<SetCondition[op]>> >>
    [] OTHER -> << <<op, RAX, RCX>> >>

RECURSIVE GenExpression(_, _), GenExpressions(_, _), GenPrint(_, _, _)

GenExpressions(E, es) == FoldLeft(LAMBDA D, e : GenExpression(D, e), E, es)

GenBinary(E, e) ==
  LET operands == GenExpressions(E, <<e.left, e.right>>)
  IN IF SupportedScalar(e.left.type)
       THEN Lines(operands, <<Pop(RCX), Pop(RAX)>> \o BinaryOperator(e.op) \o <<Push(RAX)>>)
     ELSE Unsupported(E, <<"arithmetic", e.left.type>>)

\* In both cases the left operand, in rax, is the result when the jump is taken.
GenLogical(E, e) ==
  LET done == LabelName(E, "logic", 0)
      left == Lines(GenExpression(Fresh(E, 1), e.left),
                    << Pop(RAX), <<"test", RAX>>, <<IF e.op = "&&" THEN "jz" ELSE "jnz", done>> >>)
  IN Lines(GenExpression(left, e.right), << Pop(RAX), Label(done), Push(RAX) >>)

\* Arguments i onwards, each written as soon as it is evaluated.
GenPrint(E, args, i) ==
  LET arg   == args[i]
      ahead == IF i > 1 THEN Lines(E, << <<"runtime", "fire_print_sp">> >>) ELSE E
      Shown(show) == Lines(GenExpression(ahead, arg), << Pop(RAX), <<"runtime", show>> >>)
  IN IF i > Len(args) THEN E
     ELSE GenPrint(CASE arg.type = StrT /\ arg.kind = "StringLiteral" ->
                          Lines(ahead, << <<"write", arg.str>> >>)
                     [] arg.type = StrT /\ arg.kind # "StringLiteral" ->
                          Unsupported(ahead, <<"computed str">>)
                     [] arg.type = BoolT -> Shown("fire_print_bool")
                     [] OTHER            -> Shown("fire_print_int"),
                   args, i + 1)

GenNative(E, e) ==
  LET args == GenExpressions(E, e.arguments)
      f    == e.callee
      Pick(cmov) == << Pop(RCX), Pop(RAX), <<"cmp", RAX, RCX>>, <<cmov, RAX, RCX>>, Push(RAX) >>
  IN CASE f = "print"   -> Lines(GenPrint(E, e.arguments, 1), << Push(Imm(0)) >>)
       [] f = "println" ->
            Lines(GenPrint(E, e.arguments, 1), << <<"runtime", "fire_print_nl">>, Push(Imm(0)) >>)
       [] f = "exit"    ->
            Lines(args, << Pop(RDI), <<"and 255", RDI>>, <<"exit_group">>, Push(Imm(0)) >>)
       [] f = "abs"     ->
            Lines(args, << Pop(RAX), Move(RCX, RAX), <<"neg", RCX>>, <<"cmovl", RCX, RAX>>, Push(RCX) >>)
       [] f = "min"     -> Lines(args, Pick("cmovg"))
       [] f = "max"     -> Lines(args, Pick("cmovl"))
       [] OTHER         -> Lines(Unsupported(E, <<"builtin", f>>), << Push(Imm(0)) >>)

\* Mutant: the caller leaves the arguments on the stack.
CallKeepingArguments(E, e) ==
  Lines(GenExpressions(E, Reverse(e.arguments)), << <<"call", Mangle(e.index)>>, Push(RAX) >>)

\* Arguments are pushed from the last to the first.
GenUserCall(E, e) ==
  Lines(GenExpressions(E, Reverse(e.arguments)),
        << <<"call", Mangle(e.index)>>, <<"add rsp", Len(e.arguments)>>, Push(RAX) >>)

GenCall(E, e) == IF e.target = "Native" THEN GenNative(E, e) ELSE GenUserCall(E, e)

UnaryLine(op) ==
  CASE op = "-" -> <<"neg", RAX>>
    [] op = "!" -> <<"^", RAX, Imm(1)>>
    [] op = "~" -> <<"not", RAX>>

GenExpression(E, e) ==
  LET Refused(what) == Lines(Unsupported(E, what), << Push(Imm(0)) >>)
  IN CASE e.kind = "IntLiteral"    -> Lines(E, << Move(RAX, Imm(e.int)), Push(RAX) >>)
       [] e.kind = "BoolLiteral"   -> Lines(E, << Push(Imm(IF e.bool THEN 1 ELSE 0)) >>)
       [] e.kind = "FloatLiteral"  -> Refused(<<"float">>)
       [] e.kind = "StringLiteral" -> Refused(<<"str outside print">>)
       [] e.kind = "ArrayLiteral"  -> Refused(<<"arrays">>)
       [] e.kind = "Index"         -> Refused(<<"indexing">>)
       [] e.kind = "Name"          ->
            IF SupportedScalar(e.type)
              THEN Lines(E, << Move(RAX, SlotAddress(e.storage, e.slot)), Push(RAX) >>)
              ELSE Refused(<<"variables", e.type>>)
       [] e.kind = "Unary"         ->
            Lines(GenExpression(E, e.operand), << Pop(RAX), UnaryLine(e.op), Push(RAX) >>)
       [] e.kind = "Binary"        -> GenBinary(E, e)
       [] e.kind = "Logical"       -> GenLogical(E, e)
       [] e.kind = "Call"          -> GenCall(E, e)

---------------------------------------------------------------------------
(* Statements: each leaves the machine stack as it found it.               *)

RECURSIVE GenStatement(_, _), GenBlock(_, _)

GenBlock(E, ss) == FoldLeft(LAMBDA D, s : GenStatement(D, s), E, ss)

\* A value straight into a slot.
Evaluated(E, e, place) == Lines(GenExpression(E, e), << Pop(RAX), Move(place, RAX) >>)

GenAssignment(E, s) ==
  LET place == SlotAddress(s.target.storage, s.target.slot)
      old   == Lines(E, << Move(RAX, place), Push(RAX) >>)
  IN IF s.target.kind # "Name" THEN Unsupported(E, <<"element assignment">>)
     ELSE IF s.compound = "" THEN Evaluated(E, s.value, place)
     ELSE Lines(GenExpression(old, s.value),
                <<Pop(RCX), Pop(RAX)>> \o BinaryOperator(s.compound) \o <<Move(place, RAX)>>)

\* Leave for `target` when the condition is false.
Unless(E, condition, target) ==
  Lines(GenExpression(E, condition), << Pop(RAX), <<"test", RAX>>, <<"jz", target>> >>)

GenIfElse(E, s) ==
  LET otherwise == LabelName(E, "else", 0)
      done      == LabelName(E, "endif", 1)
      test == Unless(Fresh(E, 2), s.condition, IF s.else_branch = <<>> THEN done ELSE otherwise)
      then == GenStatement(test, s.then_branch)
      else == GenStatement(Lines(then, << <<"jmp", done>>, Label(otherwise) >>), s.else_branch[1])
  IN Lines(IF s.else_branch = <<>> THEN then ELSE else, << Label(done) >>)

\* The body of a loop whose `continue` and `break` lead to these labels.
LoopBody(E, body, continue_label, break_label) ==
  LET inside == [E EXCEPT !.loops = Append(@, [continue |-> continue_label, break |-> break_label])]
  IN [GenStatement(inside, body) EXCEPT !.loops = E.loops]

GenWhileLoop(E, s) ==
  LET top  == LabelName(E, "while", 0)
      done == LabelName(E, "endwhile", 1)
      test == Unless(Lines(Fresh(E, 2), << Label(top) >>), s.condition, done)
  IN Lines(LoopBody(test, s.body, top, done), << <<"jmp", top>>, Label(done) >>)

\* Mutant: `continue` leads past the increment.
ForRangeRestarting(E, s) ==
  LET top     == LabelName(E, "for", 0)
      next    == LabelName(E, "fornext", 1)
      done    == LabelName(E, "endfor", 2)
      counter == SlotAddress("Local", s.slot)
      limit   == SlotAddress("Local", s.limit_slot)
      bounds  == Evaluated(Evaluated(Fresh(E, 3), s.start, counter), s.end, limit)
      test    == Lines(bounds, << Label(top), Move(RAX, counter), <<"cmp", RAX, limit>>,
                                  <<"jge", done>> >>)
  IN Lines(LoopBody(test, s.body, top, done),
           << Label(next), Move(RAX, counter), <<"inc", RAX>>, Move(counter, RAX),
              <<"jmp", top>>, Label(done) >>)

GenForLoop(E, s) ==
  LET top     == LabelName(E, "for", 0)
      next    == LabelName(E, "fornext", 1)
      done    == LabelName(E, "endfor", 2)
      counter == SlotAddress("Local", s.slot)
      limit   == SlotAddress("Local", s.limit_slot)
      bounds  == Evaluated(Evaluated(Fresh(E, 3), s.start, counter), s.end, limit)
      test    == Lines(bounds, << Label(top), Move(RAX, counter), <<"cmp", RAX, limit>>,
                                  <<"jge", done>> >>)
  IN Lines(LoopBody(test, s.body, next, done),
           << Label(next), Move(RAX, counter), <<"inc", RAX>>, Move(counter, RAX),
              <<"jmp", top>>, Label(done) >>)

GenStatement(E, s) ==
  LET Goto(field) == IF E.loops = <<>> THEN E ELSE Lines(E, << <<"jmp", Last(E.loops)[field]>> >>)
  IN CASE s.kind = "VarDecl"  -> Evaluated(E, s.init, SlotAddress(s.storage, s.slot))
       [] s.kind = "ExprStmt" -> Lines(GenExpression(E, s.expr), << <<"add rsp", 1>> >>)
       [] s.kind = "Assign"   -> GenAssignment(E, s)
       [] s.kind = "Block"    -> GenBlock(E, s.statements)
       [] s.kind = "If"       -> GenIfElse(E, s)
       [] s.kind = "While"    -> GenWhileLoop(E, s)
       [] s.kind = "ForRange" -> GenForLoop(E, s)
       [] s.kind = "ForIn"    -> Unsupported(E, <<"for in">>)
       [] s.kind = "Break"    -> Goto("break")
       [] s.kind = "Continue" -> Goto("continue")
       [] s.kind = "Return"   ->
            IF s.result = <<>> THEN Lines(E, << <<"zero", RAX>>, <<"leave">>, <<"ret">> >>)
            ELSE Lines(GenExpression(E, s.result[1]), << Pop(RAX), <<"leave">>, <<"ret">> >>)

---------------------------------------------------------------------------
(* Functions and programs.                                                 *)

\* The words of a frame: the locals, rounded up to an even number of words.
FrameWords(local_count) == 2 * ((local_count + 1) \div 2)

Prologue(name, local_count) ==
  << Label(name), Push(Reg("rbp")), <<"mov rbp, rsp">>, <<"sub rsp", FrameWords(local_count)>> >>

\* Incoming arguments are copied into the slots of the parameters.
GenFunctionBody(E, f, index) ==
  LET named   == {f.params[i].type : i \in 1 .. Len(f.params)} \ {IntT, BoolT, ErrorT}
      checked == UnsupportedIf(f.return_type # VoidT /\ ~SupportedScalar(f.return_type),
                   [E EXCEPT !.reported = @ \cup {<<"parameters", t>> : t \in named}],
                   <<"returning", f.return_type>>)
      copies  == FlattenSeq([i \in 1 .. Len(f.params) |->
                   << Move(RAX, Arg(i - 1)), Move(SlotAddress("Local", i - 1), RAX) >>])
      entered == Lines(checked, Prologue(Mangle(index), f.local_count) \o copies)
  IN Lines(GenBlock(entered, f.body.statements),
           << <<"zero", RAX>>, <<"leave">>, <<"ret">> >>)

\* emit: the script becomes _start, and the functions follow it. Of the runtime
\* that goes ahead of them, only fire_div_zero is jumped to.
EmitNative(analysed) ==
  LET runtime == << Label(<<"fire_div_zero", 0>>), <<"fire_abort">> >>
      begun  == Lines(NewEmitter, runtime \o Prologue(<<"_start", 0>>, analysed.script_local_count))
      start  == GenBlock(begun, analysed.top_level)
      ended  == Lines(start, << <<"zero", RDI>>, <<"exit_group">> >>)
      fs     == analysed.functions
      RECURSIVE Functions(_, _)
      Functions(E, i) == IF i > Len(fs) THEN E
                         ELSE Functions(GenFunctionBody(E, fs[i], i - 1), i + 1)
  IN Functions(ended, 1)

\* build_native writes no executable when anything was reported.
Buildable(E) == E.reported = {}
=============================================================================
