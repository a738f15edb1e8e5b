----------------------------- MODULE FireSema -----------------------------
(***************************************************************************)
(* Semantic analysis: name resolution, storage assignment, type checking   *)
(* and the divergence analysis, as Analyzer::analyze performs them on a    *)
(* whole program.                                                          *)
(*                                                                         *)
(* The analyzer is a record A that the operators thread through the tree:  *)
(* its scopes, the context of the function being analysed, the function    *)
(* table, and what it reported: the codes of errors, and the statements    *)
(* warned as unreachable. Wording, suggestions and the unused-variable     *)
(* warnings are left out; nothing else depends on them. An analysed node   *)
(* comes back with the fields the code fills in.                           *)
(***************************************************************************)
EXTENDS FireSyntax, FireNatives, SequencesExt

---------------------------------------------------------------------------
(* The analyzer's state.                                                   *)

Report(A, code) == [A EXCEPT !.errors = Append(@, code)]
ReportIf(bad, A, code) == IF bad THEN Report(A, code) ELSE A

EmptyScope(saved) == [variables |-> <<>>, saved_next_slot |-> saved]

PushScope(A) == [A EXCEPT !.scopes = Append(@, EmptyScope(A.next_slot))]

\* Leaving a scope gives its slots back; the high-water mark stays.
PopScope(A) ==
  [A EXCEPT !.scopes = Front(@), !.next_slot = Last(A.scopes).saved_next_slot]

HiddenSlot(A) ==
  [A EXCEPT !.next_slot = @ + 1,
            !.high_water = IF @ > A.next_slot THEN @ ELSE A.next_slot + 1]

Variable(x, t, const, storage, slot) ==
  [name |-> x, type |-> t, is_const |-> const, storage |-> storage, slot |-> slot]

\* A name declared twice in a scope is an error, and is declared all the same.
DeclareVar(A, x, t, const) ==
  LET scope  == Last(A.scopes)
      twice  == \E i \in 1 .. Len(scope.variables) : scope.variables[i].name = x
      global == Len(A.scopes) = 1
      added  == Append(scope.variables,
                  Variable(x, t, const, IF global THEN "Global" ELSE "Local",
                           IF global THEN A.global_count ELSE A.next_slot))
      B == [ReportIf(twice, A, "E0202") EXCEPT
              !.scopes = Append(Front(@), [scope EXCEPT !.variables = added])]
  IN IF global THEN [B EXCEPT !.global_count = @ + 1] ELSE HiddenSlot(B)

\* The innermost, latest declaration of x, as a sequence of length 0 or 1.
Lookup(A, x) ==
  LET visible == FlattenSeq([i \in 1 .. Len(A.scopes) |-> A.scopes[i].variables])
      found   == SelectSeq(visible, LAMBDA v : v.name = x)
  IN IF found = <<>> THEN <<>> ELSE << Last(found) >>

\* Mutant: a declaration is given the slot of its scope's first variable.
OldestOfScope(A) == Head(Last(A.scopes).variables)

\* The variable the last DeclareVar added.
Newest(A) == Last(Last(A.scopes).variables)

\* expect_type: E0203 unless the types agree or one of them is poison.
ExpectType(A, expected, actual) ==
  ReportIf(expected # NoType /\ ErrorT \notin {expected, actual} /\ expected # actual,
           A, "E0203")

RequireBool(A, t) == ReportIf(t \notin {ErrorT, BoolT}, A, "E0223")

---------------------------------------------------------------------------
(* Signatures of the builtins: the errors of a call, and its type.         *)

IsNative(name)     == NativeArity(name) # {}
NeverReturns(name) == name \in {"exit", "panic"}

\* The number of errors the checker of builtin `name` reports, and the type it
\* gives the call, for arguments of the types t. Poisoned arguments are let by.
CheckNative(name, t) ==
  LET Bad(i, good) == IF t[i] # ErrorT /\ t[i] \notin good THEN 1 ELSE 0
      Sequence == IsArray(t[1]) \/ t[1] \in {StrT, ErrorT}
      OnArray(errors, result) ==
        CASE t[1] = ErrorT    -> <<0, IF result = VoidT THEN VoidT ELSE ErrorT>>
          [] IsArray(t[1])    -> <<errors, result>>
          [] OTHER            -> <<1, ErrorT>>
      Element == IF IsArray(t[1]) THEN ElementOf(t[1]) ELSE ErrorT
  IN CASE name \in {"print", "println"} ->
            <<Len(SelectSeq(t, LAMBDA u : u = VoidT)), VoidT>>
       [] name = "len"    -> IF Sequence THEN <<0, IntT>> ELSE <<1, ErrorT>>
       [] name = "push"   -> OnArray(Bad(2, {Element}), VoidT)
       [] name = "pop"    -> OnArray(0, Element)
       [] name = "insert" -> OnArray(Bad(2, {IntT}) + Bad(3, {Element}), VoidT)
       [] name = "remove" -> OnArray(Bad(2, {IntT}), Element)
       [] name = "slice"  ->
            LET bad == Bad(2, {IntT}) + Bad(3, {IntT})
            IN IF Sequence THEN <<bad, t[1]>> ELSE <<bad + 1, ErrorT>>
       [] name = "abs"    ->
            IF t[1] = ErrorT \/ IsNumeric(t[1]) THEN <<0, t[1]>> ELSE <<1, ErrorT>>
       [] name \in {"min", "max"} ->
            IF ErrorT \in {t[1], t[2]} THEN <<0, ErrorT>>
            ELSE IF IsNumeric(t[1]) /\ t[1] = t[2] THEN <<0, t[1]>> ELSE <<1, ErrorT>>
       [] name = "exit"   -> <<Bad(1, {IntT}), VoidT>>
       [] name = "panic"  -> <<Bad(1, {StrT}), VoidT>>
       [] name = "assert" ->
            <<Bad(1, {BoolT}) + (IF Len(t) = 2 THEN Bad(2, {StrT}) ELSE 0), VoidT>>

\* E0304 stands for every error a builtin's checker reports, E0301 to E0304.
ReportTimes(A, n, code) == [A EXCEPT !.errors = @ \o [i \in 1 .. n |-> code]]

---------------------------------------------------------------------------
(* Expressions. Typed(A, e, t) is an analysed expression.                  *)

Typed(A, e, t) == [A |-> A, e |-> e @@ [type |-> t], type |-> t]

\* The type of l op r, or ErrorT after a report.
BinaryType(op, l, r) ==
  IF ErrorT \in {l, r} \/ (l # r) THEN ErrorT
  ELSE CASE op \in BitwiseOps -> IF l = IntT THEN IntT ELSE ErrorT
         [] op \in EqualOps   -> IF l # VoidT THEN BoolT ELSE ErrorT
         [] op \in OrderOps   -> IF IsOrdered(l) THEN BoolT ELSE ErrorT
         [] OTHER             -> IF IsNumeric(l) \/ (op = "+" /\ l = StrT) THEN l ELSE ErrorT

\* Mutant: negation of anything is let by.
UnaryTypeUnchecked(op, t) == IF op = "-" \/ t \in {BoolT, IntT} THEN t ELSE ErrorT

UnaryType(op, t) ==
  CASE op = "-" /\ IsNumeric(t) -> t
    [] op = "!" /\ t = BoolT    -> t
    [] op = "~" /\ t = IntT     -> t
    [] OTHER                    -> ErrorT

RECURSIVE AnalyzeExpr(_, _, _), AnalyzeArgs(_, _, _), AnalyzeElements(_, _, _)

\* The arguments from left to right, each with its hint: [A, es].
AnalyzeArgs(A, es, hints) ==
  IF es = <<>> THEN [A |-> A, es |-> <<>>]
  ELSE LET first == AnalyzeExpr(A, Head(es), IF hints = <<>> THEN NoType ELSE Head(hints))
           rest  == AnalyzeArgs(first.A, Tail(es), IF hints = <<>> THEN <<>> ELSE Tail(hints))
       IN [es |-> <<first.e>> \o rest.es, A |-> rest.A]

\* Elements after the first, up to one of another type: [A, es, ok].
AnalyzeElements(A, es, element) ==
  IF es = <<>> THEN [A |-> A, es |-> <<>>, ok |-> TRUE]
  ELSE LET first == AnalyzeExpr(A, Head(es), element)
       IN IF ErrorT \notin {first.type, element} /\ first.type # element
            THEN [A |-> Report(first.A, "E0216"), es |-> <<first.e>> \o Tail(es), ok |-> FALSE]
            ELSE LET rest == AnalyzeElements(first.A, Tail(es), element)
                 IN [rest EXCEPT !.es = <<first.e>> \o @]

\* An array of void values has the poison type although nothing was reported.
AnalyzeArray(A, e, expected) ==
  LET hint == IF IsArray(expected) THEN ElementOf(expected) ELSE NoType
  IN IF e.elements = <<>>
       THEN IF hint = NoType THEN Typed(Report(A, "E0215"), e, ErrorT)
            ELSE Typed(A, e, ArrayT(hint))
       ELSE LET first == AnalyzeExpr(A, Head(e.elements), hint)
                rest  == AnalyzeElements(first.A, Tail(e.elements), first.type)
                node  == [e EXCEPT !.elements = <<first.e>> \o rest.es]
            IN Typed(rest.A, node,
                     IF ~rest.ok \/ first.type \in {VoidT, ErrorT} THEN ErrorT
                     ELSE ArrayT(first.type))

AnalyzeName(A, e) ==
  LET found == Lookup(A, e.name)
  IN IF found = <<>> THEN Typed(Report(A, "E0217"), e, ErrorT)
     ELSE Typed(A, e @@ [storage |-> found[1].storage, slot |-> found[1].slot],
                found[1].type)

AnalyzeCall(A, e) ==
  LET user  == e.callee \in DOMAIN A.table
      decl  == A.table[e.callee]
      hints == IF user THEN [i \in 1 .. Len(decl.params) |-> decl.params[i].type] ELSE <<>>
      args  == AnalyzeArgs(A, e.arguments, hints)
      types == [i \in 1 .. Len(args.es) |-> args.es[i].type]
      node  == [e EXCEPT !.arguments = args.es]
      native == CheckNative(e.callee, types)
      mismatches == {i \in 1 .. Len(types) : i <= Len(hints) /\ ErrorT \notin {hints[i], types[i]}
                                               /\ hints[i] # types[i]}
  IN CASE user ->
            Typed(IF Len(types) # Len(hints) THEN Report(args.A, "E0219")
                  ELSE ReportTimes(args.A, Cardinality(mismatches), "E0203"),
                  node @@ [target |-> "UserFunction", index |-> decl.index],
                  decl.return_type)
       [] ~user /\ IsNative(e.callee) ->
            IF Len(types) \notin NativeArity(e.callee)
              THEN Typed(Report(args.A, "E0220"), node @@ [target |-> "Native"], ErrorT)
              ELSE Typed(ReportTimes(args.A, native[1], "E0304"),
                         node @@ [target |-> "Native"], native[2])
       [] OTHER -> Typed(Report(args.A, "E0221"), node, ErrorT)

AnalyzeExpr(A, e, expected) ==
  CASE e.kind = "IntLiteral"    -> Typed(A, e, IntT)
    [] e.kind = "FloatLiteral"  -> Typed(A, e, FloatT)
    [] e.kind = "StringLiteral" -> Typed(A, e, StrT)
    [] e.kind = "BoolLiteral"   -> Typed(A, e, BoolT)
    [] e.kind = "ArrayLiteral"  -> AnalyzeArray(A, e, expected)
    [] e.kind = "Name"          -> AnalyzeName(A, e)
    [] e.kind = "Call"          -> AnalyzeCall(A, e)
    [] e.kind = "Unary" ->
         LET x == AnalyzeExpr(A, e.operand, NoType)
             t == UnaryType(e.op, x.type)
         IN Typed(ReportIf(t = ErrorT /\ x.type # ErrorT, x.A, "E0218"),
                  [e EXCEPT !.operand = x.e], t)
    [] e.kind = "Binary" ->
         LET l == AnalyzeExpr(A, e.left, NoType)
             r == AnalyzeExpr(l.A, e.right, l.type)
             t == BinaryType(e.op, l.type, r.type)
         IN Typed(ReportIf(t = ErrorT /\ ErrorT \notin {l.type, r.type}, r.A, "E0201"),
                  [e EXCEPT !.left = l.e, !.right = r.e], t)
    [] e.kind = "Logical" ->
         LET l == AnalyzeExpr(A, e.left, NoType)
             r == AnalyzeExpr(l.A, e.right, NoType)
         IN Typed(RequireBool(RequireBool(r.A, l.type), r.type),
                  [e EXCEPT !.left = l.e, !.right = r.e], BoolT)
    [] e.kind = "Index" ->
         LET x == AnalyzeExpr(A, e.target, NoType)
             i == AnalyzeExpr(x.A, e.position, IntT)
             B == ExpectType(i.A, IntT, i.type)
             node == [e EXCEPT !.target = x.e, !.position = i.e]
         IN CASE IsArray(x.type) -> Typed(B, node, ElementOf(x.type))
              [] x.type \in {StrT, ErrorT} -> Typed(B, node, x.type)
              [] OTHER -> Typed(Report(B, "E0222"), node, ErrorT)

---------------------------------------------------------------------------
(* Divergence.                                                             *)

\* Mutant: a break under an `if` is overlooked.
ContainsPlainBreak(s) ==
  \/ s.kind = "Break"
  \/ s.kind = "Block" /\ \E i \in 1 .. Len(s.statements) : s.statements[i].kind = "Break"

\* A break below this statement that leaves the loop around it.
RECURSIVE ContainsBreak(_)
ContainsBreak(s) ==
  CASE s.kind = "Break" -> TRUE
    [] s.kind = "Block" -> \E i \in 1 .. Len(s.statements) : ContainsBreak(s.statements[i])
    [] s.kind = "If"    -> \/ ContainsBreak(s.then_branch)
                           \/ \E i \in 1 .. Len(s.else_branch) : ContainsBreak(s.else_branch[i])
    [] OTHER            -> FALSE

IsTruthyLiteral(e) == e.kind = "BoolLiteral" /\ e.bool

\* Mutant: every builtin is taken for one that never returns.
IsNativeCall(e) == e.kind = "Call" /\ "target" \in DOMAIN e /\ e.target = "Native"

\* A call resolved to a builtin that never returns.
IsDivergingCall(e) ==
  e.kind = "Call" /\ "target" \in DOMAIN e /\ e.target = "Native" /\ NeverReturns(e.callee)

RECURSIVE AlwaysDiverges(_)
AlwaysDiverges(s) ==
  CASE s.kind = "Return"   -> TRUE
    [] s.kind = "ExprStmt" -> IsDivergingCall(s.expr)
    [] s.kind = "Block"    -> \E i \in 1 .. Len(s.statements) : AlwaysDiverges(s.statements[i])
    [] s.kind = "If"       -> /\ s.else_branch # <<>>
                              /\ AlwaysDiverges(s.then_branch)
                              /\ AlwaysDiverges(s.else_branch[1])
    [] s.kind = "While"    -> IsTruthyLiteral(s.condition) /\ ~ContainsBreak(s.body)
    [] OTHER               -> FALSE

\* One warning a block: the statement after the first that diverges.
WarnUnreachable(A, ss, at) ==
  LET diverging == {i \in 1 .. Len(ss) - 1 : AlwaysDiverges(ss[i])}
  IN IF diverging = {} THEN A
     ELSE [A EXCEPT !.unreachable = @ \cup {Append(at, Min(diverging) + 1)}]

---------------------------------------------------------------------------
(* Statements. `at` stands for the span of a statement: its path from the  *)
(* function's body. Analysed(A, s, at) is an analysed statement.           *)

Analysed(A, s, at) == [A |-> A, s |-> s @@ [at |-> at]]

RECURSIVE AnalyzeStmt(_, _, _), AnalyzeStmts(_, _, _, _)

\* The statements from i on, in order: [A, ss].
AnalyzeStmts(A, ss, at, i) ==
  IF i > Len(ss) THEN [A |-> A, ss |-> <<>>]
  ELSE LET first == AnalyzeStmt(A, ss[i], Append(at, i))
           rest  == AnalyzeStmts(first.A, ss, at, i + 1)
       IN [ss |-> <<first.s>> \o rest.ss, A |-> rest.A]

\* analyze_block without a scope of its own.
AnalyzeBody(A, ss, at) ==
  LET done == AnalyzeStmts(A, ss, at, 1)
  IN [done EXCEPT !.A = WarnUnreachable(done.A, done.ss, at)]

AnalyzeBlock(A, s, at) ==
  LET done == AnalyzeBody(PushScope(A), s.statements, at)
  IN Analysed(PopScope(done.A), [s EXCEPT !.statements = done.ss], at)

AnalyzeVarDecl(A, s, at) ==
  LET init  == AnalyzeExpr(A, s.init, s.annotation)
      given == s.annotation # NoType
      void  == ~given /\ init.type = VoidT
      B == IF given THEN ExpectType(init.A, s.annotation, init.type)
           ELSE ReportIf(void, init.A, "E0208")
      C == DeclareVar(B, s.name, IF given THEN s.annotation
                                 ELSE IF void THEN ErrorT ELSE init.type, s.is_const)
  IN Analysed(C, [s EXCEPT !.init = init.e]
                   @@ [storage |-> Newest(C).storage, slot |-> Newest(C).slot], at)

AnalyzeAssign(A, s, at) ==
  LET target == AnalyzeExpr(A, s.target, NoType)
      found  == IF s.target.kind = "Name" THEN Lookup(A, s.target.name) ELSE <<>>
      B      == ReportIf(found # <<>> /\ found[1].is_const, target.A, "E0209")
      value  == AnalyzeExpr(B, s.value, target.type)
      t      == target.type
      poison == ErrorT \in {t, value.type}
      allowed == t = value.type /\ (IsNumeric(t) \/ (s.compound = "+" /\ t = StrT))
      C == IF s.compound = "" THEN ExpectType(value.A, t, value.type)
           ELSE ReportIf(~poison /\ ~allowed, value.A, "E0210")
  IN Analysed(C, [s EXCEPT !.target = target.e, !.value = value.e], at)

AnalyzeIf(A, s, at) ==
  LET c == AnalyzeExpr(A, s.condition, NoType)
      t == AnalyzeStmt(RequireBool(c.A, c.type), s.then_branch, Append(at, 1))
      e == IF s.else_branch = <<>> THEN [A |-> t.A]
           ELSE AnalyzeStmt(t.A, s.else_branch[1], Append(at, 2))
  IN Analysed(e.A, [s EXCEPT !.condition = c.e, !.then_branch = t.s,
                             !.else_branch = IF @ = <<>> THEN <<>> ELSE <<e.s>>], at)

\* The body of a loop, one level deeper: break and continue are allowed in it.
AnalyzeLoopBody(A, s, at) ==
  LET b == AnalyzeStmt([A EXCEPT !.loop_depth = @ + 1], s.body, Append(at, 1))
  IN [b EXCEPT !.A.loop_depth = @ - 1]

AnalyzeWhile(A, s, at) ==
  LET c == AnalyzeExpr(A, s.condition, NoType)
      b == AnalyzeLoopBody(RequireBool(c.A, c.type), s, at)
  IN Analysed(b.A, [s EXCEPT !.condition = c.e, !.body = b.s], at)

AnalyzeForRange(A, s, at) ==
  LET a == AnalyzeExpr(A, s.start, IntT)
      z == AnalyzeExpr(a.A, s.end, IntT)
      B == PushScope(ExpectType(ExpectType(z.A, IntT, a.type), IntT, z.type))
      C == DeclareVar(HiddenSlot(B), s.name, IntT, FALSE)
      b == AnalyzeLoopBody(C, s, at)
  IN Analysed(PopScope(b.A),
       [s EXCEPT !.start = a.e, !.end = z.e, !.body = b.s]
         @@ [limit_slot |-> B.next_slot, slot |-> Newest(C).slot], at)

AnalyzeForIn(A, s, at) ==
  LET x == AnalyzeExpr(A, s.iterable, NoType)
      element == CASE IsArray(x.type) -> ElementOf(x.type)
                   [] x.type = StrT   -> StrT
                   [] OTHER           -> ErrorT
      B == PushScope(ReportIf(element = ErrorT /\ x.type # ErrorT, x.A, "E0211"))
      C == DeclareVar(HiddenSlot(HiddenSlot(B)), s.name, element, FALSE)
      b == AnalyzeLoopBody(C, s, at)
  IN Analysed(PopScope(b.A),
       [s EXCEPT !.iterable = x.e, !.body = b.s]
         @@ [seq_slot |-> B.next_slot, index_slot |-> B.next_slot + 1,
             slot |-> Newest(C).slot], at)

AnalyzeReturn(A, s, at) ==
  LET value == IF s.result = <<>> THEN [A |-> A, type |-> NoType]
               ELSE AnalyzeExpr(IF A.in_function THEN A ELSE Report(A, "E0212"), s.result[1],
                                IF A.in_function THEN A.return_type ELSE NoType)
      node  == IF s.result = <<>> THEN s ELSE [s EXCEPT !.result = <<value.e>>]
      void  == A.return_type = VoidT
  IN Analysed(IF s.result = <<>>
                THEN IF A.in_function THEN ReportIf(~void, A, "E0213") ELSE Report(A, "E0212")
                ELSE CASE ~A.in_function         -> value.A
                       [] A.in_function /\ void  -> Report(value.A, "E0214")
                       [] A.in_function /\ ~void -> ExpectType(value.A, A.return_type, value.type),
              node, at)

AnalyzeStmt(A, s, at) ==
  CASE s.kind = "VarDecl"  -> AnalyzeVarDecl(A, s, at)
    [] s.kind = "ExprStmt" ->
         LET x == AnalyzeExpr(A, s.expr, NoType) IN Analysed(x.A, [s EXCEPT !.expr = x.e], at)
    [] s.kind = "Assign"   -> AnalyzeAssign(A, s, at)
    [] s.kind = "Block"    -> AnalyzeBlock(A, s, at)
    [] s.kind = "If"       -> AnalyzeIf(A, s, at)
    [] s.kind = "While"    -> AnalyzeWhile(A, s, at)
    [] s.kind = "ForRange" -> AnalyzeForRange(A, s, at)
    [] s.kind = "ForIn"    -> AnalyzeForIn(A, s, at)
    [] s.kind = "Return"   -> AnalyzeReturn(A, s, at)
    [] s.kind \in {"Break", "Continue"} ->
         Analysed(ReportIf(A.loop_depth = 0, A, "E0207"), s, at)

---------------------------------------------------------------------------
(* Functions and programs.                                                 *)

\* A fresh FunctionContext.
Context(A, in_function, return_type) ==
  [A EXCEPT !.in_function = in_function, !.return_type = return_type,
            !.next_slot = 0, !.high_water = 0, !.loop_depth = 0]

RECURSIVE DeclareParams(_, _)
DeclareParams(A, params) ==
  IF params = <<>> THEN A
  ELSE DeclareParams(DeclareVar(A, Head(params).name, Head(params).type, FALSE), Tail(params))

\* The body shares the scope of the parameters.
AnalyzeFunction(A, f, at) ==
  LET entered == DeclareParams(PushScope(Context(A, TRUE, f.return_type)), f.params)
      body    == AnalyzeBody(entered, f.body.statements, at)
      block   == [f.body EXCEPT !.statements = body.ss]
      falls   == f.return_type # VoidT /\ ~AlwaysDiverges(block)
  IN [A |-> ReportIf(falls, PopScope(body.A), "E0206"),
      f |-> [f EXCEPT !.body = block] @@ [local_count |-> body.A.high_water, at |-> at]]

RECURSIVE AnalyzeFunctions(_, _, _)
AnalyzeFunctions(A, fs, i) ==
  IF i > Len(fs) THEN [A |-> A, fs |-> <<>>]
  ELSE LET first == AnalyzeFunction(A, fs[i], <<i>>)
           rest  == AnalyzeFunctions(first.A, fs, i + 1)
       IN [fs |-> <<first.f>> \o rest.fs, A |-> rest.A]

\* The first declaration of each name that is not a builtin's.
FunctionTable(fs) ==
  LET firsts == {i \in 1 .. Len(fs) : /\ ~IsNative(fs[i].name)
                                      /\ \A j \in 1 .. i - 1 : fs[j].name # fs[i].name}
  IN [x \in {fs[i].name : i \in firsts} |->
        LET i == CHOOSE j \in firsts : fs[j].name = x
        IN [index |-> i - 1, params |-> fs[i].params, return_type |-> fs[i].return_type]]

NewAnalyzer ==
  [scopes |-> <<EmptyScope(0)>>, next_slot |-> 0, high_water |-> 0, loop_depth |-> 0,
   in_function |-> FALSE, return_type |-> VoidT, table |-> << >>, global_count |-> 0,
   errors |-> <<>>, unreachable |-> {}]

\* analyze: every function's name first, then the script, then the bodies,
\* which therefore see every global, however late it is declared.
Analyze(program) ==
  LET fs    == program.functions
      table == FunctionTable(fs)
      taken == {i \in 1 .. Len(fs) : IsNative(fs[i].name)}
      twice == {i \in 1 .. Len(fs) \ taken : table[fs[i].name].index # i - 1}
      A0    == ReportTimes(ReportTimes([NewAnalyzer EXCEPT !.table = table],
                           Cardinality(taken), "E0204"), Cardinality(twice), "E0205")
      top   == AnalyzeBody(Context(A0, FALSE, VoidT), program.top_level, <<0>>)
      rest  == AnalyzeFunctions(top.A, fs, 1)
  IN [top_level |-> top.ss, functions |-> rest.fs,
      script_local_count |-> top.A.high_water, global_count |-> rest.A.global_count,
      errors |-> rest.A.errors, unreachable |-> rest.A.unreachable]

Accepted(analysed) == analysed.errors = <<>>
=============================================================================
