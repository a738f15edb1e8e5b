----------------------------- MODULE FireRepl -----------------------------
(***************************************************************************)
(* An interactive session: Session::evaluate, the loop of run_repl around  *)
(* it, and what of the analyzer, the module and the machine outlives a     *)
(* line (Analyzer::analyze_fragment, VM::adopt_globals).                   *)
(*                                                                         *)
(* A line is reduced to what touches the session: the functions it         *)
(* declares, and statements that declare, read or call something, end the  *)
(* run, or do not compile. A declaration is identified by the number of    *)
(* its line and its name; a global holds the declaration it was written as.*)
(* Globals are of type str, so that the int which fills a new one has the  *)
(* wrong tag for whoever reads it.                                         *)
(***************************************************************************)
EXTENDS Naturals, SequencesExt

CONSTANTS
  Lines,      \* what a user may type: records [functions, statements]
  MaxLines    \* bounds the length of a session for the model checker

StatementKinds == {"let", "read", "store", "call", "wrong", "exit0", "exit3", "fail"}

ASSUME LinesAssumption ==
  /\ MaxLines \in Nat
  /\ \A line \in Lines :
       /\ line.functions \in Seq(STRING)
       /\ line.statements \in Seq([kind : StatementKinds, name : STRING])

VARIABLES
  scope,          \* the global scope: its variables [id, slot], in order
  table,          \* the function table: name -> [id, index]
  global_count,
  functions,      \* the compiled functions
  globals,        \* the values of the globals
  history,        \* the lines whose trees are kept alive
  fragment,       \* the number of the latest line
  status,         \* "open", "left" or "crashed"
  exit_status,
  ends            \* how each line ended

analyzer == <<scope, table, global_count>>
module   == <<functions, globals, history>>
vars     == <<analyzer, module, fragment, status, exit_status, ends>>

Unset == <<0, "zero">>   \* no declaration: what fills a new global

Init ==
  /\ scope = <<>> /\ table = << >> /\ global_count = 0
  /\ functions = <<>> /\ globals = <<>> /\ history = {}
  /\ fragment = 0 /\ status = "open" /\ exit_status = 0 /\ ends = <<>>

---------------------------------------------------------------------------
(* Analysis of line n: A = [scope, table, count, ok]. Whatever it reports, *)
(* it has declared what the line declares.                                 *)

\* Mutant: the indices of every line start at zero.
FirstOfLine == 0

\* Function indices are global across the session.
FirstIndex == Len(functions)

\* emplace: the first definition of a name stays, another is an error.
Declare(n, fs) ==
  LET first(f) == Min({i \in DOMAIN fs : fs[i] = f})
  IN [f \in DOMAIN table \cup ToSet(fs) |->
        IF f \in DOMAIN table THEN table[f]
        ELSE [id |-> <<n, f>>, index |-> FirstIndex + first(f) - 1]]

AllNew(fs) == IsInjective(fs) /\ ToSet(fs) \cap DOMAIN table = {}

Named(A, x) == {i \in 1 .. Len(A.scope) : A.scope[i].id[2] = x}

\* Mutant: a name that is declared again gets its old slot.
SlotAgain(A, x) == IF Named(A, x) = {} THEN A.count ELSE A.scope[Max(Named(A, x))].slot

NewSlot(A, x) == A.count

\* A name declared twice is an error, and is declared all the same.
AnalyzeStatement(A, n, s) ==
  CASE s.kind = "let"   ->
         [A EXCEPT !.scope = Append(@, [id |-> <<n, s.name>>, slot |-> NewSlot(A, s.name)]),
                   !.count = @ + 1,
                   !.ok = @ /\ Named(A, s.name) = {}]
    [] s.kind \in {"read", "store"} -> [A EXCEPT !.ok = @ /\ Named(A, s.name) # {}]
    [] s.kind = "call"  -> [A EXCEPT !.ok = @ /\ s.name \in DOMAIN A.table]
    [] s.kind = "wrong" -> [A EXCEPT !.ok = FALSE]
    [] OTHER            -> A

\* analyze_fragment: every function first, then the statements in order. What
\* the analyzer has after each.
Analysis(n, line) ==
  LET A[i \in 0 .. Len(line.statements)] ==
        IF i = 0
        THEN [scope |-> scope, table |-> Declare(n, line.functions), count |-> global_count,
              ok |-> AllNew(line.functions)]
        ELSE AnalyzeStatement(A[i - 1], n, line.statements[i])
  IN A

AnalyzeFragment(n, line) == Analysis(n, line)[Len(line.statements)]

Called(line)   == {s.name : s \in {t \in ToSet(line.statements) : t.kind = "call"}}
Declared(line) == ToSet(line.functions)

\* The analysis looks at a function whose tree was freed with a rejected line.
Dangles(line) ==
  \E f \in DOMAIN table \cap (Called(line) \cup Declared(line)) : table[f].id[1] \notin history

---------------------------------------------------------------------------
(* The run of an accepted line: R = [globals, end].                        *)

\* Mutant: the machine of each line starts with fresh globals.
AdoptNothing(count) == [i \in 1 .. count |-> Unset]

\* The values that the last line left, and zeros for what this one declares.
AdoptGlobals(count) == [i \in 1 .. count |-> IF i <= Len(globals) THEN globals[i] ELSE Unset]

RunStatement(R, A, s) ==
  LET variable == A.scope[Max(Named(A, s.name))]   \* the latest declaration
      slot     == variable.slot + 1
  IN CASE R.end # "halted" -> R
       [] R.end = "halted" /\ s.kind \in {"let", "store"} -> [R EXCEPT !.globals[slot] = variable.id]
       [] R.end = "halted" /\ s.kind = "read" ->
            [R EXCEPT !.end = IF R.globals[slot] = Unset THEN "internal" ELSE @]
       [] R.end = "halted" /\ s.kind \in {"exit0", "exit3", "fail"} -> [R EXCEPT !.end = s.kind]
       [] OTHER -> R

\* What the machine has after each statement.
Execution(A, line) ==
  LET R[i \in 0 .. Len(line.statements)] ==
        IF i = 0 THEN [globals |-> AdoptGlobals(A.count), end |-> "halted"]
        ELSE RunStatement(R[i - 1], A, line.statements[i])
  IN R

Run(A, line) == Execution(A, line)[Len(line.statements)]

ExitStatus(end) ==
  CASE end \in {"halted", "exit0"}  -> 0
    [] end = "exit3"                -> 3
    [] end \in {"fail", "internal"} -> 70

---------------------------------------------------------------------------
(* One action for each way a line can go.                                  *)

Typed(line) ==
  /\ status = "open" /\ fragment < MaxLines
  /\ fragment' = fragment + 1

\* Nothing is taken back when a line is rejected.
KeepAnalysis(A) == scope' = A.scope /\ table' = A.table /\ global_count' = A.count

\* The line does not compile: it is reported and its tree is freed. A dangling
\* function can also make a good line fail.
Reject(line) ==
  LET A == AnalyzeFragment(fragment + 1, line)
  IN /\ Typed(line)
     /\ ~A.ok \/ Dangles(line)
     /\ KeepAnalysis(A)
     /\ ends' = Append(ends, "rejected")
     /\ UNCHANGED <<module, status, exit_status>>

Accept(line) ==
  LET A == AnalyzeFragment(fragment + 1, line)
      R == Run(A, line)
  IN /\ Typed(line)
     /\ A.ok
     /\ \A f \in Called(line) : A.table[f].index < Len(functions) + Len(line.functions)
     /\ KeepAnalysis(A)
     /\ functions' = functions \o [i \in 1 .. Len(line.functions) |->
                                     <<fragment + 1, line.functions[i]>>]
     /\ globals' = R.globals
     /\ history' = history \cup {fragment + 1}
     /\ ends' = Append(ends, R.end)
     /\ exit_status' = ExitStatus(R.end)
     /\ status' = IF ExitStatus(R.end) = 0 THEN "open" ELSE "left"

\* What following a dangling pointer, or calling a function that the module
\* does not have, comes to when it does not come to one of the others.
Crash(line) ==
  /\ Typed(line)
  /\ Dangles(line)
  /\ status' = "crashed"
  /\ UNCHANGED <<analyzer, module, exit_status, ends>>

\* `:quit`, or the end of the input.
Quit ==
  /\ status = "open"
  /\ status' = "left"
  /\ UNCHANGED <<analyzer, module, fragment, exit_status, ends>>

Next ==
  \/ \E line \in Lines : Reject(line) \/ Accept(line) \/ Crash(line)
  \/ Quit

Spec == Init /\ [][Next]_vars

---------------------------------------------------------------------------
(* What a line of a session can rely on.                                   *)

\* A function of a line that was accepted is found where the analyzer says,
\* whatever lines were rejected before or after ("Function indices are global
\* across the session, not per fragment").
FunctionsWhereDeclared ==
  \A f \in DOMAIN table :
    table[f].id[1] \in history =>
      /\ table[f].index < Len(functions)
      /\ functions[table[f].index + 1] = table[f].id

\* A global that an accepted line declared holds what was stored in it: a later
\* line, accepted or rejected, neither loses nor overwrites it. Only a line that
\* ended early leaves globals of its own unset.
GlobalsPersist ==
  \A v \in ToSet(scope) :
    v.id[1] \in history =>
      \/ globals[v.slot + 1] = v.id
      \/ globals[v.slot + 1] = Unset /\ ends[v.id[1]] # "halted"

\* A line that is rejected does not change what the session has compiled or
\* computed, and one that is accepted only adds functions.
SessionGrows ==
  [][/\ IsPrefix(functions, functions')
     /\ \A i \in 1 .. Len(globals) : globals[i] # Unset => globals'[i] = globals[i]]_vars

---------------------------------------------------------------------------
(* What the comments in the code say of it.                                *)

\* "Parsed fragments, kept alive because the analyzer's function table and the
\* AST of every declared function point into them" (on m_history); evaluate
\* "returns false if the session should end (an `exit` call)"; and an unexpected
\* tag is "a compiler bug, not a program error" (vm.cpp).
TableInHistory  == \A f \in DOMAIN table : table[f].id[1] \in history
ExitEndsSession == status = "open" => \A n \in DOMAIN ends : ends[n] \notin {"exit0", "exit3"}
NoUnexpectedTag == \A n \in DOMAIN ends : ends[n] # "internal"

SessionAsCommented == TableInHistory /\ ExitEndsSession /\ NoUnexpectedTag
=============================================================================
