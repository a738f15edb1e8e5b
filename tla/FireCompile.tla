---------------------------- MODULE FireCompile ----------------------------
(***************************************************************************)
(* The front end as the driver composes it: semantic analysis of each      *)
(* program of a family, then code generation for the accepted ones; and    *)
(* what each of those is then held against.                                *)
(***************************************************************************)
EXTENDS FireSema, FireCodegen, FireReference

CONSTANT Programs   \* families of programs: a sequence of sets of syntax trees

\* A sequence by its values, so that the model checker computes them once.
Tabulate(f) == f \o << >>

RECURSIVE Listed(_)
Listed(S) ==
  IF S = {} THEN << >>
  ELSE LET x == CHOOSE y \in S : TRUE IN <<x>> \o Listed(S \ {x})

\* Compilation stops after a rejected analysis. The accepted programs are
\* numbered: from here on each is known by its place in this list.
AcceptedOf(family) ==
  { c \in { [program |-> p, analysis |-> Analyze(p)] : p \in family } : Accepted(c.analysis) }

AcceptedPrograms ==
  FlattenSeq([k \in DOMAIN Programs |-> Listed(AcceptedOf(Programs[k]))])

\* What the function f makes of each accepted program and its analysis.
ForEach(f(_)) ==
  LET accepted == AcceptedPrograms IN Tabulate([i \in DOMAIN accepted |-> f(accepted[i])])

CompiledModules  == ForEach(LAMBDA c : Generate(c.analysis))
ProgramMeanings  == ForEach(LAMBDA c : Meaning(c.program))
UnreachableSpans == ForEach(LAMBDA c : c.analysis.unreachable)
FunctionsOf      == ForEach(LAMBDA c : c.program.functions)
=============================================================================
