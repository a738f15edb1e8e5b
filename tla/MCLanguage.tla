----------------------------- MODULE MCLanguage -----------------------------
(***************************************************************************)
(* One program for each construct of the language; the programs with a     *)
(* function that lacks a return; every loop with a body of two steps,      *)
(* alone and in another loop; every small expression, store and call, over *)
(* operands of every type; and a program that ends in an internal error.   *)
(***************************************************************************)
EXTENDS MCPipeline, FireCertify, FireListing, FireRefinement

MCFamily ==
  << Constructs, FallingPrograms, {ReadsLateGlobal} >> \o LoopFamilies \o TypedFamilies

\* Every construct is in a program the compiler accepts.
ASSUME AllAccepted ==
  LET accepted == AcceptedPrograms
  IN Constructs \subseteq { accepted[i].program : i \in DOMAIN accepted }

\* The generator has no use for DUP: this module does.
Duplicating ==
  [script |-> [arity |-> 0, local_count |-> 0, consts |-> <<IntV(3)>>,
               code |-> << Instr("Constant", 0, 0), Instr("Dup", 0, 0), Instr("AddInt", 0, 0),
                           Instr("Pop", 0, 0), Instr("Halt", 0, 0) >>,
               spans |-> << <<>>, <<>>, <<>>, <<>>, <<>> >>],
   functions |-> <<>>, global_count |-> 0]

\* It comes after the compiled programs, and means what it does.
MCAllModules     == LET compiled == CompiledModules IN Append(compiled, Duplicating)
MCAllDeclared    == LET declared == FunctionsOf IN Append(declared, << >>)
MCAllMeanings ==
  LET meanings == ProgramMeanings
  IN Append(meanings, [status |-> "halted", exit_status |-> 0, out |-> << >>])
MCAllUnreachable == LET warned == UnreachableSpans IN Append(warned, {})
MCHeights == LET found == [m \in DOMAIN Modules |-> CertificatesOf(Modules[m])] IN found
=============================================================================
