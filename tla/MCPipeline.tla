---------------------------- MODULE MCPipeline ----------------------------
(***************************************************************************)
(* The pipeline on a family of programs: what the constants of the machine *)
(* are once the front end has compiled it.                                 *)
(***************************************************************************)
EXTENDS MCPrograms, FireCompile, FirePipeline

MCModules     == LET compiled == CompiledModules IN compiled
MCDeclared    == LET declared == FunctionsOf IN declared
MCMeanings    == LET meanings == ProgramMeanings IN meanings
MCUnreachable == LET warned == UnreachableSpans IN warned
MCFloatVals   == {NaN}
=============================================================================
