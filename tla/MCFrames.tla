----------------------------- MODULE MCFrames -----------------------------
(***************************************************************************)
(* The calling convention on compiled programs: every program of the run   *)
(* `language`, and those that end in an internal error, with the           *)
(* certificates that the stack analysis finds for the code of each. The    *)
(* flows of the same code are found and checked on the way.                *)
(***************************************************************************)
EXTENDS MCPrograms, FireCertify, FireCompile, FireFrames

MCFamily    == << Constructs, FallingPrograms, Holes >> \o LoopFamilies \o TypedFamilies
MCModules   == LET compiled == CompiledModules IN compiled
MCHeights   == LET found == [m \in DOMAIN Modules |-> CertificatesOf(Modules[m])] IN found
MCFloatVals == {NaN}

\* The compiled code has flows, and they are as the front end promises.
ASSUME FlowsFound ==
  LET flows == [m \in DOMAIN Modules |-> FlowsOf(Modules[m])]
  IN CodeFlows(flows, Heights, FunctionsOf, UnreachableSpans)
=============================================================================
