---------------------------- MODULE FireCertify ----------------------------
(***************************************************************************)
(* Stack analysis of compiled code: a certificate for a function, found by *)
(* following control from its first instruction and counting what each     *)
(* instruction takes and leaves; and its flow, found likewise. Code that is *)
(* never reached has no entry.                                             *)
(***************************************************************************)
EXTENDS FireFlow, TLC

RECURSIVE Follow(_, _, _)
Follow(F, h, todo) ==
  IF todo = {} THEN h
  ELSE LET i   == CHOOSE j \in todo : TRUE
           new == Successors(F.code[i], i) \ DOMAIN h
           n   == h[i] - Needs(F.code[i]) + Leaves(F.code[i])
       IN Follow(F, [j \in new |-> n] @@ h, (todo \ {i}) \cup new)

CertificateOf(F) == Follow(F, 1 :> 0, {1})

CertificatesOf(module) ==
  LET found == [i \in 1 .. Len(module.functions) |-> CertificateOf(module.functions[i])]
  IN (0 :> CertificateOf(module.script)) @@ found

\* The flow of a function: slots stored in on the way to an address are dropped
\* from it when another way there leaves them out.
RECURSIVE Flood(_, _, _)
Flood(F, w, todo) ==
  IF todo = {} THEN w
  ELSE LET i       == CHOOSE j \in todo : TRUE
           stored  == w[i] \cup StoredBy(F.code[i])
           changed == {j \in Follows(F, i) : j \in DOMAIN w => ~(w[j] \subseteq stored)}
           met     == [j \in changed |-> IF j \in DOMAIN w THEN w[j] \cap stored ELSE stored]
       IN Flood(F, met @@ w, (todo \ {i}) \cup changed)

FlowOf(F) == Flood(F, 1 :> (0 .. F.arity - 1), {1})

FlowsOf(module) ==
  LET found == [i \in 1 .. Len(module.functions) |-> FlowOf(module.functions[i])]
  IN (0 :> FlowOf(module.script)) @@ found
=============================================================================
