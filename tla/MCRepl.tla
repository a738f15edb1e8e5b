------------------------------ MODULE MCRepl ------------------------------
(***************************************************************************)
(* Sessions of a few lines over two functions and two globals.             *)
(***************************************************************************)
EXTENDS FireRepl

S(kind, name) == [kind |-> kind, name |-> name]
Plain(kind)   == S(kind, "")

Effects ==
  { S(kind, x) : kind \in {"let", "read", "store"}, x \in {"x", "y"} }
    \cup { S("call", f) : f \in {"f", "g"} }
    \cup { Plain(kind) : kind \in {"wrong", "exit0", "exit3", "fail"} }

\* Up to two statements, after no function, one, or two.
MCLines ==
  { [functions |-> fs, statements |-> ss] :
      fs \in {<<>>, <<"f">>, <<"g">>, <<"g", "f">>, <<"f", "f">>},
      ss \in {<<>>} \cup { <<s>> : s \in Effects } \cup { <<s, t>> : s \in Effects, t \in Effects } }
=============================================================================
