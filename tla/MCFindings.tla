---------------------------- MODULE MCFindings ----------------------------
(***************************************************************************)
(* Programs the compiler accepts and does not run as they mean. Operands   *)
(* of an instruction are two bits wide here.                               *)
(***************************************************************************)
EXTENDS MCPipeline

\* println(1, 2, 3, 4);  one argument more than an operand can count; and four
\* constants an index can name, and a fifth.
OperandWidths ==
  { Program(<< Say(<<I(1), I(2), I(3), I(4)>>) >>, <<>>),
    Program(<< Say(<<I(1), I(2), I(3)>>), Say(<<I(4), I(5)>>) >>, <<>>) }

\* Each of them alone violates the property; TLC stops at the first.
MCDeparting == << Holes, OperandWidths >>

\* An accepted program does what it means and meets no unexpected tag: codegen
\* "cannot fail on well-formed input" (codegen.hpp), and a tag the type checker
\* ruled out is "a compiler bug, not a program error" (vm.cpp).
RunsAsItMeans == FollowsMeaning /\ status # "internal"
=============================================================================
