--------------------------- MODULE FirePipeline ---------------------------
(***************************************************************************)
(* The machine on compiled programs: it runs every program of a family     *)
(* that the analyzer accepted, and is held against what the front end      *)
(* promised and against what the program means.                            *)
(***************************************************************************)
EXTENDS FireVM, FireSyntax, SequencesExt

\* Each for every accepted program, by its number, which is its module's.
CONSTANTS
  Declared,     \* its functions, as it declares them
  Meanings,     \* what the program means
  Unreachable   \* the spans that the analyzer warns can never run

VARIABLES
  written,   \* for each frame, the slots something has been stored in
  executed   \* the spans of the instructions executed so far

pipeline == <<vars, written, executed>>

PipelineInit ==
  /\ Init
  /\ written = << {} >>
  /\ executed = {}

\* The slots of the innermost frame written after the next instruction.
Stored ==
  CASE ~Ready -> written
    [] Ready /\ Ins.op = "SetLocal" ->
         [written EXCEPT ![Len(frames)] = @ \cup {Ins.a}]
    [] Ready /\ Ins.op = "Call" /\ Len(frames) < MaxCallDepth ->
         Append(written, 0 .. Callee.arity - 1)
    [] Ready /\ Ins.op \in ReturnOps -> Front(written)
    [] OTHER -> written

PipelineNext ==
  /\ Next
  /\ written' = Stored
  /\ executed' = IF Ready THEN executed \cup {Fn.spans[Top.ip]} ELSE executed

PipelineSpec == PipelineInit /\ [][PipelineNext]_pipeline /\ WF_pipeline(PipelineNext)

---------------------------------------------------------------------------
(* What the stages promise each other and the programmer.                  *)

\* A program that reads a global before its declaration has run means nothing.
Meaningful == Meanings[prog].status # "unset"

\* The compiled program does what the program means: it never prints anything
\* else, and it ends the way the program ends. This is the whole of sema's
\* slot assignment, codegen's patching and the VM's calling convention.
FollowsMeaning ==
  LET m == Meanings[prog]
  IN Meaningful =>
       /\ IsPrefix(out, m.out)
       /\ status # "running" => <<status, exit_status, out>> = <<m.status, m.exit_status, m.out>>

\* No opcode meets a value whose tag the type checker ruled out, as the comment
\* in VM::run has it: that would be a compiler bug, not a program error.
NoInternalError == Meaningful => status # "internal"

\* "The compiler always writes a local before reading it" (vm.cpp, on the zeros
\* that a new frame is filled with).
LocalsWrittenFirst ==
  Ready /\ Ins.op = "GetLocal" => Ins.a \in written[Len(frames)]

\* Code that W0002 warns can never run never does.
UnreachableNeverRuns ==
  \A u \in Unreachable[prog], e \in executed : ~IsPrefix(u, e)

\* The RET_VOID that closes every function is only reached in a void one: sema
\* rejects a function some path of which falls off the end.
NeverFallsOff ==
  Ready /\ Ins.op = "ReturnVoid" => Declared[prog][Top.fn].return_type = VoidT

\* Between two statements of the script nothing is left on the operand stack:
\* the script halts with its locals and no more.
BalancedAtHalt ==
  status = "halted" => Len(stack) = Modules[prog].script.local_count

\* Every program of the family ends: a loop's jumps lead to its test and out.
Terminates == <>(status # "running")
=============================================================================
