---------------------------- MODULE FireFrames ----------------------------
(***************************************************************************)
(* What the virtual machine promises about its stack: the calling          *)
(* convention that docs and comments describe, without the values.         *)
(*                                                                         *)
(* Only the frames and the number of cells on the stack are kept. A frame  *)
(* is its local slots, from `base` up, and above them its operands. Inside *)
(* a frame a step goes to any successor of its instruction, and may stop   *)
(* the machine; a call turns the topmost operands into the first slots of  *)
(* a frame of local_count cells; a return gives the whole frame back for   *)
(* one result. FireVM implements this machine (FireRefinement).            *)
(***************************************************************************)
EXTENDS FireBytecode

CONSTANT Heights   \* for each function of each module, its certificate

\* What bytecode generation guarantees of a module: every function has one.
ASSUME CodeVerified ==
  \A m \in DOMAIN Modules : \A f \in FunctionIds(m) : Certifies(Heights[m][f], m, f)

VARIABLES
  prog,      \* the module
  frames,    \* the calls in progress, the script first
  depth,     \* the number of cells on the stack
  running    \* false once the machine has stopped

vars == <<prog, frames, depth, running>>

Frame(fn, ip, base) == [fn |-> fn, ip |-> ip, base |-> base]

\* The frames there can be of the functions of module m.
FramesOf(m) == [fn : FunctionIds(m), ip : Nat, base : Nat]

Top == frames[Len(frames)]
Ins == Function(prog, Top.fn).code[Top.ip]

Init ==
  /\ prog \in DOMAIN Modules
  /\ frames = << Frame(0, 1, 0) >>
  /\ depth = Modules[prog].script.local_count
  /\ running = TRUE

\* The frames with the running one at instruction i.
MovedTo(i) == [frames EXCEPT ![Len(frames)] = Frame(Top.fn, i, Top.base)]

\* An instruction that stays in its frame.
Step ==
  /\ running /\ Ins.op \notin ReturnOps \cup {"Call", "Halt"}
  /\ \E i \in Successors(Ins, Top.ip) : frames' = MovedTo(i)
  /\ depth' = depth - Needs(Ins) + Leaves(Ins)
  /\ UNCHANGED <<prog, running>>

\* Mutant: calls of any depth are let by.
CallUnlimited ==
  /\ running /\ Ins.op = "Call"
  /\ LET base == depth - Ins.b
     IN /\ frames' = Append(MovedTo(Top.ip + 1), Frame(Ins.a + 1, 1, base))
        /\ depth' = base + Function(prog, Ins.a + 1).local_count
  /\ UNCHANGED <<prog, running>>

\* The arguments stay where they are: they are the first slots of the callee.
Call ==
  /\ running /\ Ins.op = "Call"
  /\ Len(frames) < MaxCallDepth
  /\ LET base == depth - Ins.b
     IN /\ frames' = Append(MovedTo(Top.ip + 1), Frame(Ins.a + 1, 1, base))
        /\ depth' = base + Function(prog, Ins.a + 1).local_count
  /\ UNCHANGED <<prog, running>>

\* Mutant: the result is dropped with the frame.
ReturnNothing ==
  /\ running /\ Ins.op \in ReturnOps
  /\ Len(frames) > 1
  /\ frames' = SubSeq(frames, 1, Len(frames) - 1)
  /\ depth' = Top.base
  /\ UNCHANGED <<prog, running>>

Return ==
  /\ running /\ Ins.op \in ReturnOps
  /\ Len(frames) > 1
  /\ frames' = SubSeq(frames, 1, Len(frames) - 1)
  /\ depth' = Top.base + 1
  /\ UNCHANGED <<prog, running>>

\* The end of the script, a run-time failure, or a builtin that never returns.
Stop ==
  /\ running /\ running' = FALSE
  /\ frames' = MovedTo(Top.ip + 1)
  /\ UNCHANGED <<prog, depth>>

Next == Step \/ Call \/ Return \/ Stop

Spec == Init /\ [][Next]_vars

---------------------------------------------------------------------------

Height(i)     == Heights[prog][frames[i].fn][frames[i].ip]
LocalCount(i) == Function(prog, frames[i].fn).local_count

\* Every frame is in certified code; the script is at the bottom, at cell 0, and
\* nowhere else.
FramesOK ==
  /\ prog \in DOMAIN Modules
  /\ running \in BOOLEAN /\ depth \in Nat
  /\ frames \in Seq(FramesOf(prog))
  /\ Len(frames) \in 1 .. MaxCallDepth
  /\ \A i \in 1 .. Len(frames) : frames[i].fn = 0 <=> i = 1
  /\ frames[1].base = 0

\* A caller has its operands but for the result the callee is computing: the
\* callee's frame begins right above them.
CallersInOrder ==
  \A i \in 1 .. Len(frames) - 1 :
    /\ frames[i].ip \in DOMAIN Heights[prog][frames[i].fn]
    /\ frames[i + 1].base + 1 = frames[i].base + LocalCount(i) + Height(i)

\* The running frame holds its locals and as many operands as certified.
TopInOrder ==
  running =>
    /\ Top.ip \in DOMAIN Heights[prog][Top.fn]
    /\ depth = Top.base + LocalCount(Len(frames)) + Height(Len(frames))

\* The frames tile the stack: from the script's at cell 0 up to the running one,
\* each begins where its caller's operands end, and nothing lies above the
\* operands of the running one. call_function and RETURN keep them so.
FrameInv == FramesOK /\ CallersInOrder /\ TopInOrder

\* The calling convention is kept: whatever the machine runs next is an
\* instruction of the running function, its operands lie above the locals of
\* the running frame, and no call is deeper than the limit.
Disciplined ==
  /\ Len(frames) <= MaxCallDepth
  /\ running =>
       /\ Top.ip \in 1 .. Len(Function(prog, Top.fn).code)
       /\ OperandsOK(prog, Top.fn, Ins)
       /\ Needs(Ins) <= depth - (Top.base + LocalCount(Len(frames)))
=============================================================================
