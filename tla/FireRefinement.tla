-------------------------- MODULE FireRefinement --------------------------
(***************************************************************************)
(* FireVM implements FireFrames: the frames are the frames, the depth is   *)
(* the size of the stack, and a machine whose status has left "running"    *)
(* has stopped.                                                            *)
(***************************************************************************)
EXTENDS FireVM

CONSTANT Heights   \* certificates, as FireFrames has them

ASSUME VerifiedCode ==
  \A m \in DOMAIN Modules : \A f \in FunctionIds(m) : Certifies(Heights[m][f], m, f)

Frames == INSTANCE FireFrames WITH
            depth   <- Len(stack),
            running <- status = "running"

\* The machine takes no step its calling convention does not have.
KeepsConvention == Frames!Spec

\* A machine that has not ended can fetch an instruction and finds its operands
\* and everything they name: nothing is read past the end of the stack, the
\* code, the constants, the globals or the functions.
NeverOutOfBounds ==
  status = "running" =>
    /\ Ready
    /\ OperandsOK(prog, Top.fn, Ins)
    /\ Ins.op \in {"GetLocal", "SetLocal"} => Slot <= Len(stack) - Needs(Ins)

\* A step keeps its hands off other frames: it changes no cell below the
\* running frame's base, and a local of that frame only by SetLocal, or by
\* leaving the frame.
StaysInFrame ==
  status = "running" =>
    \A c \in 1 .. Top.base + Fn.local_count :
      \/ c > Top.base /\ Ins.op \in ReturnOps
      \/ Ins.op = "SetLocal" /\ c = Slot
      \/ c <= Len(stack') /\ stack'[c] = stack[c]

\* What a caller keeps on the stack is there again when its callee returns.
KeepsToItsFrame == [][StaysInFrame]_vars
=============================================================================
