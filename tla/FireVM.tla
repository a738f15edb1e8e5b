------------------------------ MODULE FireVM ------------------------------
(***************************************************************************)
(* The virtual machine: VM::run, VM::execute, VM::call_function and        *)
(* VM::call_native, one action per opcode or group of opcodes that differ  *)
(* only in the operation they perform.                                     *)
(*                                                                         *)
(* An instruction that throws ends the run. The cells it had popped by     *)
(* then are never looked at again (run() clears the stack when it starts), *)
(* so the stack is left as it was; the instruction pointer has moved past  *)
(* the instruction, which is what VM::report relies on.                    *)
(***************************************************************************)
EXTENDS FireBytecode

VARIABLES
  prog,         \* the module the machine runs
  stack,        \* m_stack
  frames,       \* m_frames: function, next instruction, cells below slot 0
  globals,      \* m_globals
  heap,         \* the arrays allocated so far
  out,          \* what has been printed
  status,       \* "running", or how the run ended
  exit_status   \* what run() returns

machine == <<stack, frames, globals, heap, out>>
vars    == <<prog, machine, status, exit_status>>

Frame(fn, ip, base) == [fn |-> fn, ip |-> ip, base |-> base]
FramesOf(m) == [fn : FunctionIds(m), ip : Nat, base : Nat]
Zeros(n) == [i \in 1 .. n |-> IntV(0)]

Top  == frames[Len(frames)]
Fn   == Function(prog, Top.fn)
Ins  == Fn.code[Top.ip]

Peek(d) == stack[Len(stack) - d]
Drop(n) == SubSeq(stack, 1, Len(stack) - n)

Endings == {"halted", "exited", "failed", "internal"}

Init ==
  /\ prog \in DOMAIN Modules
  /\ stack = Zeros(Modules[prog].script.local_count)
  /\ frames = << Frame(0, 1, 0) >>
  /\ globals = Zeros(Modules[prog].global_count)
  /\ heap = <<>> /\ out = <<>>
  /\ status = "running" /\ exit_status = 0

---------------------------------------------------------------------------
(* Fetching, and the two ways an instruction ends.                         *)

\* There is an instruction to fetch, and the stack holds its operands. Reading
\* past either end is undefined in the code; no step is taken from there.
Ready ==
  /\ status = "running"
  /\ Top.ip \in 1 .. Len(Fn.code)
  /\ Needs(Ins) <= Len(stack)

WellTagged ==
  \A d \in 1 .. Len(OperandTags(Ins)) : Tag(Peek(d - 1)) \in OperandTags(Ins)[d]

Executing(ops) == Ready /\ Ins.op \in ops /\ WellTagged

\* The frames with the running one at instruction i.
MovedTo(i) == [frames EXCEPT ![Len(frames)] = Frame(Top.fn, i, Top.base)]

GoTo(i) == frames' = MovedTo(i)
Advance == GoTo(Top.ip + 1)

Running == UNCHANGED <<prog, status, exit_status>>

\* Replace n operands by one result.
Produce(n, v) ==
  /\ stack' = Append(Drop(n), v)
  /\ Advance /\ Running
  /\ UNCHANGED <<globals, heap, out>>

\* An exception leaves execute(): run() returns `code`.
Stop(ending, code) ==
  /\ status' = ending /\ exit_status' = code
  /\ Advance
  /\ UNCHANGED <<prog, stack, globals, heap, out>>

Fail == Stop("failed", 70)

---------------------------------------------------------------------------
(* Stack and variables.                                                    *)

Constant ==
  /\ Executing({"Constant"})
  /\ Ins.a < Len(Fn.consts)
  /\ Produce(0, Fn.consts[Ins.a + 1])

PushBool ==
  /\ Executing({"PushTrue", "PushFalse"})
  /\ Produce(0, BoolV(Ins.op = "PushTrue"))

Pop ==
  /\ Executing({"Pop"})
  /\ stack' = Drop(1)
  /\ Advance /\ Running /\ UNCHANGED <<globals, heap, out>>

Dup == Executing({"Dup"}) /\ Produce(0, Peek(0))

Dup2 ==
  /\ Executing({"Dup2"})
  /\ stack' = stack \o << Peek(1), Peek(0) >>
  /\ Advance /\ Running /\ UNCHANGED <<globals, heap, out>>

\* Slot s of the running frame is cell Top.base + s + 1.
Slot == Top.base + Ins.a + 1

GetLocal ==
  /\ Executing({"GetLocal"})
  /\ Slot <= Len(stack)
  /\ Produce(0, stack[Slot])

\* Mutant: slots are counted from the bottom of the stack.
SetLocalFromBottom ==
  /\ Executing({"SetLocal"})
  /\ stack' = [Drop(1) EXCEPT ![Ins.a + 1] = Peek(0)]
  /\ Advance /\ Running /\ UNCHANGED <<globals, heap, out>>

SetLocal ==
  /\ Executing({"SetLocal"})
  /\ Slot < Len(stack)
  /\ stack' = [Drop(1) EXCEPT ![Slot] = Peek(0)]
  /\ Advance /\ Running /\ UNCHANGED <<globals, heap, out>>

GetGlobal ==
  /\ Executing({"GetGlobal"})
  /\ Ins.a < Len(globals)
  /\ Produce(0, globals[Ins.a + 1])

SetGlobal ==
  /\ Executing({"SetGlobal"})
  /\ Ins.a < Len(globals)
  /\ globals' = [globals EXCEPT ![Ins.a + 1] = Peek(0)]
  /\ stack' = Drop(1)
  /\ Advance /\ Running /\ UNCHANGED <<heap, out>>

---------------------------------------------------------------------------
(* Operations on one or two values.                                        *)

IntBinary ==
  /\ Executing(IntBinaryOps)
  /\ ~IntFault(Ins.op, Payload(Peek(1)), Payload(Peek(0)))
  /\ \E n \in IntRange :
       /\ IsIntResult(Ins.op, Payload(Peek(1)), Payload(Peek(0)), n)
       /\ Produce(2, IntV(n))

\* The right operand is popped and checked first, so a bad one fails the run
\* even when the left one is not an int.
IntBinaryFault ==
  /\ Ready /\ Ins.op \in IntBinaryOps /\ Tag(Peek(0)) = "int"
  /\ \/ RightFault(Ins.op, Payload(Peek(0)))
     \/ WellTagged /\ IntFault(Ins.op, Payload(Peek(1)), Payload(Peek(0)))
  /\ Fail

IntUnary ==
  /\ Executing(IntUnaryOps)
  /\ \E n \in IntRange :
       /\ IsIntUnaryResult(Ins.op, Payload(Peek(0)), n)
       /\ Produce(1, IntV(n))

FloatBinary == Executing(FloatBinaryOps) /\ \E x \in FloatVals : Produce(2, FloatV(x))
FloatUnary  == Executing({"NegFloat"}) /\ \E x \in FloatVals : Produce(1, FloatV(x))

\* Mutant: the operands are popped in the wrong order.
ConcatReversed ==
  /\ Executing({"ConcatStr"})
  /\ Produce(2, StrV(Payload(Peek(0)) \o Payload(Peek(1))))

ConcatStr ==
  /\ Executing({"ConcatStr"})
  /\ Produce(2, StrV(Payload(Peek(1)) \o Payload(Peek(0))))

Not == Executing({"Not"}) /\ Produce(1, BoolV(~Payload(Peek(0))))

Equality ==
  /\ Executing(EqualityOps)
  /\ Produce(2, BoolV(Equals(heap, Peek(1), Peek(0)) = (Ins.op = "Equal")))

Compare ==
  /\ Executing(CompareOps)
  /\ LET l == Payload(Peek(1))
         r == Payload(Peek(0))
     IN Produce(2, BoolV(
          CASE Ins.op \in IntCompareOps   -> IntCompare(Ins.op, l, r)
            [] Ins.op \in FloatCompareOps -> FloatCompare(Ins.op, l, r)
            [] OTHER                      -> StrCompare(Ins.op, l, r)))

---------------------------------------------------------------------------
(* Arrays.                                                                 *)

\* Mutant: the array is referred to before it is stored.
MakeArrayUnstored ==
  /\ Executing({"MakeArray"})
  /\ stack' = Append(Drop(Ins.a), ArrayV(Len(heap) + 1))
  /\ Advance /\ Running /\ UNCHANGED <<globals, heap, out>>

MakeArray ==
  /\ Executing({"MakeArray"})
  /\ heap' = Append(heap, SubSeq(stack, Len(stack) - Ins.a + 1, Len(stack)))
  /\ stack' = Append(Drop(Ins.a), ArrayV(Len(heap) + 1))
  /\ Advance /\ Running /\ UNCHANGED <<globals, out>>

\* The length of the string or the array x.
LengthOf(x) == IF Tag(x) = "str" THEN Len(Payload(x)) ELSE Len(heap[Payload(x)])

IndexString ==
  /\ Executing({"IndexGet"}) /\ Tag(Peek(1)) = "str"
  /\ Payload(Peek(0)) \in 0 .. LengthOf(Peek(1)) - 1
  /\ Produce(2, StrV(<< Payload(Peek(1))[Payload(Peek(0)) + 1] >>))

IndexArray ==
  /\ Executing({"IndexGet"}) /\ Tag(Peek(1)) = "array"
  /\ Payload(Peek(0)) \in 0 .. LengthOf(Peek(1)) - 1
  /\ Produce(2, heap[Payload(Peek(1))][Payload(Peek(0)) + 1])

IndexSet ==
  /\ Executing({"IndexSet"})
  /\ Payload(Peek(1)) \in 0 .. LengthOf(Peek(2)) - 1
  /\ heap' = [heap EXCEPT ![Payload(Peek(2))] =
                [@ EXCEPT ![Payload(Peek(1)) + 1] = Peek(0)]]
  /\ stack' = Drop(3)
  /\ Advance /\ Running /\ UNCHANGED <<globals, out>>

IndexFault ==
  /\ \/ Executing({"IndexGet"}) /\ Payload(Peek(0)) \notin 0 .. LengthOf(Peek(1)) - 1
     \/ Executing({"IndexSet"}) /\ Payload(Peek(1)) \notin 0 .. LengthOf(Peek(2)) - 1
  /\ Fail

---------------------------------------------------------------------------
(* Control flow within a frame.                                            *)

Jump ==
  /\ Executing({"Jump"})
  /\ GoTo(Ins.a) /\ Running
  /\ UNCHANGED <<stack, globals, heap, out>>

\* Mutant: the condition is left on the stack.
JumpIfFalseKeeping ==
  /\ Executing({"JumpIfFalse"})
  /\ GoTo(IF Payload(Peek(0)) THEN Top.ip + 1 ELSE Ins.a)
  /\ Running /\ UNCHANGED <<stack, globals, heap, out>>

JumpIfFalse ==
  /\ Executing({"JumpIfFalse"})
  /\ GoTo(IF Payload(Peek(0)) THEN Top.ip + 1 ELSE Ins.a)
  /\ stack' = Drop(1)
  /\ Running /\ UNCHANGED <<globals, heap, out>>

PeekJump ==
  /\ Executing(PeekJumps)
  /\ GoTo(IF Payload(Peek(0)) = (Ins.op = "JumpIfTruePeek") THEN Ins.a ELSE Top.ip + 1)
  /\ Running /\ UNCHANGED <<stack, globals, heap, out>>

---------------------------------------------------------------------------
(* Calls.                                                                  *)

\* Mutant: the stack is never padded.
CutTo(n) == SubSeq(stack, 1, IF n < Len(stack) THEN n ELSE Len(stack))

\* Cut or pad the stack to n cells, as vector::resize does: new cells hold 0.
Resized(n) ==
  [i \in 1 .. n |-> IF i <= Len(stack) THEN stack[i] ELSE IntV(0)]

Callee == Modules[prog].functions[Ins.a + 1]

\* Mutant: one call too many is let by.
CallOneDeeper ==
  /\ Executing({"Call"})
  /\ Ins.a < Len(Modules[prog].functions)
  /\ Len(frames) <= MaxCallDepth
  /\ LET base == Len(stack) - Ins.b
     IN /\ stack' = Resized(base + Callee.local_count)
        /\ frames' = Append(MovedTo(Top.ip + 1), Frame(Ins.a + 1, 1, base))
  /\ Running /\ UNCHANGED <<globals, heap, out>>

\* The arguments become the first slots of the new frame, in place.
Call ==
  /\ Executing({"Call"})
  /\ Ins.a < Len(Modules[prog].functions)
  /\ Len(frames) < MaxCallDepth
  /\ LET base == Len(stack) - Ins.b
     IN /\ stack' = Resized(base + Callee.local_count)
        /\ frames' = Append(MovedTo(Top.ip + 1), Frame(Ins.a + 1, 1, base))
  /\ Running /\ UNCHANGED <<globals, heap, out>>

CallTooDeep ==
  /\ Executing({"Call"})
  /\ Len(frames) >= MaxCallDepth
  /\ Fail

\* A native takes its arguments off the stack before it runs.
NativeCall == NativeOutcomes(Ins.a, SubSeq(stack, Len(stack) - Ins.b + 1, Len(stack)), heap, out)

CallNative ==
  /\ Executing({"CallNative"})
  /\ \E r \in NativeCall :
       /\ r.kind = "value"
       /\ stack' = Append(Drop(Ins.b), r.value)
       /\ heap' = r.heap /\ out' = r.out
       /\ Advance /\ Running /\ UNCHANGED globals

CallNativeStop ==
  /\ Executing({"CallNative"})
  /\ \E r \in NativeCall : r.kind # "value" /\ Stop(r.kind, r.code)

\* Drop the callee's frame and every cell of it, and push its result.
ReturnWith(v) ==
  /\ Len(frames) > 1
  /\ frames' = SubSeq(frames, 1, Len(frames) - 1)
  /\ stack' = Append(SubSeq(stack, 1, Top.base), v)
  /\ Running /\ UNCHANGED <<globals, heap, out>>

Return     == Executing({"Return"}) /\ ReturnWith(Peek(0))
ReturnVoid == Executing({"ReturnVoid"}) /\ ReturnWith(IntV(0))

Halt == Executing({"Halt"}) /\ Stop("halted", 0)

\* std::get throws: an operand has a tag the type checker ruled out.
BadVariant ==
  /\ Ready /\ ~WellTagged
  /\ ~(Ins.op \in IntBinaryOps /\ Tag(Peek(0)) = "int" /\ RightFault(Ins.op, Payload(Peek(0))))
  /\ Stop("internal", 70)

---------------------------------------------------------------------------

\* run() has returned. The step keeps a finished run from being a deadlock, so
\* that a deadlock is a running machine with nowhere to go.
Finished == status # "running" /\ UNCHANGED vars

StackStep   == Constant \/ PushBool \/ Pop \/ Dup \/ Dup2
VarStep     == GetLocal \/ SetLocal \/ GetGlobal \/ SetGlobal
ValueStep   == IntBinary \/ IntBinaryFault \/ IntUnary \/ FloatBinary \/ FloatUnary
                 \/ ConcatStr \/ Not \/ Equality \/ Compare
ArrayStep   == MakeArray \/ IndexString \/ IndexArray \/ IndexSet \/ IndexFault
JumpStep    == Jump \/ JumpIfFalse \/ PeekJump
CallStep    == Call \/ CallTooDeep \/ CallNative \/ CallNativeStop \/ Return \/ ReturnVoid
EndStep     == Halt \/ BadVariant

Next ==
  \/ StackStep \/ VarStep \/ ValueStep \/ ArrayStep
  \/ JumpStep \/ CallStep \/ EndStep \/ Finished

Spec == Init /\ [][Next]_vars

\* The machine is a single loop that nothing suspends: it keeps executing.
FairSpec == Spec /\ WF_vars(Next)

---------------------------------------------------------------------------
(* Types.                                                                  *)

Value == ValueUpTo(Len(heap))

\* Every cell, global and array element holds a value whose array exists, and
\* every frame names a function of the module.
TypeOK ==
  /\ prog \in DOMAIN Modules
  /\ HeapOK(heap)
  /\ stack \in Seq(Value)
  /\ globals \in [1 .. Modules[prog].global_count -> Value]
  /\ frames \in Seq(FramesOf(prog))
  /\ frames # <<>>
  /\ status \in {"running"} \cup Endings
  /\ exit_status \in Nat
=============================================================================
