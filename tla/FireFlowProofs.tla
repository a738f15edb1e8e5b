-------------------------- MODULE FireFlowProofs --------------------------
(***************************************************************************)
(* Compiled code whose flow is as the front end promises keeps the         *)
(* promises when it runs, whatever its data: it reads no local before it   *)
(* has been stored in, runs nothing that was warned to be unreachable,     *)
(* falls off the end of no function with a result, and halts with its      *)
(* stack in order.                                                         *)
(*                                                                         *)
(* That control stays within the flow is not inductive alone. The test of  *)
(* `while true` has a branch the flow leaves out, and that the machine     *)
(* does not take it depends on the value made by the instruction before;   *)
(* and a return continues a caller, so the callers are kept within their   *)
(* flows too, with the slots stored in when they were left.                *)
(***************************************************************************)
EXTENDS FireFlow, FirePipeline, FireVMProofs

---------------------------------------------------------------------------
(* The invariant.                                                          *)

\* Frame k is where the flow of its function says control can be, and has
\* stored in the slots that the flow says it has.
OnFlow(flow, k) ==
  LET w == flow[prog][frames[k].fn]
  IN frames[k].ip \in DOMAIN w /\ w[frames[k].ip] \subseteq written[k]

AtTest(k) == SurelyPasses(Function(prog, frames[k].fn), frames[k].ip)

\* The running machine: every frame follows its flow; no caller is at the test of
\* a `while true`, and the running frame only with the value it tests.
FramesFollow(flow) ==
  /\ written \in Seq(SUBSET Nat) /\ Len(written) = Len(frames)
  /\ \A k \in 1 .. Len(frames) : OnFlow(flow, k)
  /\ \A k \in 1 .. Len(frames) - 1 : ~AtTest(k)
  /\ AtTest(Len(frames)) => Peek(0) = BoolV(TRUE)

\* What has been executed belongs to flows.
ExecutedFlows(flow) ==
  \A e \in executed : \E f \in FunctionIds(prog) : \E i \in DOMAIN flow[prog][f] :
    e = Function(prog, f).spans[i]

FlowInv(flow) ==
  /\ status = "running" => FramesFollow(flow)
  /\ ExecutedFlows(flow)
  /\ BalancedAtHalt

\* What is assumed of a flow.
Checked(flow) == CodeFlows(flow, Heights, Declared, Unreachable)

---------------------------------------------------------------------------
(* Which action executes an instruction.                                   *)

\* The instructions whose effect on the flow depends on a value are executed
\* by one action each; only HALT halts.
LEMMA StackOps ==
  ASSUME StackStep
  PROVE  (Ins.op = "PushTrue" => PushBool)
         /\ Ins.op \notin {"JumpIfFalse", "CallNative"} /\ status' = status
BY DEF StackStep, Constant, PushBool, Pop, Dup, Dup2, Executing, Produce, Running

LEMMA VarOps ==
  ASSUME VarStep
  PROVE  Ins.op \notin {"PushTrue", "JumpIfFalse", "CallNative"} /\ status' = status
BY DEF VarStep, GetLocal, SetLocal, GetGlobal, SetGlobal, Executing, Produce, Running

LEMMA ValueOps ==
  ASSUME ValueStep
  PROVE  /\ Ins.op \notin {"PushTrue", "JumpIfFalse", "CallNative"}
         /\ status' = status \/ status' = "failed"
<1>1. CASE IntBinary
  BY <1>1 DEF IntBinary, Executing, Produce, Running, IntBinaryOps
<1>2. CASE IntBinaryFault
  BY <1>2 DEF IntBinaryFault, Fail, Stop, IntBinaryOps
<1>3. CASE IntUnary
  BY <1>3 DEF IntUnary, Executing, Produce, Running, IntUnaryOps
<1>4. CASE FloatBinary \/ FloatUnary
  BY <1>4 DEF FloatBinary, FloatUnary, Executing, Produce, Running, FloatBinaryOps
<1>5. CASE ConcatStr \/ Not \/ Equality
  BY <1>5 DEF ConcatStr, Not, Equality, Executing, Produce, Running, EqualityOps
<1>6. CASE Compare
  BY <1>6 DEF Compare, Executing, Produce, Running, CompareOps, IntCompareOps, FloatCompareOps, StrCompareOps
<1>q. QED BY <1>1, <1>2, <1>3, <1>4, <1>5, <1>6 DEF ValueStep

LEMMA ArrayOps ==
  ASSUME ArrayStep
  PROVE  /\ Ins.op \notin {"PushTrue", "JumpIfFalse", "CallNative"}
         /\ status' = status \/ status' = "failed"
BY DEF ArrayStep, MakeArray, IndexString, IndexArray, IndexSet, IndexFault, Executing, Produce, Running,
       Fail, Stop

LEMMA JumpOps ==
  ASSUME JumpStep
  PROVE  (Ins.op = "JumpIfFalse" => JumpIfFalse)
         /\ Ins.op \notin {"PushTrue", "CallNative"} /\ status' = status
BY DEF JumpStep, Jump, JumpIfFalse, PeekJump, Executing, Running, PeekJumps

LEMMA CallOps ==
  ASSUME MachineInv, CallStep
  PROVE  /\ Ins.op \notin {"PushTrue", "JumpIfFalse"}
         /\ Ins.op = "CallNative" => CallNative \/ status' \in Endings \ {"halted"}
         /\ status' = status \/ status' \in Endings \ {"halted"}
<1>1. CASE Call \/ CallTooDeep
  BY <1>1 DEF Call, CallTooDeep, Executing, Fail, Stop, Running, Endings
<1>2. CASE Return \/ ReturnVoid
  BY <1>2 DEF Return, ReturnVoid, ReturnWith, Executing, Running
<1>3. CASE CallNative
  BY <1>3 DEF CallNative, Executing, Running
<1>4. CASE CallNativeStop
  <2>1. PICK r \in NativeCall : r.kind # "value" /\ Stop(r.kind, r.code)
    BY <1>4 DEF CallNativeStop
  <2>2. Executing({"CallNative"}) /\ Ins.op = "CallNative"
    BY <1>4 DEF CallNativeStop, Executing
  <2>3. r.kind \in Endings \ {"halted"}
    BY <2>1, <2>2, NativeCalled DEF GoodOutcome, Endings
  <2>q. QED BY <2>1, <2>2, <2>3 DEF Stop
<1>q. QED BY <1>1, <1>2, <1>3, <1>4 DEF CallStep

LEMMA EndOps ==
  ASSUME EndStep
  PROVE  Halt \/ status' = "internal"
BY DEF EndStep, BadVariant, Stop

\* A step of the running machine that leaves it running.
LEMMA ActionOf ==
  ASSUME MachineInv, Next, status = "running"
  PROVE  /\ SoundStep
         /\ status' = "running" =>
              /\ Ins.op = "PushTrue"    => PushBool
              /\ Ins.op = "JumpIfFalse" => JumpIfFalse
              /\ Ins.op = "CallNative"  => CallNative
         /\ status' = "halted" => Halt
<1>1. /\ ~Finished
      /\ Halt => status' = "halted"
      /\ "running" \notin Endings /\ "halted" \notin {"failed", "internal", "running"}
  BY DEF Finished, Halt, Stop, Endings
<1>2. SoundStep
  BY <1>1, SoundStack, SoundVar, SoundValue, SoundArray, SoundJump, SoundCalls, SoundEnd DEF Next
<1>q. QED
  BY <1>1, <1>2, StackOps, VarOps, ValueOps, ArrayOps, JumpOps, CallOps, EndOps DEF Next

\* A machine that has stopped stays as it is.
LEMMA StoppedStays == ASSUME Next, status # "running" PROVE UNCHANGED vars
<1>1. ~Ready /\ \A ops : ~Executing(ops)
  BY DEF Executing, Ready
<1>2. ~StackStep /\ ~VarStep
  BY <1>1 DEF StackStep, Constant, PushBool, Pop, Dup, Dup2, VarStep, GetLocal, SetLocal, GetGlobal, SetGlobal
<1>3. ~ValueStep
  BY <1>1 DEF ValueStep, IntBinary, IntBinaryFault, IntUnary, FloatBinary, FloatUnary, ConcatStr, Not,
              Equality, Compare
<1>4. ~ArrayStep /\ ~JumpStep
  BY <1>1 DEF ArrayStep, MakeArray, IndexString, IndexArray, IndexSet, IndexFault, JumpStep, Jump,
              JumpIfFalse, PeekJump
<1>5. ~CallStep /\ ~EndStep
  BY <1>1 DEF CallStep, Call, CallTooDeep, CallNative, CallNativeStop, Return, ReturnVoid, EndStep, Halt,
              BadVariant
<1>q. QED BY <1>2, <1>3, <1>4, <1>5 DEF Next, Finished

---------------------------------------------------------------------------
(* Within a frame.                                                         *)

\* What is assumed of the flow of one function.
LEMMA OneFlow ==
  ASSUME NEW flow, Checked(flow), NEW m \in DOMAIN Modules, NEW f \in FunctionIds(m)
  PROVE  /\ IsFlow(flow[m][f], Function(m, f))
         /\ Promised(flow[m][f], Heights[m][f], m, f,
                     IF f = 0 THEN NoType ELSE Declared[m][f].return_type, Unreachable[m])
BY DEF Checked, CodeFlows

\* The builtins that end the program return no value.
LEMMA NeverReturns ==
  ASSUME NEW id, NativeNames[id + 1] \in NeverReturning, NEW args, NEW h, NEW o,
         NEW r \in NativeOutcomes(id, args, h, o)
  PROVE  r.kind # "value"
<1> DEFINE name == NativeNames[id + 1]
<1>1. CASE ~ArgumentsOK(name, args)
  BY <1>1 DEF NativeOutcomes, Outcome
<1>2. CASE ArgumentsOK(name, args) /\ NativeFault(name, args, h)
  BY <1>2 DEF NativeOutcomes, Outcome
<1>3. CASE ArgumentsOK(name, args) /\ ~NativeFault(name, args, h)
  <2>1. name # "panic"
    BY <1>3 DEF NativeFault
  <2>2. name = "exit"
    BY <2>1 DEF NeverReturning
  <2>3. r \in NativeReturns(name, args, h, o)
    BY <1>3 DEF NativeOutcomes
  <2> HIDE DEF name
  <2>4. r = Outcome("exited", IntV(0), h, o, Payload(args[1]) % 256)
    BY <2>2, <2>3 DEF NativeReturns
  <2>q. QED BY <2>4 DEF Outcome
<1>q. QED BY <1>1, <1>2, <1>3

\* Where an instruction that stays in its frame goes is where the flow says, and
\* a test that surely passes is reached with the value it tests.
LEMMA GoesOn ==
  ASSUME NEW flow, MachineInv, FramesFollow(flow), Next, status = "running", status' = "running",
         NEW j \in Successors(Ins, Top.ip), frames' = MovedTo(j)
  PROVE  /\ j \in Follows(Fn, Top.ip)
         /\ SurelyPasses(Fn, j) => Peek(0)' = BoolV(TRUE)
<1>1. /\ Ins.op = "PushTrue"    => PushBool
      /\ Ins.op = "JumpIfFalse" => JumpIfFalse
      /\ Ins.op = "CallNative"  => CallNative
  BY ActionOf
<1>2. /\ Ins \in Instruction /\ Top.ip \in 1 .. Len(Fn.code) /\ Top.ip \in Nat
      /\ Ins = Fn.code[Top.ip]
  BY Fetched DEF Ins
<1>3. frames \in Seq(FramesOf(prog)) /\ Len(frames) \in 1 .. Len(frames)
  BY DEF MachineInv, TypeOK
<1>4. \A i : MovedTo(i)[Len(frames)].ip = i
  BY <1>3 DEF MovedTo, Frame
<1>5. CASE SurelyPasses(Fn, Top.ip)
  <2>1. Ins.op = "JumpIfFalse" /\ Peek(0) = BoolV(TRUE)
    BY <1>2, <1>5 DEF FramesFollow, AtTest, SurelyPasses, Fn, Top
  <2>2. frames' = MovedTo(Top.ip + 1)
    <3>1. Payload(BoolV(TRUE)) = TRUE
      BY DEF BoolV, Payload
    <3>2. Payload(Peek(0)) = TRUE
      BY <2>1, <3>1
    <3>q. QED BY <1>1, <2>1, <3>2 DEF JumpIfFalse, GoTo
  <2>3. j = Top.ip + 1
    <3>1. MovedTo(j)[Len(frames)].ip = j /\ MovedTo(Top.ip + 1)[Len(frames)].ip = Top.ip + 1
      BY <1>4
    <3>q. QED BY <2>2, <3>1
  <2>4. ~SurelyPasses(Fn, j)
    BY <1>2, <2>1, <2>3 DEF SurelyPasses
  <2>5. Follows(Fn, Top.ip) = {Top.ip + 1}
    BY <1>2, <1>5, <2>1 DEF Follows
  <2>q. QED BY <2>3, <2>4, <2>5
<1>6. CASE ~SurelyPasses(Fn, Top.ip)
  <2>1. ~(Ins.op = "CallNative" /\ NativeNames[Ins.a + 1] \in NeverReturning)
    <3> SUFFICES ASSUME Ins.op = "CallNative", NativeNames[Ins.a + 1] \in NeverReturning PROVE FALSE
      OBVIOUS
    <3>1. PICK r \in NativeCall : r.kind = "value"
      BY <1>1 DEF CallNative
    <3>q. QED BY <3>1, NeverReturns DEF NativeCall
  <2>2. j \in Follows(Fn, Top.ip)
    BY <1>2, <1>6, <2>1 DEF Follows
  <2>3. ASSUME SurelyPasses(Fn, j) PROVE Peek(0)' = BoolV(TRUE)
    <3>1. Ins.op \in Jumps => Ins.a # j
      BY <1>2, <2>3 DEF SurelyPasses
    <3>2. j = Top.ip + 1
      BY <1>2, <3>1 DEF Successors, Jumps, PeekJumps
    <3>3. Ins.op = "PushTrue"
      BY <1>2, <2>3, <3>2 DEF SurelyPasses
    <3>4. stack' = Append(Drop(0), BoolV(TRUE))
      BY <1>1, <3>3 DEF PushBool, Produce
    <3>5. Len(stack) \in Nat /\ Len(Drop(0)) = Len(stack) /\ Drop(0) \in Seq(Value)
      BY Cells DEF MachineInv
    <3> DEFINE D == Drop(0)
               V == Value
               b == BoolV(TRUE)
    <3>6. D \in Seq(V) /\ stack' = Append(D, b)
      BY <3>4, <3>5
    <3> HIDE DEF D, V, b
    <3>7. stack'[Len(stack')] = b
      BY <3>6
    <3>8. Peek(0)' = stack'[Len(stack') - 0]
      BY DEF Peek
    <3>9. Len(stack') - 0 = Len(stack')
      BY <3>6
    <3>q. QED BY <3>7, <3>8, <3>9 DEF b
  <2>q. QED BY <2>2, <2>3
<1>q. QED BY <1>5, <1>6

---------------------------------------------------------------------------
(* Every step keeps the frames within their flows.                         *)

\* What is recorded of the instruction that runs next.
LEMMA Recorded ==
  ASSUME MachineInv, status = "running"
  PROVE  /\ Ready
         /\ Ins.op = "SetLocal" => Stored = [written EXCEPT ![Len(frames)] = @ \cup {Ins.a}]
         /\ Ins.op = "Call" /\ Len(frames) < MaxCallDepth
              => Stored = Append(written, 0 .. Callee.arity - 1)
         /\ Ins.op \in ReturnOps => Stored = Front(written)
         /\ Ins.op \notin {"SetLocal", "Call"} \cup ReturnOps => Stored = written
<1>1. Ready
  BY Fetched DEF Ready
<1>2. "SetLocal" \notin ReturnOps /\ "Call" \notin ReturnOps
  BY DEF ReturnOps
<1>q. QED BY <1>1, <1>2 DEF Stored

\* What the invariants say of the frames.
LEMMA FramesAre ==
  ASSUME MachineInv
  PROVE  /\ prog \in DOMAIN Modules /\ frames \in Seq(FramesOf(prog))
         /\ Len(frames) \in Nat /\ Len(frames) > 0
         /\ Top = frames[Len(frames)]
         /\ \A k \in 1 .. Len(frames) : frames[k].fn \in FunctionIds(prog) /\ frames[k].ip \in Nat
<1>1. prog \in DOMAIN Modules /\ frames \in Seq(FramesOf(prog)) /\ frames # <<>>
  BY DEF MachineInv, TypeOK
<1>2. Len(frames) \in Nat /\ Len(frames) > 0 /\ \A k \in 1 .. Len(frames) : frames[k] \in FramesOf(prog)
  BY <1>1
<1>q. QED BY <1>1, <1>2 DEF FramesOf, Top

\* An instruction that stays in its frame.
LEMMA FollowsOn ==
  ASSUME NEW flow, Checked(flow), MachineInv, FramesFollow(flow), Next, written' = Stored,
         status = "running", status' = "running", Ins.op \notin ReturnOps \cup {"Call", "Halt"},
         NEW j \in Successors(Ins, Top.ip), frames' = MovedTo(j), prog' = prog
  PROVE  FramesFollow(flow)'
<1>n. PICK n \in Nat : n = Len(frames)
  BY FramesAre
<1> DEFINE w == flow[prog][Top.fn]
           more == StoredBy(Ins)
<1>1. /\ frames \in Seq(FramesOf(prog)) /\ n \in Nat /\ n > 0 /\ Top = frames[n]
      /\ prog \in DOMAIN Modules /\ Top.fn \in FunctionIds(prog)
  BY <1>n, FramesAre
<1>2. /\ written \in Seq(SUBSET Nat) /\ Len(written) = n
      /\ \A k \in 1 .. n : OnFlow(flow, k)
      /\ \A k \in 1 .. n - 1 : ~AtTest(k)
  BY <1>n DEF FramesFollow
<1>3. j \in Follows(Fn, Top.ip) /\ (SurelyPasses(Fn, j) => Peek(0)' = BoolV(TRUE))
  BY GoesOn
<1>4. IsFlow(w, Fn) /\ Ins \in Instruction /\ Fn.code[Top.ip] = Ins
  BY <1>1, OneFlow, Fetched DEF Fn, Ins
<1>5. Top.ip \in DOMAIN w /\ w[Top.ip] \subseteq written[n]
  BY <1>1, <1>2 DEF OnFlow
<1>6. j \in DOMAIN w /\ w[j] \subseteq w[Top.ip] \cup more
  BY <1>3, <1>4, <1>5 DEF IsFlow
<1>7. /\ written' \in Seq(SUBSET Nat) /\ Len(written') = n
      /\ written'[n] = written[n] \cup more
      /\ \A k \in 1 .. n - 1 : written'[k] = written[k]
  <2> HIDE DEF more
  <2>1. CASE Ins.op = "SetLocal"
    <3>1. more = {Ins.a} /\ Ins.a \in Nat
      BY <1>4, <2>1 DEF StoredBy, Instruction, more
    <3>2. written' = [written EXCEPT ![n] = @ \cup {Ins.a}]
      BY <1>n, <2>1, Recorded
    <3>3. written[n] \cup {Ins.a} \in SUBSET Nat
      BY <1>1, <1>2, <3>1
    <3>q. QED BY <1>1, <1>2, <3>1, <3>2, <3>3
  <2>2. CASE Ins.op # "SetLocal"
    <3>1. more = {} /\ written' = written
      BY <2>2, Recorded DEF StoredBy, more
    <3>q. QED BY <1>2, <3>1
  <2>q. QED BY <2>1, <2>2
<1>8. /\ Len(frames') = n
      /\ frames'[n].fn = Top.fn /\ frames'[n].ip = j
      /\ \A k \in 1 .. n - 1 : frames'[k] = frames[k]
  <2>1. frames' = [frames EXCEPT ![n] = Frame(Top.fn, j, Top.base)]
    BY <1>n DEF MovedTo
  <2>2. Frame(Top.fn, j, Top.base).fn = Top.fn /\ Frame(Top.fn, j, Top.base).ip = j
    BY DEF Frame
  <2>q. QED BY <1>n, <1>1, <2>1, <2>2
<1> HIDE DEF w, more
<1>9. \A k \in 1 .. n : OnFlow(flow, k)'
  <2>1. OnFlow(flow, n)'
    <3>1. w[j] \subseteq written'[n]
      BY <1>5, <1>6, <1>7
    <3>q. QED BY <1>6, <1>8, <3>1 DEF OnFlow, w
  <2>2. ASSUME NEW k \in 1 .. n - 1 PROVE OnFlow(flow, k)'
    <3>1. OnFlow(flow, k)
      BY <1>1, <1>2
    <3>q. QED BY <1>7, <1>8, <3>1 DEF OnFlow
  <2>q. QED BY <1>1, <2>1, <2>2
<1>10. \A k \in 1 .. n - 1 : ~AtTest(k)'
  BY <1>2, <1>8 DEF AtTest
<1>11. AtTest(n)' => Peek(0)' = BoolV(TRUE)
  BY <1>3, <1>8 DEF AtTest, Fn
<1>q. QED BY <1>7, <1>8, <1>9, <1>10, <1>11 DEF FramesFollow

\* A call leaves its caller behind the call, which no test is, and enters a
\* function with the slots of its parameters stored in.
LEMMA FollowsCall ==
  ASSUME NEW flow, Checked(flow), MachineInv, FramesFollow(flow), written' = Stored,
         status = "running", Ins.op = "Call", Len(frames) < MaxCallDepth, NEW base,
         frames' = Append(MovedTo(Top.ip + 1), Frame(Ins.a + 1, 1, base)), prog' = prog
  PROVE  FramesFollow(flow)'
<1>n. PICK n \in Nat : n = Len(frames)
  BY FramesAre
<1> DEFINE w == flow[prog][Top.fn]
           g == Ins.a + 1
           j == Top.ip + 1
<1>1. /\ frames \in Seq(FramesOf(prog)) /\ n \in Nat /\ n > 0 /\ Top = frames[n]
      /\ prog \in DOMAIN Modules /\ Top.fn \in FunctionIds(prog) /\ Top.ip \in Nat
  BY <1>n, FramesAre
<1>2. /\ written \in Seq(SUBSET Nat) /\ Len(written) = n
      /\ \A k \in 1 .. n : OnFlow(flow, k)
      /\ \A k \in 1 .. n - 1 : ~AtTest(k)
  BY <1>n DEF FramesFollow
<1>3. /\ IsFlow(w, Fn) /\ Ins \in Instruction /\ Fn.code[Top.ip] = Ins
      /\ OperandsOK(prog, Top.fn, Ins)
  BY <1>1, OneFlow, Fetched DEF Fn, Ins
<1>4. j \in Follows(Fn, Top.ip) /\ StoredBy(Ins) = {} /\ ~SurelyPasses(Fn, j)
  <2>1. ~SurelyPasses(Fn, Top.ip) /\ ~SurelyPasses(Fn, j)
    BY <1>1, <1>3 DEF SurelyPasses
  <2>2. Successors(Ins, Top.ip) = {j} /\ StoredBy(Ins) = {}
    BY <1>3, SuccessorsAre DEF StoredBy
  <2>q. QED BY <1>3, <2>1, <2>2 DEF Follows
<1>5. Top.ip \in DOMAIN w /\ w[Top.ip] \subseteq written[n]
  BY <1>1, <1>2 DEF OnFlow
<1>6. j \in DOMAIN w /\ w[j] \subseteq written[n]
  BY <1>3, <1>4, <1>5 DEF IsFlow
<1>7. /\ g \in FunctionIds(prog) /\ g # 0
      /\ Callee = Function(prog, g) /\ Callee.arity \in Nat
  <2>1. g \in FunctionIds(prog) /\ g # 0
    BY <1>1, <1>3, ModuleAssumption DEF OperandsOK, FunctionIds, Instruction
  <2>2. FunctionOK(Function(prog, g))
    BY <1>1, <2>1, ModuleAssumption
  <2>q. QED BY <2>1, <2>2 DEF Callee, Function, FunctionOK
<1>8. 1 \in DOMAIN flow[prog][g] /\ flow[prog][g][1] \subseteq 0 .. Callee.arity - 1
  BY <1>1, <1>7, OneFlow DEF IsFlow
<1> DEFINE params == 0 .. Callee.arity - 1
<1>9. /\ written' \in Seq(SUBSET Nat) /\ Len(written') = n + 1
      /\ written'[n + 1] = params
      /\ \A k \in 1 .. n : written'[k] = written[k]
  <2>1. written' = Append(written, params)
    BY Recorded
  <2>2. params \in SUBSET Nat
    BY <1>7
  <2> HIDE DEF params
  <2>q. QED BY <1>1, <1>2, <2>1, <2>2
<1>10. /\ Len(frames') = n + 1
       /\ frames'[n + 1].fn = g /\ frames'[n + 1].ip = 1
       /\ frames'[n].fn = Top.fn /\ frames'[n].ip = j
       /\ \A k \in 1 .. n - 1 : frames'[k] = frames[k]
  <2> DEFINE moved == MovedTo(j)
             entered == Frame(g, 1, base)
  <2>1. moved = [frames EXCEPT ![n] = Frame(Top.fn, j, Top.base)]
    BY <1>n DEF MovedTo
  <2>2. /\ Frame(Top.fn, j, Top.base).fn = Top.fn /\ Frame(Top.fn, j, Top.base).ip = j
        /\ entered.fn = g /\ entered.ip = 1
    BY DEF Frame
  <2>3. /\ moved \in Seq({moved[k] : k \in 1 .. n}) /\ Len(moved) = n /\ moved[n] = Frame(Top.fn, j, Top.base)
        /\ \A k \in 1 .. n - 1 : moved[k] = frames[k]
    <3> DEFINE moving == Frame(Top.fn, j, Top.base)
               S == {moved[k] : k \in 1 .. n}
    <3> HIDE DEF moved, moving
    <3>1. moved = [frames EXCEPT ![n] = moving]
      BY <2>1 DEF moving
    <3>2. moved \in [1 .. n -> S] /\ moved[n] = moving
          /\ \A k \in 1 .. n - 1 : moved[k] = frames[k]
      BY <1>n, <1>1, <3>1
    <3> HIDE DEF S
    <3>3. moved \in Seq(S) /\ Len(moved) = n
      BY <1>n, <3>2
    <3>q. QED BY <3>2, <3>3 DEF moving, S
  <2>4. frames' = Append(moved, entered)
    OBVIOUS
  <2> HIDE DEF moved, j, entered
  <2>5. /\ Len(frames') = n + 1 /\ frames'[n + 1] = entered
        /\ \A k \in 1 .. n : frames'[k] = moved[k]
    BY <1>1, <2>3, <2>4
  <2>q. QED BY <1>1, <2>2, <2>3, <2>5
<1> HIDE DEF w, g, j, params
<1>11. \A k \in 1 .. n + 1 : OnFlow(flow, k)'
  <2>1. OnFlow(flow, n + 1)'
    BY <1>8, <1>9, <1>10 DEF OnFlow, params
  <2>2. OnFlow(flow, n)'
    <3>1. w[j] \subseteq written'[n]
      BY <1>1, <1>6, <1>9
    <3>q. QED BY <1>6, <1>10, <3>1 DEF OnFlow, w
  <2>3. ASSUME NEW k \in 1 .. n - 1 PROVE OnFlow(flow, k)'
    <3>1. OnFlow(flow, k) /\ k \in 1 .. n
      BY <1>1, <1>2
    <3>q. QED BY <1>9, <1>10, <3>1 DEF OnFlow
  <2>q. QED BY <1>1, <2>1, <2>2, <2>3
<1>12. \A k \in 1 .. n : ~AtTest(k)'
  <2>1. ~AtTest(n)'
    BY <1>4, <1>10 DEF AtTest, Fn
  <2>2. \A k \in 1 .. n - 1 : ~AtTest(k)'
    BY <1>2, <1>10 DEF AtTest
  <2>q. QED BY <1>1, <2>1, <2>2
<1>13. ~AtTest(n + 1)'
  BY <1>10 DEF AtTest, SurelyPasses
<1>14. Len(frames') - 1 = n
  BY <1>1, <1>10
<1>q. QED BY <1>n, <1>9, <1>10, <1>11, <1>12, <1>13, <1>14 DEF FramesFollow

\* A return continues a caller, which has been within its flow all along.
LEMMA FollowsReturn ==
  ASSUME NEW flow, MachineInv, FramesFollow(flow), written' = Stored,
         status = "running", Ins.op \in ReturnOps, Len(frames) > 1,
         frames' = SubSeq(frames, 1, Len(frames) - 1), prog' = prog
  PROVE  FramesFollow(flow)'
<1>n. PICK n \in Nat : n = Len(frames)
  BY FramesAre
<1>1. frames \in Seq(FramesOf(prog)) /\ n > 1
  BY <1>n, FramesAre
<1>2. /\ written \in Seq(SUBSET Nat) /\ Len(written) = n
      /\ \A k \in 1 .. n : OnFlow(flow, k)
      /\ \A k \in 1 .. n - 1 : ~AtTest(k)
  BY <1>n DEF FramesFollow
<1> DEFINE S == FramesOf(prog)
<1>3. /\ frames \in Seq(S) /\ frames' = SubSeq(frames, 1, n - 1)
      /\ written' = SubSeq(written, 1, n - 1)
  BY <1>n, <1>1, <1>2, Recorded DEF Front
<1> HIDE DEF S
<1>4. /\ Len(frames') = n - 1 /\ \A k \in 1 .. n - 1 : frames'[k] = frames[k]
  BY <1>n, <1>1, <1>3, SubSeqProperties
<1>5. /\ written' \in Seq(SUBSET Nat) /\ Len(written') = n - 1
      /\ \A k \in 1 .. n - 1 : written'[k] = written[k]
  BY <1>n, <1>1, <1>2, <1>3, SubSeqProperties
<1>6. \A k \in 1 .. n - 1 : OnFlow(flow, k)'
  <2> SUFFICES ASSUME NEW k \in 1 .. n - 1 PROVE OnFlow(flow, k)'
    OBVIOUS
  <2>1. OnFlow(flow, k)
    BY <1>n, <1>2
  <2>q. QED BY <1>4, <1>5, <2>1 DEF OnFlow
<1>7. \A k \in 1 .. n - 1 : ~AtTest(k)'
  BY <1>2, <1>4 DEF AtTest
<1>8. n - 1 \in 1 .. n - 1 /\ Len(frames') - 1 = n - 2 /\ n - 2 < n - 1
  BY <1>n, <1>1, <1>4
<1>9. \A k \in 1 .. n - 2 : k \in 1 .. n - 1
  BY <1>n, <1>1
<1>q. QED BY <1>4, <1>5, <1>6, <1>7, <1>8, <1>9 DEF FramesFollow

\* The script halts with its locals on the stack and nothing else.
LEMMA HaltsBalanced ==
  ASSUME NEW flow, Checked(flow), MachineInv, FramesFollow(flow), status = "running", Halt
  PROVE  BalancedAtHalt'
<1> DEFINE n == Len(frames)
           w == flow[prog][Top.fn]
<1>1. /\ n \in Nat /\ n > 0 /\ Top = frames[n]
      /\ prog \in DOMAIN Modules /\ Top.fn \in FunctionIds(prog)
  BY FramesAre
<1>2. Ins.op = "Halt" /\ stack' = stack /\ prog' = prog
  BY DEF Halt, Executing, Stop
<1>3. Top.ip \in DOMAIN w
  BY <1>1 DEF FramesFollow, OnFlow
<1>4. Top.fn = 0 /\ Heights[prog][Top.fn][Top.ip] = 0
  BY <1>1, <1>2, <1>3, OneFlow DEF Promised, Ins, Fn
<1>5. /\ Len(stack) = Top.base + P!LocalCount(n) + P!Height(n)
      /\ \A i \in 1 .. n : frames[i].fn = 0 <=> i = 1
      /\ frames[1].base = 0
  BY SameModules DEF MachineInv, P!FrameInv, P!FramesOK, P!TopInOrder
<1>6. n = 1 /\ Top.base = 0
  <2>1. n \in 1 .. n /\ frames[n].fn = 0
    BY <1>1, <1>4
  <2> HIDE DEF n
  <2>2. n = 1
    BY <1>5, <2>1
  <2>q. QED BY <1>1, <1>5, <2>2
<1>7. P!LocalCount(n) = Modules[prog].script.local_count /\ P!Height(n) = 0
  BY <1>1, <1>4, SameModules DEF P!LocalCount, P!Height, Function
<1>8. Modules[prog].script.local_count \in Nat
  BY <1>1, <1>4, Fetched DEF Fn, Function
<1>q. QED BY <1>2, <1>5, <1>6, <1>7, <1>8 DEF BalancedAtHalt

\* The instruction that runs next belongs to a flow.
LEMMA ExecutesFlow ==
  ASSUME NEW flow, MachineInv, FlowInv(flow), status = "running", prog' = prog,
         executed' = executed \cup {Fn.spans[Top.ip]}
  PROVE  ExecutedFlows(flow)'
<1>1. /\ Len(frames) \in Nat /\ Len(frames) > 0 /\ Top = frames[Len(frames)]
      /\ Top.fn \in FunctionIds(prog)
  BY FramesAre
<1>2. Top.ip \in DOMAIN flow[prog][Top.fn]
  BY <1>1 DEF FlowInv, FramesFollow, OnFlow
<1>3. FunctionIds(prog)' = FunctionIds(prog) /\ \A f : Function(prog, f)' = Function(prog, f)
  BY DEF FunctionIds, Function
<1>q. QED BY <1>1, <1>2, <1>3 DEF FlowInv, ExecutedFlows, Fn

---------------------------------------------------------------------------
(* The invariant is one.                                                   *)

LEMMA FlowInit ==
  ASSUME NEW flow, Checked(flow), PipelineInit
  PROVE  MachineInv /\ FlowInv(flow)
<1>1. MachineInv
  BY MachineInit DEF PipelineInit
<1>2. /\ frames = << Frame(0, 1, 0) >> /\ written = << {} >> /\ executed = {}
      /\ status = "running"
  BY DEF PipelineInit, Init
<1>3. /\ Len(frames) = 1 /\ frames[1].fn = 0 /\ frames[1].ip = 1
      /\ Len(written) = 1 /\ written[1] = {} /\ written \in Seq(SUBSET Nat)
  BY <1>2 DEF Frame
<1>4. /\ prog \in DOMAIN Modules /\ 0 \in FunctionIds(prog)
      /\ Function(prog, 0).arity = 0
  <2>1. prog \in DOMAIN Modules /\ 0 \in FunctionIds(prog)
    BY <1>1, <1>3, FramesAre
  <2>q. QED BY <2>1 DEF Checked, CodeFlows, Function
<1>5. OnFlow(flow, 1)
  <2> DEFINE w == flow[prog][0]
  <2>1. 1 \in DOMAIN w /\ w[1] \subseteq 0 .. 0 - 1
    BY <1>4, OneFlow DEF IsFlow
  <2>2. w[1] = {}
    BY <2>1
  <2>q. QED BY <1>3, <2>1, <2>2 DEF OnFlow
<1>6. ~AtTest(1)
  BY <1>3 DEF AtTest, SurelyPasses
<1>7. FramesFollow(flow)
  <2>1. 1 .. Len(frames) = {1} /\ 1 .. Len(frames) - 1 = {}
    BY <1>3
  <2>q. QED BY <1>3, <1>5, <1>6, <2>1 DEF FramesFollow
<1>q. QED BY <1>1, <1>2, <1>7 DEF FlowInv, ExecutedFlows, BalancedAtHalt

LEMMA FlowNext ==
  ASSUME NEW flow, Checked(flow), MachineInv, FlowInv(flow), [PipelineNext]_pipeline
  PROVE  MachineInv' /\ FlowInv(flow)'
<1>1. MachineInv'
  BY MachineNext DEF PipelineNext, pipeline
<1>2. CASE UNCHANGED <<prog, stack, frames, status, written, executed>>
  <2>1. FramesFollow(flow) => FramesFollow(flow)'
    <3>1. \A k : (OnFlow(flow, k)' <=> OnFlow(flow, k)) /\ (AtTest(k)' <=> AtTest(k))
      BY <1>2 DEF OnFlow, AtTest
    <3>2. Peek(0)' = Peek(0) /\ frames' = frames /\ written' = written
      BY <1>2 DEF Peek
    <3>q. QED BY <3>1, <3>2 DEF FramesFollow
  <2>2. ExecutedFlows(flow)'
    BY <1>2 DEF FlowInv, ExecutedFlows
  <2>3. BalancedAtHalt'
    BY <1>2 DEF FlowInv, BalancedAtHalt
  <2>q. QED BY <1>1, <1>2, <2>1, <2>2, <2>3 DEF FlowInv
<1>3. CASE PipelineNext /\ status # "running"
  <2>1. UNCHANGED <<prog, stack, frames, status>> /\ ~Ready
    BY <1>3, StoppedStays DEF PipelineNext, vars, machine, Ready
  <2>q. QED BY <1>2, <1>3, <2>1 DEF PipelineNext, Stored
<1>4. CASE PipelineNext /\ status = "running"
  <2>1. Next /\ written' = Stored /\ executed' = executed \cup {Fn.spans[Top.ip]}
    BY <1>4, Recorded DEF PipelineNext
  <2>2. /\ P!Next
        /\ status' = "halted" => Halt
    BY <1>4, <2>1, ActionOf DEF SoundStep
  <2>3. prog' = prog
    BY <2>2 DEF P!Next, P!Step, P!Call, P!Return, P!Stop
  <2>4. FramesFollow(flow)
    BY <1>4 DEF FlowInv
  <2>5. ASSUME status' = "running" PROVE FramesFollow(flow)'
    <3>1. CASE P!Step
      <4>1. PICK j \in Successors(Ins, Top.ip) : frames' = MovedTo(j)
        BY <3>1, SameEffects, SameModules DEF P!Step
      <4>2. Ins.op \notin ReturnOps \cup {"Call", "Halt"}
        BY <3>1, SameModules DEF P!Step, P!ReturnOps, ReturnOps
      <4>q. QED BY <1>4, <2>1, <2>3, <2>4, <2>5, <4>1, <4>2, FollowsOn
    <3>2. CASE P!Call
      <4>1. /\ Ins.op = "Call" /\ Len(frames) < MaxCallDepth
            /\ frames' = Append(MovedTo(Top.ip + 1), Frame(Ins.a + 1, 1, Len(stack) - Ins.b))
        BY <3>2, SameModules DEF P!Call, P!Frame, Frame
      <4>q. QED BY <1>4, <2>1, <2>3, <2>4, <4>1, FollowsCall
    <3>3. CASE P!Return
      <4>1. /\ Ins.op \in ReturnOps /\ Len(frames) > 1
            /\ frames' = SubSeq(frames, 1, Len(frames) - 1)
        BY <3>3, SameModules DEF P!Return, P!ReturnOps, ReturnOps
      <4>q. QED BY <1>4, <2>1, <2>3, <2>4, <4>1, FollowsReturn
    <3>4. CASE P!Stop
      BY <2>5, <3>4 DEF P!Stop
    <3>q. QED BY <2>2, <3>1, <3>2, <3>3, <3>4 DEF P!Next
  <2>6. ExecutedFlows(flow)'
    BY <1>4, <2>1, <2>3, ExecutesFlow
  <2>7. BalancedAtHalt'
    <3>1. CASE status' = "halted"
      BY <1>4, <2>2, <2>4, <3>1, HaltsBalanced
    <3>2. CASE status' # "halted"
      BY <3>2 DEF BalancedAtHalt
    <3>q. QED BY <3>1, <3>2
  <2>8. status' = "running" => FramesFollow(flow)'
    BY <2>5
  <2>q. QED BY <1>1, <2>6, <2>7, <2>8 DEF FlowInv
<1>q. QED
  BY <1>1, <1>2, <1>3, <1>4 DEF pipeline, vars, machine

\* Compiled programs stay within their flows.
LEMMA FlowInvariant ==
  ASSUME NEW flow, Checked(flow)
  PROVE  PipelineSpec => [](MachineInv /\ FlowInv(flow))
<1>1. PipelineInit => MachineInv /\ FlowInv(flow)
  BY FlowInit
<1>2. MachineInv /\ FlowInv(flow) /\ [PipelineNext]_pipeline => (MachineInv /\ FlowInv(flow))'
  BY FlowNext
<1>q. QED BY <1>1, <1>2, PTL DEF PipelineSpec

---------------------------------------------------------------------------
(* The theorems.                                                           *)

\* What the instruction that runs next is promised.
LEMMA NextPromised ==
  ASSUME NEW flow, Checked(flow), MachineInv, FlowInv(flow), Ready
  PROVE  /\ Ins.op = "GetLocal" => Ins.a \in written[Len(frames)]
         /\ Ins.op = "ReturnVoid" => Declared[prog][Top.fn].return_type = VoidT
<1>1. /\ Len(frames) \in Nat /\ Len(frames) > 0 /\ Top = frames[Len(frames)]
      /\ prog \in DOMAIN Modules /\ Top.fn \in FunctionIds(prog)
  BY FramesAre
<1>2. status = "running"
  BY DEF Ready
<1> DEFINE w == flow[prog][Top.fn]
<1>3. Top.ip \in DOMAIN w /\ w[Top.ip] \subseteq written[Len(frames)]
  BY <1>1, <1>2 DEF FlowInv, FramesFollow, OnFlow
<1>4. /\ Ins.op = "GetLocal" => Ins.a \in w[Top.ip]
      /\ Ins.op = "ReturnVoid" =>
           (IF Top.fn = 0 THEN NoType ELSE Declared[prog][Top.fn].return_type) = VoidT
  BY <1>1, <1>3, OneFlow DEF Promised, Ins, Fn
<1>5. NoType # VoidT
  BY DEF NoType, VoidT
<1>q. QED BY <1>3, <1>4, <1>5

\* "The compiler always writes a local before reading it" (vm.cpp): code with
\* such a flow never reads the zero that a new frame is filled with.
THEOREM LocalsAreWritten ==
  ASSUME NEW flow, CodeFlows(flow, Heights, Declared, Unreachable)
  PROVE  PipelineSpec => []LocalsWrittenFirst
<1>1. Checked(flow)
  BY DEF Checked
<1>2. MachineInv /\ FlowInv(flow) => LocalsWrittenFirst
  BY <1>1, NextPromised DEF LocalsWrittenFirst
<1>q. QED BY <1>1, <1>2, FlowInvariant, PTL

\* The end of a function with a result is never reached (codegen.cpp closes every
\* function with RET_VOID, and sema rejects the ones that could come to it).
THEOREM EndsAreReturns ==
  ASSUME NEW flow, CodeFlows(flow, Heights, Declared, Unreachable)
  PROVE  PipelineSpec => []NeverFallsOff
<1>1. Checked(flow)
  BY DEF Checked
<1>2. MachineInv /\ FlowInv(flow) => NeverFallsOff
  BY <1>1, NextPromised DEF NeverFallsOff
<1>q. QED BY <1>1, <1>2, FlowInvariant, PTL

\* What the analyzer warns can never run (W0002) never does: nothing executed
\* lies in a span it warned about.
THEOREM WarningsAreRight ==
  ASSUME NEW flow, CodeFlows(flow, Heights, Declared, Unreachable)
  PROVE  PipelineSpec => []UnreachableNeverRuns
<1>1. Checked(flow)
  BY DEF Checked
<1>2. MachineInv /\ FlowInv(flow) => UnreachableNeverRuns
  <2> SUFFICES ASSUME MachineInv, FlowInv(flow), NEW u \in Unreachable[prog], NEW e \in executed
               PROVE  ~IsPrefix(u, e)
    BY DEF UnreachableNeverRuns
  <2>1. PICK f \in FunctionIds(prog) : \E i \in DOMAIN flow[prog][f] : e = Function(prog, f).spans[i]
    BY DEF FlowInv, ExecutedFlows
  <2>2. prog \in DOMAIN Modules
    BY FramesAre
  <2>q. QED BY <1>1, <2>1, <2>2, OneFlow DEF Promised
<1>q. QED BY <1>1, <1>2, FlowInvariant, PTL

\* The script halts with its locals and no operand: every statement has left the
\* stack as it found it.
THEOREM HaltIsBalanced ==
  ASSUME NEW flow, CodeFlows(flow, Heights, Declared, Unreachable)
  PROVE  PipelineSpec => []BalancedAtHalt
<1>1. Checked(flow)
  BY DEF Checked
<1>2. MachineInv /\ FlowInv(flow) => BalancedAtHalt
  BY DEF FlowInv
<1>q. QED BY <1>1, <1>2, FlowInvariant, PTL
=============================================================================
