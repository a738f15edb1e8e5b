------------------------- MODULE FireFramesProofs -------------------------
(***************************************************************************)
(* The calling convention is kept, for every module whose functions have   *)
(* certificates, every limit on the depth of calls and every path.         *)
(***************************************************************************)
EXTENDS FireFrames, TLAPS

Instruction == [op : OpCodes, a : Nat, b : Nat]

\* What an instruction takes from the operand stack and puts on it is a number.
LEMMA StackEffect ==
  ASSUME NEW I \in Instruction
  PROVE  Needs(I) \in Nat /\ Leaves(I) \in Nat
<1>1. Needs(I) \in Nat  BY DEF Instruction, Needs
<1>2. Leaves(I) \in Nat BY DEF Instruction, Leaves
<1>q. QED BY <1>1, <1>2

\* What the assumptions say of one function.
LEMMA OneFunction ==
  ASSUME NEW m \in DOMAIN Modules, NEW f \in FunctionIds(m)
  PROVE  /\ FunctionOK(Function(m, f))
         /\ Certifies(Heights[m][f], m, f)
BY ModuleAssumption, CodeVerified

\* What the certificate says of one address.
LEMMA OneAddress ==
  ASSUME NEW m \in DOMAIN Modules, NEW f \in FunctionIds(m),
         NEW i \in DOMAIN Heights[m][f]
  PROVE  LET F == Function(m, f)
             I == F.code[i]
             h == Heights[m][f]
         IN /\ i \in 1 .. Len(F.code) /\ i \in Nat
            /\ I \in Instruction
            /\ h[i] \in Nat
            /\ OperandsOK(m, f, I)
            /\ Needs(I) <= h[i]
            /\ \A j \in Successors(I, i) :
                 j \in DOMAIN h /\ h[j] = h[i] - Needs(I) + Leaves(I)
<1> DEFINE F == Function(m, f)
           h == Heights[m][f]
<1>1. F.code \in Seq(Instruction)
  BY OneFunction DEF FunctionOK, Instruction
<1>2. i \in 1 .. Len(F.code)
  BY OneFunction DEF Certifies
<1>3. F.code[i] \in Instruction
  BY <1>1, <1>2
<1>q. QED BY <1>1, <1>2, <1>3, OneFunction DEF Certifies

\* The callee of a call: a function other than the script, with room for its
\* arguments among its locals, entered with no operands.
LEMMA OneCall ==
  ASSUME NEW m \in DOMAIN Modules, NEW f \in FunctionIds(m),
         NEW I \in Instruction, I.op = "Call", OperandsOK(m, f, I)
  PROVE  /\ I.a + 1 \in FunctionIds(m) /\ I.a + 1 # 0
         /\ Function(m, I.a + 1).local_count \in Nat
         /\ 1 \in DOMAIN Heights[m][I.a + 1]
         /\ Heights[m][I.a + 1][1] = 0
<1>1. I.a + 1 \in FunctionIds(m) /\ I.a + 1 # 0
  BY ModuleAssumption DEF OperandsOK, Instruction, FunctionIds
<1>q. QED BY <1>1, OneFunction DEF FunctionOK, Certifies

---------------------------------------------------------------------------
(* The invariant is inductive.                                             *)

LEMMA FrameInit == Init => FrameInv
<1> SUFFICES ASSUME Init PROVE FrameInv OBVIOUS
<1>1. 0 \in FunctionIds(prog) /\ Function(prog, 0) = Modules[prog].script
  BY ModuleAssumption DEF Init, FunctionIds, Function
<1>2. /\ Function(prog, 0).local_count \in Nat
      /\ 1 \in DOMAIN Heights[prog][0] /\ Heights[prog][0][1] = 0
  BY <1>1, OneFunction DEF Init, FunctionOK, Certifies
<1>3. /\ Len(frames) = 1 /\ frames[1] = Frame(0, 1, 0)
      /\ Top.fn = 0 /\ Top.ip = 1 /\ Top.base = 0
  BY DEF Init, Frame, Top
<1>4. FramesOK
  <2>1. Frame(0, 1, 0) \in FramesOf(prog)
    BY <1>1 DEF FramesOf, Frame
  <2>2. frames \in Seq(FramesOf(prog))
    BY <2>1 DEF Init
  <2>3. frames[1].fn = 0 /\ frames[1].base = 0
    BY <1>3 DEF Frame
  <2>q. QED BY <1>2, <1>3, <2>2, <2>3, <1>1, ModuleAssumption DEF Init, FramesOK
<1>5. CallersInOrder
  BY <1>3 DEF CallersInOrder
<1>6. TopInOrder
  <2>1. Height(Len(frames)) = 0 /\ LocalCount(Len(frames)) = depth /\ depth \in Nat
    BY <1>1, <1>2, <1>3 DEF Init, Height, LocalCount, Frame
  <2>q. QED BY <1>2, <1>3, <2>1 DEF TopInOrder
<1>q. QED BY <1>4, <1>5, <1>6 DEF FrameInv

\* The invariant's first part, in the words of the lemmas.
LEMMA Unfolded ==
  ASSUME FrameInv
  PROVE  /\ prog \in DOMAIN Modules /\ frames \in Seq(FramesOf(prog)) /\ depth \in Nat
         /\ MaxCallDepth \in Nat /\ Len(frames) \in 1 .. MaxCallDepth
         /\ Len(frames) \in Nat /\ Len(frames) > 0
         /\ Top \in FramesOf(prog)
BY ModuleAssumption DEF FrameInv, FramesOK, Top

\* What the invariant says of the frame that runs next.
LEMMA RunningFrame ==
  ASSUME FrameInv, running
  PROVE  /\ Top \in FramesOf(prog)
         /\ Len(frames) \in Nat /\ Len(frames) > 0
         /\ Ins \in Instruction
         /\ Height(Len(frames)) \in Nat /\ LocalCount(Len(frames)) \in Nat
         /\ Needs(Ins) \in Nat /\ Leaves(Ins) \in Nat
         /\ Needs(Ins) <= Height(Len(frames))
         /\ OperandsOK(prog, Top.fn, Ins)
<1>1. /\ Top \in FramesOf(prog)
      /\ Len(frames) \in Nat /\ Len(frames) > 0
  BY Unfolded
<1>2. prog \in DOMAIN Modules /\ Top.fn \in FunctionIds(prog)
        /\ Top.ip \in DOMAIN Heights[prog][Top.fn]
  BY <1>1, Unfolded DEF FrameInv, FramesOf, TopInOrder
<1>3. /\ Ins \in Instruction /\ Height(Len(frames)) \in Nat
      /\ Needs(Ins) <= Height(Len(frames)) /\ OperandsOK(prog, Top.fn, Ins)
  BY <1>2, OneAddress DEF Ins, Height, Top
<1>4. LocalCount(Len(frames)) \in Nat
  BY <1>2, OneFunction DEF LocalCount, FunctionOK, Top
<1>q. QED BY <1>1, <1>3, <1>4, StackEffect

\* What moving the running frame to instruction i makes of the frames.
LEMMA Moving ==
  ASSUME NEW m, frames \in Seq(FramesOf(m)), Len(frames) > 0, NEW i \in Nat
  PROVE  /\ MovedTo(i) \in Seq(FramesOf(m))
         /\ Len(MovedTo(i)) = Len(frames)
         /\ MovedTo(i)[Len(frames)] = Frame(Top.fn, i, Top.base)
         /\ \A k \in 1 .. Len(frames) - 1 : MovedTo(i)[k] = frames[k]
<1>1. Top \in FramesOf(m)
  BY DEF Top
<1>2. Frame(Top.fn, i, Top.base) \in FramesOf(m)
  BY <1>1 DEF FramesOf, Frame
<1>q. QED BY <1>2 DEF MovedTo

\* A machine whose frames keep their functions and bases keeps FramesOK.
LEMMA SameFrames ==
  ASSUME FrameInv, prog' = prog, running' \in BOOLEAN, depth' \in Nat,
         frames' \in Seq(FramesOf(prog)), Len(frames') \in 1 .. Len(frames),
         \A k \in 1 .. Len(frames') : /\ frames'[k].fn = frames[k].fn
                                      /\ frames'[k].base = frames[k].base
  PROVE  FramesOK'
BY ModuleAssumption DEF FrameInv, FramesOK

\* Callers below the running frame are left alone by what moves only that one.
LEMMA SameCallers ==
  ASSUME FrameInv, prog' = prog,
         Len(frames') \in Nat, Len(frames') <= Len(frames),
         \A k \in 1 .. Len(frames') - 1 : frames'[k] = frames[k],
         \A k \in 1 .. Len(frames') : frames'[k].base = frames[k].base
  PROVE  CallersInOrder'
<1>1. Len(frames) \in Nat BY ModuleAssumption DEF FrameInv, FramesOK
<1> SUFFICES ASSUME NEW k \in 1 .. Len(frames') - 1
             PROVE  /\ frames'[k].ip \in DOMAIN Heights[prog][frames'[k].fn]
                    /\ frames'[k + 1].base + 1 = frames'[k].base
                         + Function(prog, frames'[k].fn).local_count
                         + Heights[prog][frames'[k].fn][frames'[k].ip]
  BY DEF CallersInOrder, LocalCount, Height
<1>2. frames'[k] = frames[k] /\ frames'[k + 1].base = frames[k + 1].base
  OBVIOUS
<1>q. QED BY <1>1, <1>2 DEF FrameInv, CallersInOrder, LocalCount, Height

LEMMA StepKeeps == ASSUME FrameInv, Step PROVE FrameInv'
<1>1. PICK j \in Successors(Ins, Top.ip) : frames' = MovedTo(j)
  BY DEF Step
<1>2. /\ j \in DOMAIN Heights[prog][Top.fn] /\ j \in Nat
      /\ Heights[prog][Top.fn][j] = Height(Len(frames)) - Needs(Ins) + Leaves(Ins)
  <2>1. running /\ Top.fn \in FunctionIds(prog) /\ Top.ip \in DOMAIN Heights[prog][Top.fn]
    BY Unfolded DEF Step, FrameInv, TopInOrder, FramesOf
  <2>2. /\ j \in DOMAIN Heights[prog][Top.fn]
        /\ Heights[prog][Top.fn][j] = Height(Len(frames)) - Needs(Ins) + Leaves(Ins)
    BY <1>1, <2>1, Unfolded, OneAddress DEF Ins, Height, Top
  <2>q. QED BY <2>1, <2>2, Unfolded, OneAddress
<1>3. /\ frames' \in Seq(FramesOf(prog)) /\ Len(frames') = Len(frames)
      /\ frames'[Len(frames)] = Frame(Top.fn, j, Top.base)
      /\ \A k \in 1 .. Len(frames) - 1 : frames'[k] = frames[k]
  BY <1>1, <1>2, Unfolded, Moving
<1>4. /\ prog' = prog /\ running' = running
      /\ depth' = depth - Needs(Ins) + Leaves(Ins)
      /\ running /\ depth = Top.base + LocalCount(Len(frames)) + Height(Len(frames))
  BY DEF Step, FrameInv, TopInOrder
<1>5. \A k \in 1 .. Len(frames) : /\ frames'[k].fn = frames[k].fn
                                  /\ frames'[k].base = frames[k].base
  BY <1>3, Unfolded DEF Top, Frame
<1>num. /\ Top.base \in Nat /\ LocalCount(Len(frames)) \in Nat /\ Height(Len(frames)) \in Nat
        /\ Needs(Ins) \in Nat /\ Leaves(Ins) \in Nat /\ Needs(Ins) <= Height(Len(frames))
  <2>1. Top.base \in Nat BY Unfolded DEF FramesOf
  <2>q. QED BY <1>4, <2>1, RunningFrame
<1>6. FramesOK'
  <2>1. depth' \in Nat
    <3> DEFINE b == Top.base
               l == LocalCount(Len(frames))
               h == Height(Len(frames))
               k == Needs(Ins)
               e == Leaves(Ins)
    <3>1. depth' = depth - k + e /\ depth = b + l + h
      BY <1>4
    <3>2. b \in Nat /\ l \in Nat /\ h \in Nat /\ k \in Nat /\ e \in Nat /\ k <= h
      BY <1>num
    <3> HIDE DEF b, l, h, k, e
    <3>q. QED BY <3>1, <3>2
  <2>2. running' \in BOOLEAN BY <1>4 DEF FrameInv, FramesOK
  <2>q. QED BY <1>3, <1>4, <1>5, <2>1, <2>2, Unfolded, SameFrames
<1>7. CallersInOrder'
  BY <1>3, <1>4, <1>5, Unfolded, SameCallers
<1>8. TopInOrder'
  <2> DEFINE n == Len(frames)
  <2>1. Top' = Frame(Top.fn, j, Top.base) /\ Len(frames') = n
    BY <1>3 DEF Top
  <2>2. LocalCount(n)' = LocalCount(n)
    BY <1>3, <1>4, <2>1 DEF LocalCount, Frame, Top
  <2>3. Height(n)' = Height(n) - Needs(Ins) + Leaves(Ins)
    BY <1>2, <1>3, <1>4 DEF Height, Frame
  <2>4. depth' = Top.base + LocalCount(n)' + Height(n)'
    <3> DEFINE b == Top.base
               l == LocalCount(n)
               h == Height(n)
               k == Needs(Ins)
               e == Leaves(Ins)
    <3>1. depth' = depth - k + e /\ depth = b + l + h
      BY <1>4
    <3>2. b \in Nat /\ l \in Nat /\ h \in Nat /\ k \in Nat /\ e \in Nat
      BY <1>num
    <3> HIDE DEF b, l, h, k, e
    <3>3. depth' = b + l + (h - k + e)
      BY <3>1, <3>2
    <3>4. LocalCount(n)' = l /\ Height(n)' = h - k + e
      BY <2>2, <2>3 DEF l, h, k, e
    <3> HIDE DEF n
    <3>q. QED BY <3>3, <3>4, Zenon DEF b
  <2>5. j \in DOMAIN Heights[prog][Top.fn]
    BY <1>2
  <2> HIDE DEF n
  <2>q. QED BY <1>4, <2>1, <2>4, <2>5 DEF TopInOrder, Frame, n
<1>q. QED BY <1>6, <1>7, <1>8 DEF FrameInv

LEMMA CallKeeps == ASSUME FrameInv, Call PROVE FrameInv'
<1> DEFINE callee == Ins.a + 1
           base   == depth - Ins.b
           after  == MovedTo(Top.ip + 1)
<1>1. /\ running /\ Ins \in Instruction /\ Ins.op = "Call"
      /\ OperandsOK(prog, Top.fn, Ins)
      /\ Needs(Ins) <= Height(Len(frames))
      /\ Height(Len(frames)) \in Nat /\ LocalCount(Len(frames)) \in Nat
  BY RunningFrame DEF Call
<1>2. Needs(Ins) = Ins.b /\ Leaves(Ins) = 1 /\ Successors(Ins, Top.ip) = {Top.ip + 1}
  BY <1>1 DEF Needs, Leaves, Successors, PushOps, IntUnaryOps, PeekJumps, ReturnOps
<1>3. Ins.b \in Nat /\ Ins.a \in Nat
  BY <1>1 DEF Instruction
<1>4. Top.base \in Nat /\ Top.ip \in Nat /\ Top.fn \in FunctionIds(prog)
  BY Unfolded DEF FramesOf
<1>5. /\ Top.ip + 1 \in DOMAIN Heights[prog][Top.fn]
      /\ Heights[prog][Top.fn][Top.ip + 1] = Height(Len(frames)) - Ins.b + 1
  <2>1. Top.ip \in DOMAIN Heights[prog][Top.fn]
    BY <1>1 DEF FrameInv, TopInOrder
  <2>q. QED BY <1>2, <1>4, <2>1, Unfolded, OneAddress DEF Ins, Height, Top
<1>6. /\ callee \in FunctionIds(prog) /\ callee # 0
      /\ Function(prog, callee).local_count \in Nat
      /\ 1 \in DOMAIN Heights[prog][callee] /\ Heights[prog][callee][1] = 0
  BY <1>1, <1>4, Unfolded, OneCall
<1>7. /\ depth = Top.base + LocalCount(Len(frames)) + Height(Len(frames))
      /\ base = Top.base + LocalCount(Len(frames)) + Height(Len(frames)) - Ins.b
      /\ base \in Nat
  <2> DEFINE b == Top.base
             l == LocalCount(Len(frames))
             h == Height(Len(frames))
             k == Ins.b
  <2>1. depth = b + l + h
    BY <1>1 DEF FrameInv, TopInOrder
  <2>2. b \in Nat /\ l \in Nat /\ h \in Nat /\ k \in Nat /\ k <= h
    BY <1>1, <1>2, <1>3, <1>4
  <2> HIDE DEF b, l, h, k
  <2>3. depth - k = b + l + h - k /\ depth - k \in Nat
    BY <2>1, <2>2
  <2>q. QED BY <2>1, <2>3 DEF b, l, h, k
<1>8. /\ Len(frames) < MaxCallDepth /\ prog' = prog /\ running' = running
      /\ depth' = base + Function(prog, callee).local_count
      /\ frames' = Append(after, Frame(callee, 1, base))
  BY DEF Call
<1>9. /\ after \in Seq(FramesOf(prog)) /\ Len(after) = Len(frames)
      /\ after[Len(frames)] = Frame(Top.fn, Top.ip + 1, Top.base)
      /\ \A k \in 1 .. Len(frames) - 1 : after[k] = frames[k]
  BY <1>4, Unfolded, Moving
<1>10. Frame(callee, 1, base) \in FramesOf(prog)
  BY <1>6, <1>7 DEF FramesOf, Frame
<1> HIDE DEF callee, base, after
<1>11. /\ frames' \in Seq(FramesOf(prog)) /\ Len(frames') = Len(frames) + 1
       /\ frames'[Len(frames) + 1] = Frame(callee, 1, base)
       /\ frames'[Len(frames)] = Frame(Top.fn, Top.ip + 1, Top.base)
       /\ \A k \in 1 .. Len(frames) - 1 : frames'[k] = frames[k]
  BY <1>8, <1>9, <1>10, Unfolded
<1>12. \A k \in 1 .. Len(frames) : /\ frames'[k].fn = frames[k].fn
                                   /\ frames'[k].base = frames[k].base
  BY <1>11, Unfolded DEF Top, Frame
<1>13. FramesOK'
  <2>1. \A k \in 1 .. Len(frames') : frames'[k].fn = 0 <=> k = 1
    <3> SUFFICES ASSUME NEW k \in 1 .. Len(frames') PROVE frames'[k].fn = 0 <=> k = 1
      OBVIOUS
    <3>1. CASE k = Len(frames) + 1
      BY <1>6, <1>11, <3>1, Unfolded DEF Frame
    <3>2. CASE k \in 1 .. Len(frames)
      BY <1>12, <3>2 DEF FrameInv, FramesOK
    <3>q. QED BY <1>11, <3>1, <3>2, Unfolded
  <2>2. frames'[1].base = 0
    BY <1>12, Unfolded DEF FrameInv, FramesOK
  <2>3. depth' \in Nat /\ running' \in BOOLEAN
    BY <1>6, <1>7, <1>8 DEF FrameInv, FramesOK
  <2>4. Len(frames') \in 1 .. MaxCallDepth
    BY <1>8, <1>11, Unfolded
  <2>q. QED BY <1>8, <1>11, <2>1, <2>2, <2>3, <2>4, Unfolded DEF FramesOK
<1>14. CallersInOrder'
  <2> SUFFICES ASSUME NEW k \in 1 .. Len(frames)
               PROVE  /\ frames'[k].ip \in DOMAIN Heights[prog][frames'[k].fn]
                      /\ frames'[k + 1].base + 1 = frames'[k].base
                           + Function(prog, frames'[k].fn).local_count
                           + Heights[prog][frames'[k].fn][frames'[k].ip]
    BY <1>8, <1>11, Unfolded DEF CallersInOrder, LocalCount, Height
  <2>1. CASE k = Len(frames)
    <3>1. /\ frames'[k].fn = Top.fn /\ frames'[k].ip = Top.ip + 1
          /\ frames'[k].base = Top.base /\ frames'[k + 1].base = base
      BY <1>11, <2>1 DEF Frame
    <3>2. Function(prog, Top.fn).local_count = LocalCount(Len(frames))
      BY DEF LocalCount, Top
    <3>3. base + 1 = Top.base + LocalCount(Len(frames))
                       + (Height(Len(frames)) - Ins.b + 1)
      <4> DEFINE b == Top.base
                 l == LocalCount(Len(frames))
                 h == Height(Len(frames))
                 n == Ins.b
      <4>1. b \in Nat /\ l \in Nat /\ h \in Nat /\ n \in Nat /\ base = b + l + h - n
        BY <1>1, <1>3, <1>4, <1>7
      <4> HIDE DEF b, l, h, n
      <4>2. base + 1 = b + l + (h - n + 1)
        BY <4>1
      <4>q. QED BY <4>2 DEF b, l, h, n
    <3>q. QED BY <1>5, <3>1, <3>2, <3>3
  <2>2. CASE k \in 1 .. Len(frames) - 1
    <3>1. frames'[k] = frames[k] /\ frames'[k + 1].base = frames[k + 1].base
      <4>1. k \in 1 .. Len(frames) /\ k + 1 \in 1 .. Len(frames)
        BY <2>2, Unfolded
      <4>q. QED BY <1>11, <1>12, <2>2, <4>1
    <3>q. QED BY <2>2, <3>1 DEF FrameInv, CallersInOrder, LocalCount, Height
  <2>q. QED BY <2>1, <2>2, Unfolded
<1>15. TopInOrder'
  <2>1. Top' = Frame(callee, 1, base)
    BY <1>11 DEF Top
  <2>2. LocalCount(Len(frames))' = Function(prog, callee).local_count
    BY <1>8, <1>11 DEF LocalCount, Frame
  <2>3. Height(Len(frames))' = 0
    BY <1>6, <1>8, <1>11 DEF Height, Frame
  <2>q. QED BY <1>6, <1>7, <1>8, <2>1, <2>2, <2>3 DEF TopInOrder, Frame
<1>q. QED BY <1>13, <1>14, <1>15 DEF FrameInv

LEMMA ReturnKeeps == ASSUME FrameInv, Return PROVE FrameInv'
<1>1. /\ Len(frames) > 1 /\ prog' = prog /\ running' = running /\ running
      /\ frames' = SubSeq(frames, 1, Len(frames) - 1) /\ depth' = Top.base + 1
  BY DEF Return
<1>2. /\ frames' \in Seq(FramesOf(prog)) /\ Len(frames') = Len(frames) - 1
      /\ \A k \in 1 .. Len(frames) - 1 : frames'[k] = frames[k]
  BY <1>1, Unfolded
<1>3. FramesOK'
  <2>1. depth' \in Nat BY <1>1, Unfolded DEF FramesOf
  <2>2. running' \in BOOLEAN BY <1>1
  <2>q. QED BY <1>1, <1>2, <2>1, <2>2, Unfolded, SameFrames
<1>4. CallersInOrder'
  BY <1>1, <1>2, Unfolded, SameCallers
<1>5. TopInOrder'
  <2> DEFINE k == Len(frames) - 1
  <2>1. k \in 1 .. Len(frames) - 1 /\ Len(frames') = k /\ frames'[k] = frames[k]
    BY <1>1, <1>2, Unfolded
  <2>2. /\ frames[k].ip \in DOMAIN Heights[prog][frames[k].fn]
        /\ frames[k + 1].base + 1 = frames[k].base + LocalCount(k) + Height(k)
    BY <2>1 DEF FrameInv, CallersInOrder
  <2>3. depth' = frames[k + 1].base + 1
    BY <1>1, Unfolded DEF Top
  <2>q. QED BY <1>1, <2>1, <2>2, <2>3 DEF TopInOrder, Top, LocalCount, Height
<1>q. QED BY <1>3, <1>4, <1>5 DEF FrameInv

LEMMA StopKeeps == ASSUME FrameInv, Stop PROVE FrameInv'
<1>1. /\ running' = FALSE /\ prog' = prog /\ depth' = depth
      /\ frames' = MovedTo(Top.ip + 1)
  BY DEF Stop
<1>2. Top.ip + 1 \in Nat
  BY Unfolded DEF FramesOf
<1>3. /\ frames' \in Seq(FramesOf(prog)) /\ Len(frames') = Len(frames)
      /\ frames'[Len(frames)] = Frame(Top.fn, Top.ip + 1, Top.base)
      /\ \A k \in 1 .. Len(frames) - 1 : frames'[k] = frames[k]
  BY <1>1, <1>2, Unfolded, Moving
<1>4. \A k \in 1 .. Len(frames) : /\ frames'[k].fn = frames[k].fn
                                  /\ frames'[k].base = frames[k].base
  BY <1>3, Unfolded DEF Top, Frame
<1>5. FramesOK'
  <2>1. depth' \in Nat /\ running' \in BOOLEAN
    BY <1>1, Unfolded
  <2>q. QED BY <1>1, <1>3, <1>4, <2>1, Unfolded, SameFrames
<1>6. CallersInOrder'
  BY <1>1, <1>3, <1>4, Unfolded, SameCallers
<1>7. TopInOrder'
  BY <1>1 DEF TopInOrder
<1>q. QED BY <1>5, <1>6, <1>7 DEF FrameInv

LEMMA FrameNext == FrameInv /\ [Next]_vars => FrameInv'
<1> SUFFICES ASSUME FrameInv, [Next]_vars PROVE FrameInv' OBVIOUS
<1>1. CASE Step   BY <1>1, StepKeeps
<1>2. CASE Call   BY <1>2, CallKeeps
<1>3. CASE Return BY <1>3, ReturnKeeps
<1>4. CASE Stop   BY <1>4, StopKeeps
<1>5. CASE UNCHANGED vars
  BY <1>5 DEF vars, FrameInv, FramesOK, CallersInOrder, TopInOrder, Top, LocalCount, Height
<1>q. QED BY <1>1, <1>2, <1>3, <1>4, <1>5 DEF Next

\* Frames stay in order, from the script's up to the running one.
THEOREM FrameInvariant == Spec => []FrameInv
<1>1. Init => FrameInv BY FrameInit
<1>2. FrameInv /\ [Next]_vars => FrameInv' BY FrameNext
<1>q. QED BY <1>1, <1>2, PTL DEF Spec

\* Nothing the machine runs reaches below its operands or outside its code.
THEOREM Discipline == Spec => []Disciplined
<1>1. FrameInv => Disciplined
  <2> SUFFICES ASSUME FrameInv PROVE Disciplined OBVIOUS
  <2>1. Len(frames) <= MaxCallDepth
    BY ModuleAssumption DEF FrameInv, FramesOK
  <2>2. ASSUME running
        PROVE  /\ Top.ip \in 1 .. Len(Function(prog, Top.fn).code)
               /\ OperandsOK(prog, Top.fn, Ins)
               /\ Needs(Ins) <= depth - (Top.base + LocalCount(Len(frames)))
    <3>1. /\ Top.ip \in DOMAIN Heights[prog][Top.fn]
          /\ depth = Top.base + LocalCount(Len(frames)) + Height(Len(frames))
      BY <2>2 DEF FrameInv, TopInOrder
    <3>2. Top.fn \in FunctionIds(prog) /\ Top.base \in Nat
      BY Unfolded DEF FramesOf
    <3>3. Top.ip \in 1 .. Len(Function(prog, Top.fn).code)
      BY <3>1, <3>2, Unfolded, OneAddress
    <3>4. Needs(Ins) <= depth - (Top.base + LocalCount(Len(frames)))
      BY <2>2, <3>1, <3>2, RunningFrame
    <3>q. QED BY <2>2, <3>3, <3>4, RunningFrame
  <2>q. QED BY <2>1, <2>2 DEF Disciplined
<1>q. QED BY <1>1, FrameInvariant, PTL

---------------------------------------------------------------------------
(* Where a frame stopped.                                                  *)

\* The instruction before a frame's next one is one of its function's.
Behind(k) == frames[k].ip - 1 \in 1 .. Len(Function(prog, frames[k].fn).code)

\* What a caller, or a machine that has stopped, executed last stands right before
\* the ip of its frame.
Advanced ==
  /\ \A k \in 1 .. Len(frames) - 1 : Behind(k)
  /\ ~running => Behind(Len(frames))

\* The running frame is moved to behind its instruction, the others stay.
LEMMA MovedOn ==
  ASSUME FrameInv, running, NEW g, g = MovedTo(Top.ip + 1)
  PROVE  /\ Len(g) = Len(frames)
         /\ \A k \in 1 .. Len(frames) - 1 : g[k] = frames[k]
         /\ g[Len(frames)].fn = Top.fn
         /\ g[Len(frames)].ip - 1 \in 1 .. Len(Function(prog, Top.fn).code)
<1>1. /\ prog \in DOMAIN Modules /\ Top.fn \in FunctionIds(prog)
      /\ Top.ip \in DOMAIN Heights[prog][Top.fn]
  BY Unfolded DEF FrameInv, FramesOf, TopInOrder
<1>2. Top.ip \in 1 .. Len(Function(prog, Top.fn).code) /\ Top.ip \in Nat
  BY <1>1, OneAddress
<1>3. /\ Len(MovedTo(Top.ip + 1)) = Len(frames)
      /\ MovedTo(Top.ip + 1)[Len(frames)] = Frame(Top.fn, Top.ip + 1, Top.base)
      /\ \A k \in 1 .. Len(frames) - 1 : MovedTo(Top.ip + 1)[k] = frames[k]
  <2>1. Top.ip + 1 \in Nat
    BY <1>2
  <2>q. QED BY <2>1, Unfolded, Moving
<1>4. (Top.ip + 1) - 1 = Top.ip
  BY <1>2
<1>q. QED BY <1>2, <1>3, <1>4 DEF Frame

LEMMA AdvancedNext == FrameInv /\ Advanced /\ [Next]_vars => Advanced'
<1> SUFFICES ASSUME FrameInv, Advanced, [Next]_vars PROVE Advanced' OBVIOUS
<1>0. Len(frames) \in Nat /\ Len(frames) > 0
  BY Unfolded
<1>1. CASE Step
  <2>1. /\ running' = running /\ running /\ prog' = prog
        /\ \E j : frames' = MovedTo(j)
    BY <1>1 DEF Step
  <2>2. Len(frames') = Len(frames) /\ \A k \in 1 .. Len(frames) - 1 : frames'[k] = frames[k]
    BY <2>1, Unfolded DEF MovedTo
  <2>q. QED BY <2>1, <2>2 DEF Advanced, Behind
<1>2. CASE Call
  <2> DEFINE g == MovedTo(Top.ip + 1)
  <2>1. running' = running /\ running /\ prog' = prog /\ \E c : frames' = Append(g, c)
    BY <1>2 DEF Call
  <2>2. /\ Len(g) = Len(frames) /\ \A k \in 1 .. Len(frames) - 1 : g[k] = frames[k]
        /\ g[Len(frames)].fn = Top.fn
        /\ g[Len(frames)].ip - 1 \in 1 .. Len(Function(prog, Top.fn).code)
    BY <2>1, MovedOn
  <2>3. g \in Seq(FramesOf(prog))
    <3>1. Top.ip + 1 \in Nat
      BY Unfolded DEF FramesOf
    <3>q. QED BY <3>1, Unfolded, Moving
  <2> HIDE DEF g
  <2>4. Len(frames') = Len(frames) + 1 /\ \A k \in 1 .. Len(frames) : frames'[k] = g[k]
    BY <2>1, <2>2, <2>3
  <2>5. ASSUME NEW k \in 1 .. Len(frames)
        PROVE  g[k].ip - 1 \in 1 .. Len(Function(prog, g[k].fn).code)
    <3>1. CASE k = Len(frames)
      BY <2>2, <3>1
    <3>2. CASE k # Len(frames)
      <4>1. k \in 1 .. Len(frames) - 1
        BY <1>0, <3>2
      <4>q. QED BY <2>2, <4>1 DEF Advanced, Behind
    <3>q. QED BY <3>1, <3>2
  <2>6. 1 .. Len(frames') - 1 = 1 .. Len(frames)
    BY <1>0, <2>4
  <2>q. QED BY <2>1, <2>4, <2>5, <2>6 DEF Advanced, Behind
<1>3. CASE Return
  <2>1. /\ running' = running /\ running /\ prog' = prog
        /\ frames' = SubSeq(frames, 1, Len(frames) - 1) /\ Len(frames) > 1
    BY <1>3 DEF Return
  <2>2. /\ Len(frames') = Len(frames) - 1 /\ frames' \in Seq(FramesOf(prog))
        /\ \A k \in 1 .. Len(frames) - 1 : frames'[k] = frames[k]
    BY <2>1, Unfolded
  <2>3. 1 .. Len(frames') - 1 \subseteq 1 .. Len(frames) - 1
    BY <1>0, <2>2
  <2>q. QED BY <2>1, <2>2, <2>3 DEF Advanced, Behind
<1>4. CASE Stop
  <2>1. running /\ prog' = prog /\ frames' = MovedTo(Top.ip + 1)
    BY <1>4 DEF Stop
  <2>2. /\ Len(frames') = Len(frames) /\ \A k \in 1 .. Len(frames) - 1 : frames'[k] = frames[k]
        /\ frames'[Len(frames)].fn = Top.fn
        /\ frames'[Len(frames)].ip - 1 \in 1 .. Len(Function(prog, Top.fn).code)
    BY <2>1, MovedOn
  <2>q. QED BY <2>1, <2>2 DEF Advanced, Behind
<1>5. CASE UNCHANGED vars
  BY <1>5 DEF vars, Advanced, Behind
<1>q. QED BY <1>1, <1>2, <1>3, <1>4, <1>5 DEF Next

LEMMA AdvancedInit == Init => Advanced
  BY DEF Init, Advanced

\* Each caller, and the frame in which the machine stopped, has its ip right behind an
\* instruction of its function: the one that VM::report looks up.
THEOREM IpBehindInstruction == Spec => []Advanced
<1>1. FrameInv /\ Advanced /\ [Next]_vars => Advanced' BY AdvancedNext
<1>q. QED BY <1>1, AdvancedInit, FrameInvariant, PTL DEF Spec
=============================================================================
