--------------------------- MODULE FireVMProofs ---------------------------
(***************************************************************************)
(* The virtual machine keeps its types and its calling convention, for     *)
(* every module whose functions have certificates, every width of the      *)
(* integers and every limit on the depth of calls.                         *)
(*                                                                         *)
(* The types alone are not inductive: RETURN cuts the stack at the base of *)
(* the frame, and only the order of the frames (FireFramesProofs) says     *)
(* that the base lies within the stack. The two are proved together.       *)
(***************************************************************************)
EXTENDS FireRefinement, SequenceTheorems, TLAPS

\* The proofs about the calling convention, read at this machine.
P == INSTANCE FireFramesProofs WITH
       depth   <- Len(stack),
       running <- status = "running"

---------------------------------------------------------------------------
(* Values.                                                                 *)

\* What the tag of a value says of its payload.
LEMMA Payloads ==
  ASSUME NEW n \in Nat, NEW x \in ValueUpTo(n)
  PROVE  /\ Tag(x) \in {"int", "float", "bool", "str", "array"}
         /\ Tag(x) = "int"   => Payload(x) \in IntRange
         /\ Tag(x) = "bool"  => Payload(x) \in BOOLEAN
         /\ Tag(x) = "str"   => Payload(x) \in Seq(Nat)
         /\ Tag(x) = "array" => Payload(x) \in 1 .. n
BY DEF ValueUpTo, Tag, Payload

\* The constructors make values.
LEMMA Constructed ==
  ASSUME NEW n \in Nat
  PROVE  /\ \A i \in IntRange : IntV(i) \in ValueUpTo(n)
         /\ \A i \in FloatVals : FloatV(i) \in ValueUpTo(n)
         /\ \A b : BoolV(b) \in ValueUpTo(n)
         /\ \A s \in Seq(Nat) : StrV(s) \in ValueUpTo(n)
         /\ \A r \in 1 .. n : ArrayV(r) \in ValueUpTo(n)
         /\ IntV(0) \in ValueUpTo(n)
<1>1. 0 \in IntRange /\ \A i \in FloatVals : i \in Int
  BY ValueAssumption DEF IntRange
<1>q. QED BY <1>1 DEF ValueUpTo, IntV, FloatV, BoolV, StrV, ArrayV

\* A value stays one when arrays are added.
LEMMA MoreArrays ==
  ASSUME NEW n \in Nat, NEW m \in Nat, n <= m
  PROVE  ValueUpTo(n) \subseteq ValueUpTo(m)
BY DEF ValueUpTo

LEMMA SeqMoreArrays ==
  ASSUME NEW n \in Nat, NEW m \in Nat, n <= m
  PROVE  Seq(ValueUpTo(n)) \subseteq Seq(ValueUpTo(m))
BY MoreArrays, SeqMonotonic

\* An array whose elements exist may be put in the heap, in an old place or a
\* new one.
LEMMA HeapUpdate ==
  ASSUME NEW h, HeapOK(h), NEW r \in 1 .. Len(h), NEW s \in Seq(ValueUpTo(Len(h)))
  PROVE  LET g == [h EXCEPT ![r] = s] IN HeapOK(g) /\ Len(g) = Len(h)
<1> DEFINE V == ValueUpTo(Len(h))
<1>1. h \in Seq(Seq(V))
  BY DEF HeapOK
<1>2. s \in Seq(V)
  OBVIOUS
<1> HIDE DEF V
<1>3. [h EXCEPT ![r] = s] \in Seq(Seq(V)) /\ Len([h EXCEPT ![r] = s]) = Len(h)
  BY <1>1, <1>2
<1>q. QED BY <1>3 DEF HeapOK, V

LEMMA HeapAppend ==
  ASSUME NEW h, HeapOK(h), NEW s \in Seq(ValueUpTo(Len(h)))
  PROVE  LET g == Append(h, s) IN HeapOK(g) /\ Len(g) = Len(h) + 1
<1> DEFINE V == ValueUpTo(Len(h))
           W == ValueUpTo(Len(h) + 1)
<1>1. h \in Seq(Seq(V)) /\ Len(h) \in Nat
  BY DEF HeapOK
<1>2. Seq(V) \subseteq Seq(W)
  BY <1>1, SeqMoreArrays
<1>3. s \in Seq(W)
  BY <1>2
<1>4. h \in Seq(Seq(W))
  BY <1>1, <1>2, SeqMonotonic
<1> HIDE DEF V, W
<1>5. Append(h, s) \in Seq(Seq(W)) /\ Len(Append(h, s)) = Len(h) + 1
  BY <1>3, <1>4
<1>q. QED BY <1>5 DEF HeapOK, W

---------------------------------------------------------------------------
(* Builtins.                                                               *)

\* An outcome that is a value leaves arrays behind that hold values, at least
\* as many as before, and a value of one of them; any other has a status.
GoodOutcome(r, h) ==
  /\ r.kind = "value" =>
       /\ HeapOK(r.heap) /\ Len(r.heap) \in Nat /\ Len(r.heap) >= Len(h)
       /\ r.value \in ValueUpTo(Len(r.heap))
  /\ r.kind # "value" => r.kind \in {"exited", "failed", "internal"} /\ r.code \in Nat

\* The builtins that are modelled, and how many arguments they take.
LEMMA Arities ==
  ASSUME NEW name, NEW k \in Nat, k \in NativeArity(name)
  PROVE  /\ name \in {"print", "println", "len", "push", "pop", "insert", "remove", "slice",
                       "abs", "min", "max", "exit", "assert", "panic"}
         /\ name \notin {"print", "println"} => k >= 1
         /\ name \in {"push", "remove", "min", "max", "insert", "slice"} => k >= 2
         /\ name \in {"insert", "slice"} => k >= 3
BY DEF NativeArity

\* What an outcome must be when it returns v and leaves h.
LEMMA ValueOutcome ==
  ASSUME NEW h, NEW g, HeapOK(h), HeapOK(g), Len(g) >= Len(h),
         NEW v \in ValueUpTo(Len(g)), NEW o, NEW r, r = Outcome("value", v, g, o, 0)
  PROVE  GoodOutcome(r, h)
<1>1. Len(g) \in Nat
  BY DEF HeapOK
<1>q. QED BY <1>1 DEF GoodOutcome, Outcome

\* The tags that ArgumentsOK asks for, one argument at a time.
LEMMA ArgumentTags ==
  ASSUME NEW name, NEW S, NEW args \in Seq(S), Len(args) \in NativeArity(name),
         ArgumentsOK(name, args)
  PROVE  /\ name = "len" => Tag(args[1]) \in {"str", "array"}
         /\ name \in {"push", "pop", "insert", "remove"} => Tag(args[1]) = "array"
         /\ name \in {"insert", "remove"} => Tag(args[2]) = "int"
         /\ name = "slice" => /\ Tag(args[1]) \in {"str", "array"}
                             /\ Tag(args[2]) = "int" /\ Tag(args[3]) = "int"
         /\ name = "abs" => Tag(args[1]) \in {"int", "float"}
         /\ name \in {"min", "max"} =>
              \/ Tag(args[1]) = "int" /\ Tag(args[2]) = "int"
              \/ Tag(args[1]) = "float" /\ Tag(args[2]) = "float"
         /\ name = "exit" => Tag(args[1]) = "int"
<1> DEFINE Tags == [i \in 1 .. Len(args) |-> Tag(args[i])]
<1>1. Len(args) \in Nat
  OBVIOUS
<1>2. /\ name \notin {"print", "println"} => 1 \in DOMAIN Tags
      /\ name \in {"push", "remove", "min", "max", "insert", "slice"} => 2 \in DOMAIN Tags
      /\ name \in {"insert", "slice"} => 3 \in DOMAIN Tags
  BY <1>1, Arities
<1>3. \A i \in DOMAIN Tags : Tags[i] = Tag(args[i])
  OBVIOUS
<1>4. name \in {"min", "max"} =>
        \/ Tag(args[1]) = "int" /\ Tag(args[2]) = "int"
        \/ Tag(args[1]) = "float" /\ Tag(args[2]) = "float"
  <2>1. name \in {"min", "max"} => Tags \in {<<"int", "int">>, <<"float", "float">>}
    BY DEF ArgumentsOK
  <2> HIDE DEF Tags
  <2>q. QED BY <1>2, <1>3, <2>1
<1>5. /\ name \in {"len", "slice"} => Tags[1] \in {"str", "array"}
      /\ name \in {"push", "pop", "insert", "remove"} => Tags[1] = "array"
      /\ name \in {"insert", "remove", "slice"} => Tags[2] = "int"
      /\ name = "slice"  => Tags[3] = "int"
      /\ name = "abs"    => Tags[1] \in {"int", "float"}
      /\ name = "exit"   => Tags[1] = "int"
  BY DEF ArgumentsOK
<1> HIDE DEF Tags
<1>q. QED BY <1>2, <1>3, <1>4, <1>5

\* What Clamp bounds.
LEMMA Clamped ==
  ASSUME NEW i \in Int, NEW n \in Nat
  PROVE  Clamp(i, n) \in 0 .. n
BY DEF Clamp

\* The parts of a sequence that the array builtins make.
LEMMA Parts ==
  ASSUME NEW S, NEW s \in Seq(S)
  PROVE  /\ \A m \in 0 .. Len(s), n \in 0 .. Len(s) : SubSeq(s, m + 1, n) \in Seq(S)
         /\ \A i \in 0 .. Len(s), x \in S : InsertElement(s, i, x) \in Seq(S)
         /\ \A i \in 0 .. Len(s) - 1 : RemoveElement(s, i) \in Seq(S)
<1>1. Len(s) \in Nat /\ \A i \in 1 .. Len(s) : s[i] \in S
  OBVIOUS
<1>2. ASSUME NEW m \in Nat, m > 0, NEW n \in 0 .. Len(s)
      PROVE  SubSeq(s, m, n) \in Seq(S)
  BY <1>1, <1>2, SubSeqProperties
<1>3. ASSUME NEW i \in 0 .. Len(s), NEW x \in S PROVE InsertElement(s, i, x) \in Seq(S)
  <2>1. SubSeq(s, 1, i) \in Seq(S) /\ SubSeq(s, i + 1, Len(s)) \in Seq(S) /\ <<x>> \in Seq(S)
    BY <1>1, <1>2
  <2>q. QED BY <2>1, ConcatProperties DEF InsertElement
<1>4. ASSUME NEW i \in 0 .. Len(s) - 1 PROVE RemoveElement(s, i) \in Seq(S)
  <2>1. SubSeq(s, 1, i) \in Seq(S) /\ SubSeq(s, i + 2, Len(s)) \in Seq(S)
    BY <1>1, <1>2
  <2>q. QED BY <2>1, ConcatProperties DEF RemoveElement
<1>5. ASSUME NEW m \in 0 .. Len(s), NEW n \in 0 .. Len(s) PROVE SubSeq(s, m + 1, n) \in Seq(S)
  BY <1>1, <1>2
<1>q. QED BY <1>3, <1>4, <1>5

\* A builtin that returns leaves only arrays of values behind, and returns a
\* value: invoke_native never hands out a reference to no array.
LEMMA NativeReturnsGood ==
  ASSUME NEW h, HeapOK(h), NEW o, NEW name, NEW args \in Seq(ValueUpTo(Len(h))),
         Len(args) \in NativeArity(name), ArgumentsOK(name, args), ~NativeFault(name, args, h),
         NEW r \in NativeReturns(name, args, h, o)
  PROVE  GoodOutcome(r, h)
<1> DEFINE V      == ValueUpTo(Len(h))
           first  == Payload(args[1])
           second == Payload(args[2])
<1>1. h \in Seq(Seq(V)) /\ Len(h) \in Nat /\ IntV(0) \in V
  BY Constructed DEF HeapOK
<1>2. /\ name \notin {"print", "println"} => args[1] \in V
      /\ name \in {"push", "remove", "min", "max", "insert", "slice"} => args[2] \in V
      /\ name \in {"insert", "slice"} => args[3] \in V
  BY Arities
<1>pure. ASSUME NEW v \in V, r = Outcome("value", v, h, o, 0) PROVE GoodOutcome(r, h)
  BY <1>1, <1>pure, ValueOutcome
<1>upd. ASSUME NEW v \in V, NEW a \in 1 .. Len(h), NEW s \in Seq(V),
               r = Outcome("value", v, [h EXCEPT ![a] = s], o, 0)
        PROVE  GoodOutcome(r, h)
  <2> DEFINE g == [h EXCEPT ![a] = s]
  <2>1. HeapOK(g) /\ Len(g) = Len(h)
    BY HeapUpdate
  <2>2. v \in ValueUpTo(Len(g))
    BY <2>1
  <2>3. r = Outcome("value", v, g, o, 0)
    BY <1>upd
  <2> HIDE DEF g
  <2>q. QED BY <1>1, <2>1, <2>2, <2>3, ValueOutcome
<1>arr. ASSUME name \notin {"print", "println"}, Tag(args[1]) = "array"
        PROVE  first \in 1 .. Len(h) /\ h[first] \in Seq(V) /\ Len(h[first]) \in Nat
  <2>1. first \in 1 .. Len(h)
    BY <1>arr, <1>1, <1>2, Payloads
  <2>q. QED BY <1>1, <2>1
<1>int. ASSUME NEW i \in {2, 3}, args[i] \in V, Tag(args[i]) = "int" PROVE Payload(args[i]) \in Int
  BY <1>int, <1>1, Payloads, ValueAssumption DEF IntRange
<1> HIDE DEF V
<1>3. CASE name \in {"print", "println"}
  <2>1. PICK shown : r = Outcome("value", IntV(0), h, shown, 0)
    BY <1>3 DEF NativeReturns
  <2>q. QED BY <1>1, <2>1, ValueOutcome DEF V
<1>4. CASE name = "len"
  <2>1. PICK n \in IntRange : r = Outcome("value", IntV(n), h, o, 0)
    BY <1>4 DEF NativeReturns
  <2>q. QED BY <1>1, <1>pure, <2>1, Constructed DEF V
<1>5. CASE name = "push"
  <2>1. r = Outcome("value", IntV(0), [h EXCEPT ![first] = Append(h[first], args[2])], o, 0)
    BY <1>5 DEF NativeReturns
  <2>2. first \in 1 .. Len(h) /\ Append(h[first], args[2]) \in Seq(V)
    BY <1>5, <1>2, <1>arr, ArgumentTags
  <2>q. QED BY <1>1, <1>upd, <2>1, <2>2
<1>6. CASE name = "pop"
  <2>1. r = Outcome("value", h[first][Len(h[first])],
                    [h EXCEPT ![first] = SubSeq(h[first], 1, Len(h[first]) - 1)], o, 0)
    BY <1>6 DEF NativeReturns
  <2>2. first \in 1 .. Len(h) /\ h[first] \in Seq(V) /\ Len(h[first]) \in Nat
    BY <1>6, <1>arr, ArgumentTags
  <2>3. h[first] # <<>>
    BY <1>6 DEF NativeFault
  <2>4. h[first][Len(h[first])] \in V /\ SubSeq(h[first], 1, Len(h[first]) - 1) \in Seq(V)
    BY <2>2, <2>3, SubSeqProperties
  <2>q. QED BY <1>upd, <2>1, <2>2, <2>4
<1>7. CASE name = "insert"
  <2>1. r = Outcome("value", IntV(0),
                    [h EXCEPT ![first] = InsertElement(h[first], second, args[3])], o, 0)
    BY <1>7 DEF NativeReturns
  <2>2. first \in 1 .. Len(h) /\ h[first] \in Seq(V) /\ second \in 0 .. Len(h[first])
    BY <1>7, <1>arr, ArgumentTags DEF NativeFault
  <2>3. InsertElement(h[first], second, args[3]) \in Seq(V)
    BY <1>2, <1>7, <2>2, Parts
  <2>q. QED BY <1>1, <1>upd, <2>1, <2>2, <2>3
<1>8. CASE name = "remove"
  <2>1. r = Outcome("value", h[first][second + 1],
                    [h EXCEPT ![first] = RemoveElement(h[first], second)], o, 0)
    BY <1>8 DEF NativeReturns
  <2>2. /\ first \in 1 .. Len(h) /\ h[first] \in Seq(V) /\ Len(h[first]) \in Nat
        /\ second \in 0 .. Len(h[first]) - 1
    BY <1>8, <1>arr, ArgumentTags DEF NativeFault
  <2>3. RemoveElement(h[first], second) \in Seq(V) /\ h[first][second + 1] \in V
    BY <2>2, Parts
  <2>q. QED BY <1>upd, <2>1, <2>2, <2>3
<1>9. CASE name = "slice"
  <2> DEFINE part(s) == SubSeq(s, Clamp(second, Len(s)) + 1, Clamp(Payload(args[3]), Len(s)))
  <2>1. second \in Int /\ Payload(args[3]) \in Int
    BY <1>2, <1>9, <1>int, ArgumentTags
  <2>2. ASSUME NEW S, NEW s \in Seq(S) PROVE part(s) \in Seq(S)
    <3>1. Len(s) \in Nat
      OBVIOUS
    <3>2. Clamp(second, Len(s)) \in 0 .. Len(s) /\ Clamp(Payload(args[3]), Len(s)) \in 0 .. Len(s)
      BY <2>1, <3>1, Clamped
    <3>q. QED BY <3>2, Parts
  <2>3. CASE Tag(args[1]) = "str"
    <3>1. r = Outcome("value", StrV(part(first)), h, o, 0)
      BY <1>9, <2>3 DEF NativeReturns
    <3>2. part(first) \in Seq(Nat)
      <4>1. first \in Seq(Nat)
        BY <1>1, <1>2, <1>9, <2>3, Payloads DEF V
      <4> HIDE DEF part
      <4>q. QED BY <2>2, <4>1
    <3> HIDE DEF part
    <3>q. QED BY <1>1, <1>pure, <3>1, <3>2, Constructed DEF V
  <2>4. CASE Tag(args[1]) = "array"
    <3>1. r = Outcome("value", ArrayV(Len(h) + 1), Append(h, part(h[first])), o, 0)
      BY <1>9, <2>4 DEF NativeReturns
    <3>2. part(h[first]) \in Seq(V)
      <4>1. h[first] \in Seq(V)
        BY <1>9, <1>arr, <2>4
      <4> HIDE DEF part
      <4>q. QED BY <2>2, <4>1
    <3> DEFINE g == Append(h, part(h[first]))
    <3>3. HeapOK(g) /\ Len(g) = Len(h) + 1
      BY <3>2, HeapAppend DEF V
    <3>4. ArrayV(Len(h) + 1) \in ValueUpTo(Len(g))
      BY <1>1, <3>3, Constructed
    <3> HIDE DEF part, g
    <3>5. r = Outcome("value", ArrayV(Len(h) + 1), g, o, 0)
      BY <3>1 DEF g
    <3>q. QED BY <1>1, <3>3, <3>4, <3>5, ValueOutcome
  <2>q. QED BY <1>9, <2>3, <2>4, ArgumentTags
<1>10. CASE name \in {"abs", "min", "max"} /\ Tag(args[1]) = "float"
  <2>1. r \in UNION { { Outcome("value", FloatV(x), h, o, 0) } : x \in FloatVals }
    BY <1>10 DEF NativeReturns
  <2>2. PICK x \in FloatVals : r = Outcome("value", FloatV(x), h, o, 0)
    BY <2>1
  <2>q. QED BY <1>1, <1>pure, <2>2, Constructed DEF V
<1>11. CASE name \in {"abs", "min", "max"} /\ Tag(args[1]) = "int"
  <2>1. first \in IntRange /\ (name # "abs" => second \in IntRange)
    BY <1>1, <1>2, <1>11, ArgumentTags, Payloads DEF V
  <2> DEFINE n == CASE name = "abs" -> AbsVal(first)
                    [] name = "min" -> IF second < first THEN second ELSE first
                    [] OTHER        -> IF first < second THEN second ELSE first
  <2>2. r = Outcome("value", IntV(n), h, o, 0)
    BY <1>11 DEF NativeReturns
  <2>3. n \in IntRange
    BY <1>11, <2>1, ValueAssumption DEF NativeFault, AbsVal, IntRange
  <2> HIDE DEF n
  <2>q. QED BY <1>1, <1>pure, <2>2, <2>3, Constructed DEF V
<1>12. CASE name = "assert"
  <2>1. r = Outcome("value", IntV(0), h, o, 0)
    BY <1>12 DEF NativeReturns
  <2>q. QED BY <1>1, <1>pure, <2>1
<1>13. CASE name = "exit"
  <2>1. r = Outcome("exited", IntV(0), h, o, first % 256)
    BY <1>13 DEF NativeReturns
  <2>2. first \in Int
    BY <1>1, <1>2, <1>13, ArgumentTags, Payloads, ValueAssumption DEF IntRange, V
  <2>q. QED BY <2>1, <2>2 DEF GoodOutcome, Outcome
<1>14. name # "panic"
  BY DEF NativeFault
<1>q. QED
  BY <1>3, <1>4, <1>5, <1>6, <1>7, <1>8, <1>9, <1>10, <1>11, <1>12, <1>13, <1>14, Arities, ArgumentTags

\* Whatever the arguments, a call of a builtin returns a value or ends the run.
LEMMA NativeOutcomesGood ==
  ASSUME NEW h, HeapOK(h), NEW o, NEW id \in 0 .. Len(NativeNames) - 1,
         NEW args \in Seq(ValueUpTo(Len(h))),
         Len(args) \in NativeArity(NativeNames[id + 1]),
         NEW r \in NativeOutcomes(id, args, h, o)
  PROVE  GoodOutcome(r, h)
<1> DEFINE name == NativeNames[id + 1]
<1>1. CASE ~ArgumentsOK(name, args)
  <2>1. r = Outcome("internal", IntV(0), h, o, 70)
    BY <1>1 DEF NativeOutcomes
  <2>q. QED BY <2>1 DEF GoodOutcome, Outcome
<1>2. CASE ArgumentsOK(name, args) /\ NativeFault(name, args, h)
  <2>1. r = Outcome("failed", IntV(0), h, o, 70)
    BY <1>2 DEF NativeOutcomes
  <2>q. QED BY <2>1 DEF GoodOutcome, Outcome
<1>3. CASE ArgumentsOK(name, args) /\ ~NativeFault(name, args, h)
  <2>1. r \in NativeReturns(name, args, h, o)
    BY <1>3 DEF NativeOutcomes
  <2>q. QED BY <1>3, <2>1, NativeReturnsGood
<1>q. QED BY <1>1, <1>2, <1>3

---------------------------------------------------------------------------
(* What P says is said of this machine's own definitions.                  *)

LEMMA SameEffects ==
  /\ \A I : P!Needs(I) = Needs(I)
  /\ \A I : P!Leaves(I) = Leaves(I)
  /\ \A I, i : P!Successors(I, i) = Successors(I, i)
<1>1. \A I : P!Needs(I) = Needs(I)
  BY DEF P!Needs, Needs, P!PushOps, PushOps, P!IntUnaryOps, IntUnaryOps, P!PeekJumps, PeekJumps
<1>2. \A I : P!Leaves(I) = Leaves(I)
  BY DEF P!Leaves, Leaves
<1>3. \A I, i : P!Successors(I, i) = Successors(I, i)
  BY DEF P!Successors, Successors, P!PeekJumps, PeekJumps, P!ReturnOps, ReturnOps
<1>q. QED BY <1>1, <1>2, <1>3

LEMMA SameModules ==
  /\ \A m, f : P!Function(m, f) = Function(m, f)
  /\ \A m : P!FunctionIds(m) = FunctionIds(m)
  /\ \A m : P!FramesOf(m) = FramesOf(m)
  /\ P!Top = Top /\ P!Ins = Ins
  /\ \A i : P!MovedTo(i) = MovedTo(i)
<1>1. \A m, f : P!Function(m, f) = Function(m, f)
  BY DEF P!Function, Function
<1>2. \A m : P!FunctionIds(m) = FunctionIds(m)
  BY DEF P!FunctionIds, FunctionIds
<1>3. P!Top = Top
  BY DEF P!Top, Top
<1>4. P!Ins = Ins
  BY <1>1, <1>3 DEF P!Ins, Ins, Fn
<1>5. \A m : P!FramesOf(m) = FramesOf(m)
  BY <1>2 DEF P!FramesOf, FramesOf
<1>6. \A i : P!MovedTo(i) = MovedTo(i)
  BY <1>3 DEF P!MovedTo, MovedTo, P!Frame, Frame
<1>q. QED BY <1>1, <1>2, <1>3, <1>4, <1>5, <1>6

LEMMA SameOpCodes == P!OpCodes = OpCodes
BY DEF P!OpCodes, OpCodes, P!PushOps, PushOps, P!IntBinaryOps, IntBinaryOps,
       P!IntUnaryOps, IntUnaryOps, P!FloatBinaryOps, FloatBinaryOps,
       P!EqualityOps, EqualityOps, P!CompareOps, CompareOps, P!IntCompareOps, IntCompareOps,
       P!FloatCompareOps, FloatCompareOps, P!StrCompareOps, StrCompareOps,
       P!Jumps, Jumps, P!PeekJumps, PeekJumps, P!ReturnOps, ReturnOps

LEMMA SameOperandsOK == \A m, f, I : P!OperandsOK(m, f, I) <=> OperandsOK(m, f, I)
BY SameModules DEF P!OperandsOK, OperandsOK, P!ReturnOps, ReturnOps

LEMMA SameFunctionOK == \A F : P!FunctionOK(F) <=> FunctionOK(F)
<1>1. \A n : P!ValueUpTo(n) = ValueUpTo(n)
  BY DEF P!ValueUpTo, ValueUpTo, P!IntRange, IntRange
<1>2. P!NativeNames = NativeNames
  BY DEF P!NativeNames, NativeNames
<1>3. \A n : P!NativeArity(n) = NativeArity(n)
  BY DEF P!NativeArity, NativeArity
<1>q. QED BY <1>1, <1>2, <1>3, SameOpCodes DEF P!FunctionOK, FunctionOK

LEMMA SameCertifies == \A h, m, f : P!Certifies(h, m, f) <=> Certifies(h, m, f)
BY SameEffects, SameModules, SameOperandsOK DEF P!Certifies, Certifies

\* The assumptions of P are assumptions of this machine.
LEMMA FrameAssumptions == P!ValueAssumption /\ P!ModuleAssumption /\ P!CodeVerified
BY SameModules, SameFunctionOK, SameCertifies, VerifiedCode, ModuleAssumption, ValueAssumption
   DEF P!ValueAssumption, P!ModuleAssumption, P!CodeVerified

---------------------------------------------------------------------------
(* The machine about to execute an instruction.                            *)

\* The types and the order of the frames.
MachineInv == TypeOK /\ P!FrameInv

Instruction == [op : OpCodes, a : Nat, b : Nat]

\* The cells of the running frame that are not operands.
Locals == Top.base + Fn.local_count

\* What the invariant says of the instruction that runs next.
LEMMA Fetched ==
  ASSUME MachineInv, status = "running"
  PROVE  /\ Top \in FramesOf(prog) /\ Top.base \in Nat /\ Top.ip \in Nat
         /\ Top.ip \in 1 .. Len(Fn.code)
         /\ FunctionOK(Fn) /\ Fn.local_count \in Nat
         /\ Ins \in Instruction
         /\ Needs(Ins) \in Nat /\ Leaves(Ins) \in Nat
         /\ OperandsOK(prog, Top.fn, Ins)
         /\ Len(stack) \in Nat
         /\ Locals \in Nat /\ Locals + Needs(Ins) <= Len(stack)
<1>1. P!FrameInv /\ prog \in DOMAIN Modules /\ Len(stack) \in Nat
  BY DEF MachineInv, TypeOK
<1>2. /\ Top \in FramesOf(prog) /\ Ins \in Instruction
      /\ P!Height(Len(frames)) \in Nat
      /\ Needs(Ins) \in Nat /\ Leaves(Ins) \in Nat
      /\ Needs(Ins) <= P!Height(Len(frames))
      /\ OperandsOK(prog, Top.fn, Ins)
  BY <1>1, P!RunningFrame, FrameAssumptions, SameEffects, SameModules, SameOperandsOK, SameOpCodes
     DEF P!Instruction, Instruction
<1>3. Top.fn \in FunctionIds(prog) /\ Top.base \in Nat /\ Top.ip \in Nat
  BY <1>2 DEF FramesOf
<1>4. FunctionOK(Fn) /\ Fn.local_count \in Nat
  BY <1>1, <1>3, ModuleAssumption DEF Fn, FunctionOK
<1>5. P!LocalCount(Len(frames)) = Fn.local_count
  BY SameModules DEF P!LocalCount, Fn, Top
<1>6. /\ Len(stack) = Top.base + Fn.local_count + P!Height(Len(frames))
      /\ Top.ip \in DOMAIN Heights[prog][Top.fn]
  BY <1>1, <1>5, SameModules DEF P!FrameInv, P!TopInOrder
<1>7. Top.ip \in 1 .. Len(Fn.code)
  BY <1>1, <1>3, <1>6, VerifiedCode DEF Certifies, Fn
<1>q. QED BY <1>1, <1>2, <1>3, <1>4, <1>6, <1>7 DEF Locals

\* What the invariant says of the cells on the stack.
LEMMA Cells ==
  ASSUME TypeOK
  PROVE  /\ Len(stack) \in Nat
         /\ \A d \in 0 .. Len(stack) - 1 : Peek(d) \in Value
         /\ \A n \in 0 .. Len(stack) :
              /\ Drop(n) \in Seq(Value) /\ Len(Drop(n)) = Len(stack) - n
              /\ \A c \in 1 .. Len(stack) - n : Drop(n)[c] = stack[c]
<1> DEFINE V == Value
<1>1. stack \in Seq(V)
  BY DEF TypeOK
<1> HIDE DEF V
<1>2. Len(stack) \in Nat /\ \A c \in 1 .. Len(stack) : stack[c] \in V
  BY <1>1
<1>3. \A d \in 0 .. Len(stack) - 1 : Peek(d) \in V
  BY <1>2 DEF Peek
<1>4. ASSUME NEW n \in 0 .. Len(stack)
      PROVE  /\ Drop(n) \in Seq(V) /\ Len(Drop(n)) = Len(stack) - n
             /\ \A c \in 1 .. Len(stack) - n : Drop(n)[c] = stack[c]
  BY <1>1, <1>2, SubSeqProperties DEF Drop
<1>q. QED BY <1>2, <1>3, <1>4 DEF V

---------------------------------------------------------------------------
(* Steps, by what they do to the stack.                                    *)

\* What is proved of a step: it keeps the types, it is a step of the calling
\* convention, and it leaves other frames alone.
SoundStep == TypeOK' /\ P!Next /\ StaysInFrame

\* The instructions that control leaves only for the next one.
Straight == OpCodes \ (Jumps \cup ReturnOps \cup {"Call", "Halt"})

LEMMA SuccessorsAre ==
  ASSUME NEW I \in Instruction, NEW i
  PROVE  /\ I.op \in Straight \cup {"Call"} => Successors(I, i) = {i + 1}
         /\ I.op = "Jump" => Successors(I, i) = {I.a}
         /\ I.op \in {"JumpIfFalse"} \cup PeekJumps => Successors(I, i) = {I.a, i + 1}
BY DEF Instruction, Successors, Straight, Jumps, PeekJumps, ReturnOps

\* An instruction that stays in its frame, whatever it does.
LEMMA FrameStep ==
  ASSUME MachineInv, status = "running", UNCHANGED <<prog, status, exit_status>>,
         Ins.op \notin ReturnOps \cup {"Call", "Halt"},
         NEW i \in Successors(Ins, Top.ip), i \in Nat, frames' = MovedTo(i),
         HeapOK(heap'), stack' \in Seq(Value'), globals' \in [1 .. Modules[prog].global_count -> Value'],
         Len(stack') = Len(stack) - Needs(Ins) + Leaves(Ins),
         \A c \in 1 .. Locals : stack'[c] = stack[c] \/ (Ins.op = "SetLocal" /\ c = Slot)
  PROVE  SoundStep
<1>1. /\ frames \in Seq(FramesOf(prog)) /\ Len(frames) > 0
  BY DEF MachineInv, TypeOK
<1>2. frames' \in Seq(FramesOf(prog)) /\ Len(frames') = Len(frames)
  BY <1>1, P!Moving, FrameAssumptions, SameModules
<1>3. TypeOK'
  BY <1>1, <1>2 DEF MachineInv, TypeOK
<1>4. P!Step
  BY SameEffects, SameModules DEF P!Step, P!ReturnOps, ReturnOps
<1>5. StaysInFrame
  BY Fetched DEF StaysInFrame, Locals
<1>q. QED BY <1>3, <1>4, <1>5 DEF SoundStep, P!Next

\* An instruction that replaces n values by one, and keeps the arrays.
LEMMA ProduceStep ==
  ASSUME MachineInv, status = "running", Ins.op \in Straight,
         NEW n \in 0 .. Needs(Ins), Leaves(Ins) = Needs(Ins) - n + 1,
         NEW v \in Value, Produce(n, v)
  PROVE  SoundStep
<1> DEFINE V == Value
           D == Drop(n)
<1>1. /\ TypeOK /\ Len(stack) \in Nat /\ n \in 0 .. Len(stack)
      /\ Locals \in 0 .. Len(stack) - n
  BY Fetched DEF MachineInv
<1>2. /\ D \in Seq(V) /\ Len(D) = Len(stack) - n
      /\ \A c \in 1 .. Locals : c \in 1 .. Len(D) /\ D[c] = stack[c]
  BY <1>1, Cells
<1>3. V' = V
  BY DEF Produce, Value
<1>4. stack' = Append(D, v) /\ v \in V
  BY DEF Produce
<1> HIDE DEF V, D
<1>5. /\ stack' \in Seq(V) /\ Len(stack') = Len(D) + 1
      /\ \A c \in 1 .. Len(D) : stack'[c] = D[c]
  BY <1>2, <1>4
<1>6. /\ Len(stack') = Len(stack) - Needs(Ins) + Leaves(Ins)
      /\ \A c \in 1 .. Locals : stack'[c] = stack[c]
  BY <1>1, <1>2, <1>5, Fetched
<1>7. /\ HeapOK(heap') /\ globals' \in [1 .. Modules[prog].global_count -> V]
      /\ frames' = MovedTo(Top.ip + 1) /\ UNCHANGED <<prog, status, exit_status>>
  BY <1>1 DEF TypeOK, Produce, Advance, GoTo, Running, V
<1>8. Top.ip + 1 \in Nat /\ Top.ip + 1 \in Successors(Ins, Top.ip)
  BY Fetched, SuccessorsAre
<1>q. QED BY <1>3, <1>5, <1>6, <1>7, <1>8, FrameStep DEF Straight, V

\* An instruction that drops its operands, and makes no array.
LEMMA DropStep ==
  ASSUME MachineInv, status = "running", Ins.op \notin ReturnOps \cup {"Call", "Halt"},
         Leaves(Ins) = 0, NEW i \in Successors(Ins, Top.ip), i \in Nat, GoTo(i), Running,
         stack' = Drop(Needs(Ins)), HeapOK(heap'), Len(heap') = Len(heap),
         globals' \in [1 .. Modules[prog].global_count -> Value]
  PROVE  SoundStep
<1> DEFINE V == Value
<1>1. TypeOK /\ Needs(Ins) \in 0 .. Len(stack) /\ Locals \in 0 .. Len(stack) - Needs(Ins)
  BY Fetched DEF MachineInv
<1>2. V' = V
  BY DEF Value
<1>3. /\ stack' \in Seq(V) /\ Len(stack') = Len(stack) - Needs(Ins) + Leaves(Ins)
      /\ \A c \in 1 .. Locals : stack'[c] = stack[c]
  <2> DEFINE n == Needs(Ins)
  <2>1. n \in 0 .. Len(stack) /\ stack' = Drop(n) /\ Len(stack) \in Nat
        /\ Locals \in 0 .. Len(stack) - n /\ Leaves(Ins) = 0
    BY <1>1, Fetched
  <2> HIDE DEF n, V
  <2>2. stack' \in Seq(V) /\ Len(stack') = Len(stack) - n
        /\ \A c \in 1 .. Len(stack) - n : stack'[c] = stack[c]
    BY <1>1, <2>1, Cells DEF V
  <2>q. QED BY <2>1, <2>2 DEF n
<1>4. frames' = MovedTo(i) /\ UNCHANGED <<prog, status, exit_status>>
  BY DEF GoTo, Running
<1> HIDE DEF V
<1>q. QED BY <1>2, <1>3, <1>4, FrameStep DEF V

\* An instruction that ends the run.
LEMMA StopStep ==
  ASSUME MachineInv, status = "running", NEW ending \in Endings, NEW code \in Nat, Stop(ending, code)
  PROVE  SoundStep
<1>1. frames \in Seq(FramesOf(prog)) /\ Len(frames) > 0 /\ Top.ip + 1 \in Nat
  BY Fetched DEF MachineInv, TypeOK
<1>2. frames' = MovedTo(Top.ip + 1) /\ status' = ending /\ exit_status' = code
      /\ UNCHANGED <<prog, stack, globals, heap>>
  BY DEF Stop, Advance, GoTo
<1>3. frames' \in Seq(FramesOf(prog)) /\ Len(frames') = Len(frames)
  BY <1>1, <1>2, P!Moving, FrameAssumptions, SameModules
<1>4. TypeOK'
  BY <1>1, <1>2, <1>3 DEF MachineInv, TypeOK, Value
<1>5. P!Stop
  BY <1>2, SameModules DEF P!Stop, Endings
<1>6. StaysInFrame
  BY <1>2, Fetched DEF StaysInFrame, Locals
<1>q. QED BY <1>4, <1>5, <1>6 DEF SoundStep, P!Next

---------------------------------------------------------------------------
(* Every step is sound.                                                    *)

\* What each instruction takes off the stack and puts on it.
LEMMA OpFacts ==
  ASSUME NEW I \in Instruction
  PROVE  /\ I.op \in PushOps \cup {"GetLocal", "GetGlobal"} => Needs(I) = 0 /\ Leaves(I) = 1
         /\ I.op \in {"Pop", "SetLocal", "SetGlobal", "JumpIfFalse"} => Needs(I) = 1 /\ Leaves(I) = 0
         /\ I.op \in IntUnaryOps \cup PeekJumps \cup {"NegFloat", "Not"}
              => Needs(I) = 1 /\ Leaves(I) = 1
         /\ I.op \in IntBinaryOps \cup FloatBinaryOps \cup EqualityOps \cup CompareOps
                       \cup {"ConcatStr", "IndexGet"} => Needs(I) = 2 /\ Leaves(I) = 1
         /\ I.op = "Dup"       => Needs(I) = 1 /\ Leaves(I) = 2
         /\ I.op = "Dup2"      => Needs(I) = 2 /\ Leaves(I) = 4
         /\ I.op = "IndexSet"  => Needs(I) = 3 /\ Leaves(I) = 0
         /\ I.op = "MakeArray" => Needs(I) = I.a /\ Leaves(I) = 1
         /\ I.op \in {"Call", "CallNative"} => Needs(I) = I.b /\ Leaves(I) = 1
         /\ I.op = "Jump"      => Needs(I) = 0 /\ Leaves(I) = 0
         /\ I.op = "Return"    => Needs(I) = 1
BY DEF Needs, Leaves, Instruction, PushOps, IntUnaryOps, PeekJumps, IntBinaryOps, FloatBinaryOps,
       EqualityOps, CompareOps, IntCompareOps, FloatCompareOps, StrCompareOps

LEMMA StraightOps ==
  PushOps \cup IntUnaryOps \cup IntBinaryOps \cup FloatBinaryOps \cup EqualityOps \cup CompareOps
    \cup {"GetLocal", "GetGlobal", "Pop", "SetLocal", "SetGlobal", "NegFloat", "Not", "ConcatStr",
          "IndexGet", "Dup", "Dup2", "IndexSet", "MakeArray", "CallNative"}
    \subseteq Straight
BY DEF Straight, OpCodes, Jumps, ReturnOps, PushOps, IntUnaryOps, PeekJumps, IntBinaryOps,
       FloatBinaryOps, EqualityOps, CompareOps, IntCompareOps, FloatCompareOps, StrCompareOps

\* What a step's guard says.
LEMMA Guarded ==
  ASSUME MachineInv, NEW ops, Executing(ops)
  PROVE  /\ status = "running" /\ Ins.op \in ops /\ TypeOK
         /\ Ins \in Instruction /\ Needs(Ins) <= Len(stack)
BY Fetched DEF Executing, Ready, MachineInv

\* The values that instructions make.
LEMMA Made ==
  ASSUME TypeOK
  PROVE  /\ \A n \in IntRange : IntV(n) \in Value
         /\ \A x \in FloatVals : FloatV(x) \in Value
         /\ \A b : BoolV(b) \in Value
         /\ \A s \in Seq(Nat) : StrV(s) \in Value
         /\ IntV(0) \in Value
         /\ Len(heap) \in Nat
<1>1. Len(heap) \in Nat
  BY DEF TypeOK, HeapOK
<1>q. QED BY <1>1, Constructed DEF Value

LEMMA SoundStack == ASSUME MachineInv, StackStep PROVE SoundStep
<1>1. CASE Constant
  <2>1. /\ status = "running" /\ Ins.op \in {"Constant"} /\ TypeOK /\ Ins \in Instruction
    BY <1>1, Guarded DEF Constant
  <2>2. Fn.consts[Ins.a + 1] \in ValueUpTo(0)
    BY <1>1, <2>1, Fetched DEF Constant, FunctionOK, Instruction
  <2>3. Fn.consts[Ins.a + 1] \in Value
    BY <2>1, <2>2, Made, MoreArrays DEF Value
  <2>q. QED BY <1>1, <2>1, <2>3, OpFacts, StraightOps, ProduceStep DEF Constant, PushOps
<1>2. CASE PushBool
  <2>1. status = "running" /\ Ins.op \in {"PushTrue", "PushFalse"} /\ TypeOK /\ Ins \in Instruction
    BY <1>2, Guarded DEF PushBool
  <2>q. QED BY <1>2, <2>1, Made, OpFacts, StraightOps, ProduceStep DEF PushBool, PushOps
<1>3. CASE Pop
  <2>1. status = "running" /\ Ins.op = "Pop" /\ TypeOK /\ Ins \in Instruction
    BY <1>3, Guarded DEF Pop
  <2>2. Needs(Ins) = 1 /\ Leaves(Ins) = 0 /\ Ins.op \in Straight
    BY <2>1, OpFacts, StraightOps
  <2>3. Top.ip + 1 \in Successors(Ins, Top.ip) /\ Top.ip + 1 \in Nat
    BY <2>1, <2>2, SuccessorsAre, Fetched
  <2>q. QED BY <1>3, <2>1, <2>2, <2>3, DropStep DEF Pop, Advance, Straight, TypeOK
<1>4. CASE Dup
  <2>1. status = "running" /\ Ins.op = "Dup" /\ TypeOK /\ Ins \in Instruction /\ Needs(Ins) <= Len(stack)
    BY <1>4, Guarded DEF Dup
  <2>2. Needs(Ins) = 1 /\ Leaves(Ins) = 2 /\ Ins.op \in Straight
    BY <2>1, OpFacts, StraightOps
  <2>3. Peek(0) \in Value
    BY <2>1, <2>2, Cells
  <2>q. QED BY <1>4, <2>1, <2>2, <2>3, ProduceStep DEF Dup
<1>5. CASE Dup2
  <2>1. /\ status = "running" /\ Ins.op = "Dup2" /\ TypeOK /\ Ins \in Instruction
        /\ Needs(Ins) <= Len(stack)
    BY <1>5, Guarded DEF Dup2
  <2>2. Needs(Ins) = 2 /\ Leaves(Ins) = 4 /\ Ins.op \in Straight
    BY <2>1, OpFacts, StraightOps
  <2> DEFINE V == Value
  <2>3. /\ stack \in Seq(V) /\ <<Peek(1), Peek(0)>> \in Seq(V) /\ Len(stack) \in Nat
        /\ stack' = stack \o <<Peek(1), Peek(0)>>
    BY <1>5, <2>1, <2>2, Cells DEF Dup2, TypeOK
  <2>4. V' = V
    BY <1>5 DEF Dup2, Value
  <2> HIDE DEF V
  <2>5. /\ stack' \in Seq(V) /\ Len(stack') = Len(stack) + 2
        /\ \A c \in 1 .. Len(stack) : stack'[c] = stack[c]
    BY <2>3, ConcatProperties
  <2>6. /\ HeapOK(heap') /\ globals' \in [1 .. Modules[prog].global_count -> V]
        /\ frames' = MovedTo(Top.ip + 1) /\ UNCHANGED <<prog, status, exit_status>>
    BY <1>5, <2>1 DEF Dup2, TypeOK, Advance, GoTo, Running, V
  <2>7. Top.ip + 1 \in Nat /\ Top.ip + 1 \in Successors(Ins, Top.ip)
    BY <2>1, <2>2, Fetched, SuccessorsAre
  <2>8. \A c \in 1 .. Locals : stack'[c] = stack[c]
    BY <2>1, <2>3, <2>5, Fetched
  <2>9. Len(stack') = Len(stack) - Needs(Ins) + Leaves(Ins) /\ Ins.op \notin ReturnOps \cup {"Call", "Halt"}
    BY <2>2, <2>3, <2>5 DEF Straight
  <2>q. QED BY <2>1, <2>4, <2>5, <2>6, <2>7, <2>8, <2>9, FrameStep DEF V
<1>q. QED BY <1>1, <1>2, <1>3, <1>4, <1>5 DEF StackStep

LEMMA SoundVar == ASSUME MachineInv, VarStep PROVE SoundStep
<1>1. CASE GetLocal
  <2>1. status = "running" /\ Ins.op = "GetLocal" /\ TypeOK /\ Ins \in Instruction
    BY <1>1, Guarded DEF GetLocal
  <2>2. Slot \in 1 .. Len(stack)
    BY <1>1, <2>1, Fetched DEF GetLocal, Slot, Instruction
  <2>3. stack[Slot] \in Value
    <3> DEFINE V == Value
    <3>1. stack \in Seq(V)
      BY <2>1 DEF TypeOK
    <3> HIDE DEF V
    <3>q. QED BY <2>2, <3>1 DEF V
  <2>q. QED BY <1>1, <2>1, <2>3, OpFacts, StraightOps, ProduceStep DEF GetLocal
<1>2. CASE SetLocal
  <2>1. /\ status = "running" /\ Ins.op = "SetLocal" /\ TypeOK /\ Ins \in Instruction
        /\ Needs(Ins) <= Len(stack)
    BY <1>2, Guarded DEF SetLocal
  <2>2. Needs(Ins) = 1 /\ Leaves(Ins) = 0 /\ Ins.op \in Straight
    BY <2>1, OpFacts, StraightOps
  <2> DEFINE V == Value
             D == Drop(1)
  <2>3. /\ D \in Seq(V) /\ Len(D) = Len(stack) - 1 /\ Len(stack) \in Nat /\ Peek(0) \in V
        /\ \A c \in 1 .. Len(D) : D[c] = stack[c]
    <3>1. 1 \in 0 .. Len(stack) /\ Len(stack) \in Nat
      BY <2>1, <2>2, Cells
    <3>2. D \in Seq(V) /\ Len(D) = Len(stack) - 1 /\ \A c \in 1 .. Len(stack) - 1 : D[c] = stack[c]
      BY <2>1, <3>1, Cells
    <3>3. Peek(0) \in V
      BY <2>1, <3>1, Cells
    <3> HIDE DEF D, V
    <3>q. QED BY <3>1, <3>2, <3>3
  <2>4. V' = V /\ stack' = [D EXCEPT ![Slot] = Peek(0)]
    BY <1>2 DEF SetLocal, Value
  <2> HIDE DEF V, D
  <2>5. /\ stack' \in Seq(V) /\ Len(stack') = Len(D)
        /\ \A c \in 1 .. Len(D) : c = Slot \/ stack'[c] = D[c]
    <3>1. Slot \in 1 .. Len(D)
      BY <1>2, <2>1, <2>3, Fetched DEF SetLocal, Slot, Instruction
    <3>q. QED BY <2>3, <2>4, <3>1
  <2>6. /\ HeapOK(heap') /\ globals' \in [1 .. Modules[prog].global_count -> V]
        /\ frames' = MovedTo(Top.ip + 1) /\ UNCHANGED <<prog, status, exit_status>>
    BY <1>2, <2>1 DEF SetLocal, TypeOK, Advance, GoTo, Running, V
  <2>7. Top.ip + 1 \in Nat /\ Top.ip + 1 \in Successors(Ins, Top.ip)
    BY <2>1, <2>2, Fetched, SuccessorsAre
  <2>8. \A c \in 1 .. Locals : c = Slot \/ stack'[c] = stack[c]
    BY <2>1, <2>2, <2>3, <2>5, Fetched
  <2>9. Len(stack') = Len(stack) - Needs(Ins) + Leaves(Ins) /\ Ins.op \notin ReturnOps \cup {"Call", "Halt"}
    BY <2>2, <2>3, <2>5 DEF Straight
  <2>q. QED BY <2>1, <2>4, <2>5, <2>6, <2>7, <2>8, <2>9, FrameStep DEF V
<1>3. CASE GetGlobal
  <2>1. /\ status = "running" /\ Ins.op = "GetGlobal" /\ TypeOK /\ Ins \in Instruction
        /\ Ins.a < Modules[prog].global_count
    BY <1>3, Guarded, Fetched DEF GetGlobal, OperandsOK
  <2>2. globals[Ins.a + 1] \in Value
    BY <2>1, ModuleAssumption DEF TypeOK, Instruction
  <2>q. QED BY <1>3, <2>1, <2>2, OpFacts, StraightOps, ProduceStep DEF GetGlobal
<1>4. CASE SetGlobal
  <2>1. /\ status = "running" /\ Ins.op = "SetGlobal" /\ TypeOK /\ Ins \in Instruction
        /\ Needs(Ins) <= Len(stack)
    BY <1>4, Guarded DEF SetGlobal
  <2>2. Needs(Ins) = 1 /\ Leaves(Ins) = 0 /\ Ins.op \in Straight
    BY <2>1, OpFacts, StraightOps
  <2>3. Peek(0) \in Value
    BY <2>1, <2>2, Cells
  <2>4. globals' \in [1 .. Modules[prog].global_count -> Value]
    BY <1>4, <2>1, <2>3 DEF SetGlobal, TypeOK
  <2>5. Top.ip + 1 \in Successors(Ins, Top.ip) /\ Top.ip + 1 \in Nat
    BY <2>1, <2>2, SuccessorsAre, Fetched
  <2>q. QED BY <1>4, <2>1, <2>2, <2>4, <2>5, DropStep DEF SetGlobal, Advance, Straight, TypeOK
<1>q. QED BY <1>1, <1>2, <1>3, <1>4 DEF VarStep

\* The instructions that take two operands, or one, and push a result.
TwoOperands ==
  IntBinaryOps \cup FloatBinaryOps \cup EqualityOps \cup CompareOps
    \cup {"ConcatStr", "IndexGet"}
OneOperand == IntUnaryOps \cup {"NegFloat", "Not"}

LEMMA BinaryStep ==
  ASSUME MachineInv, NEW ops \in SUBSET TwoOperands, Executing(ops), NEW v \in Value, Produce(2, v)
  PROVE  SoundStep
<1>1. status = "running" /\ Ins.op \in TwoOperands /\ Ins \in Instruction
  BY Guarded
<1>2. Needs(Ins) = 2 /\ Leaves(Ins) = 1 /\ Ins.op \in Straight
  BY <1>1, OpFacts, StraightOps DEF TwoOperands
<1>q. QED BY <1>1, <1>2, ProduceStep

LEMMA UnaryStep ==
  ASSUME MachineInv, NEW ops \in SUBSET OneOperand, Executing(ops), NEW v \in Value, Produce(1, v)
  PROVE  SoundStep
<1>1. status = "running" /\ Ins.op \in OneOperand /\ Ins \in Instruction
  BY Guarded
<1>2. Needs(Ins) = 1 /\ Leaves(Ins) = 1 /\ Ins.op \in Straight
  BY <1>1, OpFacts, StraightOps DEF OneOperand
<1>q. QED BY <1>1, <1>2, ProduceStep

\* The value d below the top of the stack, when the instruction needs that many.
LEMMA Operand ==
  ASSUME MachineInv, status = "running", NEW d \in Nat, d < Needs(Ins)
  PROVE  Peek(d) \in Value /\ Len(heap) \in Nat
<1>1. TypeOK
  BY DEF MachineInv
<1>2. d \in 0 .. Len(stack) - 1
  BY Fetched
<1>q. QED BY <1>1, <1>2, Cells, Made

LEMMA SoundValue == ASSUME MachineInv, ValueStep PROVE SoundStep
<1>0. TypeOK
  BY DEF MachineInv
<1>1. CASE IntBinary
  <2>1. PICK n \in IntRange : Produce(2, IntV(n))
    BY <1>1 DEF IntBinary
  <2>2. Executing(IntBinaryOps) /\ IntBinaryOps \in SUBSET TwoOperands
    BY <1>1 DEF IntBinary, TwoOperands
  <2>q. QED BY <1>0, <2>1, <2>2, Made, BinaryStep
<1>2. CASE IntBinaryFault
  BY <1>2, StopStep DEF IntBinaryFault, Fail, Endings, Ready
<1>3. CASE IntUnary
  <2>1. PICK n \in IntRange : Produce(1, IntV(n))
    BY <1>3 DEF IntUnary
  <2>2. Executing(IntUnaryOps) /\ IntUnaryOps \in SUBSET OneOperand
    BY <1>3 DEF IntUnary, OneOperand
  <2>q. QED BY <1>0, <2>1, <2>2, Made, UnaryStep
<1>4. CASE FloatBinary
  <2>1. PICK x \in FloatVals : Produce(2, FloatV(x))
    BY <1>4 DEF FloatBinary
  <2>2. Executing(FloatBinaryOps) /\ FloatBinaryOps \in SUBSET TwoOperands
    BY <1>4 DEF FloatBinary, TwoOperands
  <2>q. QED BY <1>0, <2>1, <2>2, Made, BinaryStep
<1>5. CASE FloatUnary
  <2>1. PICK x \in FloatVals : Produce(1, FloatV(x))
    BY <1>5 DEF FloatUnary
  <2>2. Executing({"NegFloat"}) /\ {"NegFloat"} \in SUBSET OneOperand
    BY <1>5 DEF FloatUnary, OneOperand
  <2>q. QED BY <1>0, <2>1, <2>2, Made, UnaryStep
<1>6. CASE ConcatStr
  <2>1. /\ Executing({"ConcatStr"}) /\ {"ConcatStr"} \in SUBSET TwoOperands
        /\ Produce(2, StrV(Payload(Peek(1)) \o Payload(Peek(0))))
    BY <1>6 DEF ConcatStr, TwoOperands
  <2>2. status = "running" /\ Ins.op = "ConcatStr" /\ Ins \in Instruction
    BY <2>1, Guarded
  <2>3. Needs(Ins) = 2
    BY <2>2, OpFacts
  <2>4. Peek(0) \in Value /\ Peek(1) \in Value /\ Len(heap) \in Nat
    BY <2>2, <2>3, Operand
  <2>5. OperandTags(Ins) = << {"str"}, {"str"} >>
    BY <2>2 DEF OperandTags, IntBinaryOps, IntCompareOps, IntUnaryOps, FloatBinaryOps, FloatCompareOps,
                StrCompareOps, PeekJumps
  <2>6. Tag(Peek(0)) = "str" /\ Tag(Peek(1)) = "str"
    BY <2>1, <2>5 DEF Executing, WellTagged
  <2>7. Payload(Peek(0)) \in Seq(Nat) /\ Payload(Peek(1)) \in Seq(Nat)
    BY <2>4, <2>6, Payloads DEF Value
  <2>8. Payload(Peek(1)) \o Payload(Peek(0)) \in Seq(Nat)
    BY <2>7
  <2>q. QED BY <1>0, <2>1, <2>8, Made, BinaryStep
<1>7. CASE Not
  <2>1. Executing({"Not"}) /\ {"Not"} \in SUBSET OneOperand /\ \E b : Produce(1, BoolV(b))
    BY <1>7 DEF Not, OneOperand
  <2>q. QED BY <1>0, <2>1, Made, UnaryStep
<1>8. CASE Equality
  <2>1. Executing(EqualityOps) /\ EqualityOps \in SUBSET TwoOperands /\ \E b : Produce(2, BoolV(b))
    BY <1>8 DEF Equality, TwoOperands
  <2>q. QED BY <1>0, <2>1, Made, BinaryStep
<1>9. CASE Compare
  <2>1. Executing(CompareOps) /\ CompareOps \in SUBSET TwoOperands /\ \E b : Produce(2, BoolV(b))
    BY <1>9 DEF Compare, TwoOperands
  <2>q. QED BY <1>0, <2>1, Made, BinaryStep
<1>q. QED BY <1>1, <1>2, <1>3, <1>4, <1>5, <1>6, <1>7, <1>8, <1>9 DEF ValueStep

\* Where an instruction finds an array, the array exists.
LEMMA ArrayOperand ==
  ASSUME MachineInv, NEW x \in Value, Tag(x) = "array"
  PROVE  /\ Payload(x) \in 1 .. Len(heap) /\ heap[Payload(x)] \in Seq(Value)
         /\ LengthOf(x) = Len(heap[Payload(x)]) /\ LengthOf(x) \in Nat
<1> DEFINE V == Value
<1>1. heap \in Seq(Seq(V)) /\ Len(heap) \in Nat
  BY DEF MachineInv, TypeOK, HeapOK, Value
<1>2. Payload(x) \in 1 .. Len(heap)
  BY <1>1, Payloads DEF Value
<1> HIDE DEF V
<1>3. heap[Payload(x)] \in Seq(V) /\ Len(heap[Payload(x)]) \in Nat
  BY <1>1, <1>2
<1>q. QED BY <1>2, <1>3 DEF LengthOf, V

LEMMA SoundArray == ASSUME MachineInv, ArrayStep PROVE SoundStep
<1>0. TypeOK
  BY DEF MachineInv
<1>1. CASE MakeArray
  <2>1. /\ status = "running" /\ Ins.op = "MakeArray" /\ Ins \in Instruction
        /\ Needs(Ins) <= Len(stack)
    BY <1>1, Guarded DEF MakeArray
  <2>2. Needs(Ins) = Ins.a /\ Leaves(Ins) = 1 /\ Ins.op \in Straight
    BY <2>1, OpFacts, StraightOps
  <2> DEFINE V == Value
             n == Ins.a
             D == Drop(n)
             elements == SubSeq(stack, Len(stack) - n + 1, Len(stack))
  <2>3. /\ n \in 0 .. Len(stack) /\ Len(stack) \in Nat /\ Locals \in 0 .. Len(stack) - n
        /\ stack \in Seq(V)
    BY <1>0, <2>1, <2>2, Fetched DEF TypeOK, Instruction
  <2>4. D \in Seq(V) /\ Len(D) = Len(stack) - n /\ \A c \in 1 .. Locals : c \in 1 .. Len(D) /\ D[c] = stack[c]
    <3>1. D \in Seq(V) /\ Len(D) = Len(stack) - n /\ \A c \in 1 .. Len(stack) - n : D[c] = stack[c]
      BY <1>0, <2>3, Cells
    <3> HIDE DEF D, V
    <3>q. QED BY <2>3, <3>1
  <2>5. elements \in Seq(V)
    <3> HIDE DEF V
    <3>q. QED BY <2>3, SubSeqProperties
  <2>6. HeapOK(heap') /\ Len(heap') = Len(heap) + 1 /\ Len(heap) \in Nat
    BY <1>0, <1>1, <2>5, HeapAppend, Made DEF MakeArray, TypeOK, Value
  <2> DEFINE W == Value'
  <2>7. V \subseteq W /\ ArrayV(Len(heap) + 1) \in W
    BY <2>6, MoreArrays, Constructed DEF Value
  <2>8. D \in Seq(W)
    BY <2>4, <2>7, SeqMonotonic
  <2>9. stack' = Append(D, ArrayV(Len(heap) + 1))
    BY <1>1 DEF MakeArray
  <2> HIDE DEF D, W
  <2>10. stack' \in Seq(W) /\ Len(stack') = Len(D) + 1 /\ \A c \in 1 .. Len(D) : stack'[c] = D[c]
    BY <2>7, <2>8, <2>9
  <2>11. Len(stack') = Len(stack) - Needs(Ins) + Leaves(Ins) /\ \A c \in 1 .. Locals : stack'[c] = stack[c]
    BY <2>2, <2>3, <2>4, <2>10
  <2>12. globals' \in [1 .. Modules[prog].global_count -> W]
    BY <1>0, <1>1, <2>7 DEF MakeArray, TypeOK
  <2>13. frames' = MovedTo(Top.ip + 1) /\ UNCHANGED <<prog, status, exit_status>>
    BY <1>1 DEF MakeArray, Advance, GoTo, Running
  <2>14. Top.ip + 1 \in Nat /\ Top.ip + 1 \in Successors(Ins, Top.ip)
    BY <2>1, <2>2, Fetched, SuccessorsAre
  <2>15. Ins.op \notin ReturnOps \cup {"Call", "Halt"}
    BY <2>2 DEF Straight
  <2>q. QED BY <2>1, <2>6, <2>10, <2>11, <2>12, <2>13, <2>14, <2>15, FrameStep DEF W
<1>2. CASE IndexString
  <2>1. /\ Executing({"IndexGet"}) /\ {"IndexGet"} \in SUBSET TwoOperands
        /\ Payload(Peek(0)) \in 0 .. LengthOf(Peek(1)) - 1 /\ Tag(Peek(1)) = "str"
        /\ Produce(2, StrV(<< Payload(Peek(1))[Payload(Peek(0)) + 1] >>))
    BY <1>2 DEF IndexString, TwoOperands
  <2>2. status = "running" /\ Ins.op = "IndexGet" /\ Ins \in Instruction
    BY <2>1, Guarded
  <2>3. Peek(1) \in Value /\ Len(heap) \in Nat
    BY <2>2, OpFacts, Operand
  <2>4. Payload(Peek(1)) \in Seq(Nat) /\ LengthOf(Peek(1)) = Len(Payload(Peek(1)))
    BY <2>1, <2>3, Payloads DEF Value, LengthOf
  <2>5. << Payload(Peek(1))[Payload(Peek(0)) + 1] >> \in Seq(Nat)
    BY <2>1, <2>4
  <2>q. QED BY <1>0, <2>1, <2>5, Made, BinaryStep
<1>3. CASE IndexArray
  <2>1. /\ Executing({"IndexGet"}) /\ {"IndexGet"} \in SUBSET TwoOperands
        /\ Payload(Peek(0)) \in 0 .. LengthOf(Peek(1)) - 1 /\ Tag(Peek(1)) = "array"
        /\ Produce(2, heap[Payload(Peek(1))][Payload(Peek(0)) + 1])
    BY <1>3 DEF IndexArray, TwoOperands
  <2>2. status = "running" /\ Ins.op = "IndexGet" /\ Ins \in Instruction
    BY <2>1, Guarded
  <2>3. Peek(1) \in Value
    BY <2>2, OpFacts, Operand
  <2> DEFINE V == Value
             s == heap[Payload(Peek(1))]
  <2>4. s \in Seq(V) /\ Payload(Peek(0)) + 1 \in 1 .. Len(s)
    BY <2>1, <2>3, ArrayOperand
  <2>5. s[Payload(Peek(0)) + 1] \in V
    <3> HIDE DEF V, s
    <3>q. QED BY <2>4
  <2>q. QED BY <2>1, <2>5, BinaryStep
<1>4. CASE IndexSet
  <2>1. /\ status = "running" /\ Ins.op = "IndexSet" /\ Ins \in Instruction
        /\ Needs(Ins) <= Len(stack)
    BY <1>4, Guarded DEF IndexSet
  <2>2. Needs(Ins) = 3 /\ Leaves(Ins) = 0 /\ Ins.op \in Straight
    BY <2>1, OpFacts, StraightOps
  <2>3. Peek(0) \in Value /\ Peek(2) \in Value
    BY <2>1, <2>2, Operand
  <2>4. OperandTags(Ins) = << AnyTag, {"int"}, {"array"} >>
    BY <2>1 DEF OperandTags, IntBinaryOps, IntCompareOps, IntUnaryOps, FloatBinaryOps, FloatCompareOps,
                StrCompareOps, PeekJumps
  <2>5. Tag(Peek(2)) = "array"
    BY <1>4, <2>4 DEF IndexSet, Executing, WellTagged
  <2> DEFINE V == Value
             r == Payload(Peek(2))
             k == Payload(Peek(1)) + 1
             v == Peek(0)
             s == [heap[r] EXCEPT ![k] = v]
  <2>6. r \in 1 .. Len(heap) /\ heap[r] \in Seq(V) /\ k \in 1 .. Len(heap[r])
    BY <1>4, <2>3, <2>5, ArrayOperand DEF IndexSet
  <2>7. v \in V
    BY <2>3
  <2>8. heap' = [heap EXCEPT ![r] = [heap[r] EXCEPT ![k] = v]]
    BY <1>4, <2>6 DEF IndexSet
  <2>9. s \in Seq(V)
    <3> HIDE DEF V, r, k, v
    <3>q. QED BY <2>6, <2>7
  <2> HIDE DEF r, k, v
  <2>10. HeapOK(heap') /\ Len(heap') = Len(heap)
    <3>1. heap' = [heap EXCEPT ![r] = s]
      BY <2>8
    <3> HIDE DEF s
    <3>q. QED BY <1>0, <2>6, <2>9, <3>1, HeapUpdate DEF TypeOK, Value
  <2>11. Top.ip + 1 \in Successors(Ins, Top.ip) /\ Top.ip + 1 \in Nat
    BY <2>1, <2>2, SuccessorsAre, Fetched
  <2>q. QED BY <1>0, <1>4, <2>1, <2>2, <2>10, <2>11, DropStep
            DEF IndexSet, Advance, Straight, TypeOK
<1>5. CASE IndexFault
  BY <1>5, StopStep DEF IndexFault, Fail, Endings, Executing, Ready
<1>q. QED BY <1>1, <1>2, <1>3, <1>4, <1>5 DEF ArrayStep

LEMMA SoundJump == ASSUME MachineInv, JumpStep PROVE SoundStep
<1>0. TypeOK
  BY DEF MachineInv
<1>1. ASSUME NEW i \in Nat, status = "running", Ins.op \in Jumps \ {"JumpIfFalse"},
             i \in Successors(Ins, Top.ip), GoTo(i), Running, UNCHANGED <<stack, globals, heap, out>>
      PROVE  SoundStep
  <2>1. Needs(Ins) = Leaves(Ins) /\ Needs(Ins) \in Nat
    BY <1>1, Fetched, OpFacts DEF Jumps
  <2>2. Len(stack') = Len(stack) - Needs(Ins) + Leaves(Ins)
    BY <1>1, <2>1, Fetched
  <2>3. /\ HeapOK(heap') /\ stack' \in Seq(Value') /\ globals' \in [1 .. Modules[prog].global_count -> Value']
        /\ frames' = MovedTo(i) /\ UNCHANGED <<prog, status, exit_status>>
    BY <1>0, <1>1 DEF TypeOK, Value, GoTo, Running
  <2>4. Ins.op \notin ReturnOps \cup {"Call", "Halt"}
    BY <1>1 DEF Jumps, PeekJumps, ReturnOps
  <2>q. QED BY <1>1, <2>2, <2>3, <2>4, FrameStep
<1>2. CASE Jump
  <2>1. status = "running" /\ Ins.op = "Jump" /\ Ins \in Instruction
    BY <1>2, Guarded DEF Jump
  <2>2. Ins.a \in Nat /\ Ins.a \in Successors(Ins, Top.ip)
    BY <2>1, SuccessorsAre DEF Instruction
  <2>q. QED BY <1>1, <1>2, <2>1, <2>2 DEF Jump, Jumps
<1>3. CASE PeekJump
  <2>1. status = "running" /\ Ins.op \in PeekJumps /\ Ins \in Instruction /\ Top.ip \in Nat
    BY <1>3, Guarded, Fetched DEF PeekJump
  <2>2. PICK i \in {Ins.a, Top.ip + 1} : GoTo(i)
    BY <1>3 DEF PeekJump
  <2>3. i \in Nat /\ i \in Successors(Ins, Top.ip)
    BY <2>1, SuccessorsAre DEF Instruction
  <2>q. QED BY <1>1, <1>3, <2>1, <2>2, <2>3 DEF PeekJump, Jumps, PeekJumps
<1>4. CASE JumpIfFalse
  <2>1. status = "running" /\ Ins.op = "JumpIfFalse" /\ Ins \in Instruction /\ Top.ip \in Nat
    BY <1>4, Guarded, Fetched DEF JumpIfFalse
  <2>2. PICK i \in {Ins.a, Top.ip + 1} : GoTo(i)
    BY <1>4 DEF JumpIfFalse
  <2>3. i \in Nat /\ i \in Successors(Ins, Top.ip)
    BY <2>1, SuccessorsAre DEF Instruction
  <2>4. Needs(Ins) = 1 /\ Leaves(Ins) = 0 /\ Ins.op \notin ReturnOps \cup {"Call", "Halt"}
    BY <2>1, OpFacts DEF ReturnOps
  <2>q. QED BY <1>0, <1>4, <2>1, <2>2, <2>3, <2>4, DropStep DEF JumpIfFalse, TypeOK
<1>q. QED BY <1>2, <1>3, <1>4 DEF JumpStep

\* A call makes a frame of its arguments and of zeros, right above the caller's
\* other operands.
LEMMA SoundCall == ASSUME MachineInv, Call PROVE SoundStep
<1>1. /\ status = "running" /\ Ins.op = "Call" /\ Ins \in Instruction /\ TypeOK
      /\ Needs(Ins) <= Len(stack)
  BY Guarded DEF Call
<1>2. Needs(Ins) = Ins.b /\ prog \in DOMAIN Modules
  BY <1>1, OpFacts DEF TypeOK
<1>3. /\ OperandsOK(prog, Top.fn, Ins) /\ Top \in FramesOf(prog) /\ Top.ip \in Nat
      /\ Len(stack) \in Nat /\ Locals \in Nat /\ Locals + Ins.b <= Len(stack)
      /\ Top.base \in Nat /\ Fn.local_count \in Nat /\ Ins.a \in Nat /\ Ins.b \in Nat
  BY <1>1, <1>2, Fetched DEF Instruction
<1> DEFINE base == Len(stack) - Ins.b
           size == base + Callee.local_count
<1>4. Ins.a + 1 \in FunctionIds(prog) /\ Callee = Function(prog, Ins.a + 1) /\ Callee.local_count \in Nat
  <2>1. Ins.a + 1 \in FunctionIds(prog) /\ Ins.a + 1 # 0
    BY <1>1, <1>2, <1>3, ModuleAssumption DEF OperandsOK, FunctionIds
  <2>2. Callee = Function(prog, Ins.a + 1)
    BY <2>1 DEF Callee, Function
  <2>3. FunctionOK(Function(prog, Ins.a + 1))
    BY <1>2, <2>1, ModuleAssumption
  <2>q. QED BY <2>1, <2>2, <2>3 DEF FunctionOK
<1>5. base \in Nat /\ size \in Nat /\ size >= base /\ Locals <= base
  <2>1. base \in Nat /\ Locals <= base
    BY <1>3
  <2> DEFINE extra == Callee.local_count
  <2>2. extra \in Nat
    BY <1>4
  <2> HIDE DEF base, extra
  <2>3. base + extra \in Nat /\ base + extra >= base
    BY <2>1, <2>2
  <2>q. QED BY <2>1, <2>3 DEF extra
<1> DEFINE V == Value
<1>6. /\ stack \in Seq(V) /\ IntV(0) \in V /\ stack' = Resized(size)
      /\ V' = V /\ HeapOK(heap') /\ globals' \in [1 .. Modules[prog].global_count -> V]
      /\ prog' = prog /\ status' = status /\ exit_status' = exit_status
      /\ frames' = Append(MovedTo(Top.ip + 1), Frame(Ins.a + 1, 1, base))
  BY <1>1, Made DEF Call, TypeOK, Running, Value
<1> HIDE DEF V, size
<1>7. /\ stack' \in Seq(V) /\ Len(stack') = size
      /\ \A c \in 1 .. base : stack'[c] = stack[c]
  <2>1. stack' = [i \in 1 .. size |-> IF i <= Len(stack) THEN stack[i] ELSE IntV(0)]
    BY <1>6 DEF Resized
  <2>2. \A i \in 1 .. size : (IF i <= Len(stack) THEN stack[i] ELSE IntV(0)) \in V
    BY <1>3, <1>6
  <2>3. stack' \in [1 .. size -> V]
    BY <2>1, <2>2
  <2>4. stack' \in Seq(V) /\ Len(stack') = size
    BY <1>5, <2>3
  <2>5. base <= Len(stack)
    BY <1>3
  <2>q. QED BY <1>3, <1>5, <2>1, <2>4, <2>5
<1>8. frames' \in Seq(FramesOf(prog)) /\ Len(frames') = Len(frames) + 1 /\ Len(frames) \in Nat
  <2>1. frames \in Seq(FramesOf(prog)) /\ Len(frames) > 0 /\ Len(frames) \in Nat
    BY <1>1 DEF TypeOK
  <2>2. MovedTo(Top.ip + 1) \in Seq(FramesOf(prog)) /\ Len(MovedTo(Top.ip + 1)) = Len(frames)
    BY <1>3, <2>1, P!Moving, FrameAssumptions, SameModules
  <2>3. Frame(Ins.a + 1, 1, base) \in FramesOf(prog)
    BY <1>4, <1>5 DEF FramesOf, Frame
  <2> HIDE DEF base
  <2>q. QED BY <1>6, <2>1, <2>2, <2>3
<1>9. TypeOK'
  BY <1>1, <1>6, <1>7, <1>8 DEF TypeOK, V
<1>10. P!Call
  <2>1. Len(frames) < MaxCallDepth /\ Ins.op = "Call"
    BY <1>1 DEF Call
  <2>2. P!Function(prog, Ins.a + 1) = Callee /\ P!Ins = Ins /\ P!Top = Top
        /\ P!MovedTo(Top.ip + 1) = MovedTo(Top.ip + 1)
        /\ P!Frame(Ins.a + 1, 1, base) = Frame(Ins.a + 1, 1, base)
    BY <1>4, SameModules DEF P!Frame, Frame
  <2>q. QED BY <1>1, <1>6, <1>7, <2>1, <2>2 DEF P!Call, size
<1>11. StaysInFrame
  BY <1>1, <1>3, <1>5, <1>7 DEF StaysInFrame, Locals
<1>q. QED BY <1>9, <1>10, <1>11 DEF SoundStep, P!Next

\* A return gives the frame back for one value.
LEMMA ReturnStep ==
  ASSUME MachineInv, status = "running", Ins.op \in ReturnOps, NEW v \in Value, ReturnWith(v)
  PROVE  SoundStep
<1>2. TypeOK
  BY DEF MachineInv
<1> DEFINE V == Value
<1>3. v \in V
  OBVIOUS
<1>4. Top.base \in 0 .. Len(stack) /\ Len(stack) \in Nat /\ Fn.local_count \in Nat
  BY Fetched DEF Locals
<1>5. /\ stack \in Seq(V) /\ stack' = Append(SubSeq(stack, 1, Top.base), v)
      /\ V' = V /\ HeapOK(heap') /\ globals' \in [1 .. Modules[prog].global_count -> V]
      /\ UNCHANGED <<prog, status, exit_status>>
      /\ frames' = SubSeq(frames, 1, Len(frames) - 1) /\ Len(frames) > 1
      /\ frames \in Seq(FramesOf(prog))
  BY <1>2 DEF ReturnWith, TypeOK, Running, Value
<1> HIDE DEF V
<1>6. /\ stack' \in Seq(V) /\ Len(stack') = Top.base + 1
      /\ \A c \in 1 .. Top.base : stack'[c] = stack[c]
  <2> DEFINE D == SubSeq(stack, 1, Top.base)
  <2>1. D \in Seq(V) /\ Len(D) = Top.base /\ \A c \in 1 .. Top.base : D[c] = stack[c]
    BY <1>4, <1>5, SubSeqProperties
  <2>2. stack' = Append(D, v)
    BY <1>5
  <2> HIDE DEF D
  <2>q. QED BY <1>3, <1>4, <2>1, <2>2
<1>7. frames' \in Seq(FramesOf(prog)) /\ frames' # <<>>
  <2> DEFINE S == FramesOf(prog)
  <2>1. frames \in Seq(S) /\ frames' = SubSeq(frames, 1, Len(frames) - 1) /\ Len(frames) > 1
    BY <1>5
  <2> HIDE DEF S
  <2>2. frames' \in Seq(S) /\ Len(frames') \in Nat /\ Len(frames') > 0
    BY <2>1, SubSeqProperties
  <2>3. frames' # <<>>
    BY <2>2
  <2>q. QED BY <2>2, <2>3 DEF S
<1>8. TypeOK'
  BY <1>2, <1>5, <1>6, <1>7 DEF TypeOK, V
<1>9. P!Return
  BY <1>2, <1>5, <1>6, SameModules DEF P!Return, P!ReturnOps, ReturnOps
<1>10. StaysInFrame
  BY <1>2, <1>4, <1>6 DEF StaysInFrame
<1>q. QED BY <1>8, <1>9, <1>10 DEF SoundStep, P!Next

LEMMA SoundReturn == ASSUME MachineInv, Return \/ ReturnVoid PROVE SoundStep
<1>1. CASE Return
  <2>1. status = "running" /\ Ins.op = "Return" /\ Ins \in Instruction /\ ReturnWith(Peek(0))
    BY <1>1, Guarded DEF Return
  <2>2. Peek(0) \in Value
    BY <2>1, OpFacts, Operand
  <2>q. QED BY <2>1, <2>2, ReturnStep DEF ReturnOps
<1>2. CASE ReturnVoid
  <2>1. status = "running" /\ Ins.op = "ReturnVoid" /\ TypeOK /\ ReturnWith(IntV(0))
    BY <1>2, Guarded DEF ReturnVoid
  <2>q. QED BY <2>1, Made, ReturnStep DEF ReturnOps
<1>q. QED BY <1>1, <1>2

\* A builtin takes its arguments off the stack, as many as its signature admits.
LEMMA NativeCalled ==
  ASSUME MachineInv, Executing({"CallNative"}), NEW r \in NativeCall
  PROVE  GoodOutcome(r, heap) /\ HeapOK(heap) /\ Len(heap) \in Nat
<1>1. /\ status = "running" /\ Ins.op = "CallNative" /\ Ins \in Instruction /\ TypeOK
      /\ Needs(Ins) <= Len(stack)
  BY Guarded
<1>2. Needs(Ins) = Ins.b /\ Ins.b \in Nat /\ Ins.a \in Nat
  BY <1>1, OpFacts DEF Instruction
<1>3. Ins.a \in 0 .. Len(NativeNames) - 1 /\ Ins.b \in NativeArity(NativeNames[Ins.a + 1])
  <2>1. FunctionOK(Fn) /\ Top.ip \in 1 .. Len(Fn.code) /\ Ins = Fn.code[Top.ip]
    BY <1>1, Fetched DEF Ins
  <2>2. Ins.a < Len(NativeNames) /\ Ins.b \in NativeArity(NativeNames[Ins.a + 1])
    BY <1>1, <2>1 DEF FunctionOK
  <2>q. QED BY <1>2, <2>2 DEF NativeNames
<1> DEFINE V == Value
           args == SubSeq(stack, Len(stack) - Ins.b + 1, Len(stack))
<1>4. args \in Seq(V) /\ Len(args) = Ins.b
  <2>1. stack \in Seq(V) /\ Len(stack) \in Nat /\ Ins.b \in 0 .. Len(stack)
    BY <1>1, <1>2, Fetched DEF TypeOK
  <2> HIDE DEF V
  <2>q. QED BY <2>1, SubSeqProperties
<1>5. r \in NativeOutcomes(Ins.a, args, heap, out)
  BY DEF NativeCall
<1>6. HeapOK(heap) /\ Len(heap) \in Nat
  BY <1>1, Made DEF TypeOK
<1> HIDE DEF args
<1>q. QED BY <1>3, <1>4, <1>5, <1>6, NativeOutcomesGood DEF Value

LEMMA SoundNative == ASSUME MachineInv, CallNative PROVE SoundStep
<1>1. PICK r \in NativeCall :
        /\ r.kind = "value"
        /\ stack' = Append(Drop(Ins.b), r.value)
        /\ heap' = r.heap
        /\ Advance /\ Running /\ UNCHANGED globals
  BY DEF CallNative
<1>2. Executing({"CallNative"}) /\ status = "running" /\ Ins.op = "CallNative" /\ Ins \in Instruction
      /\ TypeOK /\ Needs(Ins) <= Len(stack)
  BY Guarded DEF CallNative
<1>3. Needs(Ins) = Ins.b /\ Leaves(Ins) = 1 /\ Ins.op \in Straight
  BY <1>2, OpFacts, StraightOps
<1> DEFINE V == Value
           W == Value'
           n == Ins.b
           D == Drop(n)
<1>4. HeapOK(heap') /\ V \subseteq W /\ r.value \in W
  BY <1>1, <1>2, NativeCalled, MoreArrays DEF GoodOutcome, Value
<1>5. n \in 0 .. Len(stack) /\ Len(stack) \in Nat /\ Locals \in 0 .. Len(stack) - n
  BY <1>2, <1>3, Fetched DEF Instruction
<1>6. D \in Seq(V) /\ Len(D) = Len(stack) - n /\ \A c \in 1 .. Len(stack) - n : D[c] = stack[c]
  BY <1>2, <1>5, Cells
<1>7. D \in Seq(W)
  BY <1>4, <1>6, SeqMonotonic
<1>8. stack' = Append(D, r.value)
  BY <1>1
<1> HIDE DEF D, V, W
<1>9. stack' \in Seq(W) /\ Len(stack') = Len(D) + 1 /\ \A c \in 1 .. Len(D) : stack'[c] = D[c]
  BY <1>4, <1>7, <1>8
<1>10. /\ Len(stack') = Len(stack) - Needs(Ins) + Leaves(Ins)
       /\ \A c \in 1 .. Locals : stack'[c] = stack[c]
  <2> HIDE DEF n
  <2>1. Len(D) = Len(stack) - n /\ Needs(Ins) = n /\ Leaves(Ins) = 1
    BY <1>3, <1>6 DEF n
  <2>2. \A c \in 1 .. Locals : c \in 1 .. Len(D) /\ D[c] = stack[c]
    BY <1>5, <1>6
  <2>q. QED BY <1>5, <1>9, <2>1, <2>2
<1>11. globals' \in [1 .. Modules[prog].global_count -> W]
  BY <1>1, <1>2, <1>4 DEF TypeOK, V
<1>12. frames' = MovedTo(Top.ip + 1) /\ UNCHANGED <<prog, status, exit_status>>
  BY <1>1 DEF Advance, GoTo, Running
<1>13. Top.ip + 1 \in Nat /\ Top.ip + 1 \in Successors(Ins, Top.ip)
  BY <1>2, <1>3, Fetched, SuccessorsAre
<1>14. Ins.op \notin ReturnOps \cup {"Call", "Halt"}
  BY <1>3 DEF Straight
<1>q. QED BY <1>2, <1>4, <1>9, <1>10, <1>11, <1>12, <1>13, <1>14, FrameStep DEF W

LEMMA SoundCalls == ASSUME MachineInv, CallStep PROVE SoundStep
<1>1. CASE CallTooDeep
  BY <1>1, StopStep DEF CallTooDeep, Fail, Endings, Executing, Ready
<1>2. CASE CallNativeStop
  <2>1. PICK r \in NativeCall : r.kind # "value" /\ Stop(r.kind, r.code)
    BY <1>2 DEF CallNativeStop
  <2>2. Executing({"CallNative"}) /\ status = "running"
    BY <1>2, Guarded DEF CallNativeStop
  <2>3. r.kind \in Endings /\ r.code \in Nat
    BY <2>1, <2>2, NativeCalled DEF GoodOutcome, Endings
  <2>q. QED BY <2>1, <2>2, <2>3, StopStep
<1>q. QED BY <1>1, <1>2, SoundCall, SoundReturn, SoundNative DEF CallStep

LEMMA SoundEnd == ASSUME MachineInv, EndStep PROVE SoundStep
BY StopStep DEF EndStep, Halt, BadVariant, Executing, Ready, Endings

---------------------------------------------------------------------------
(* The theorems.                                                           *)

LEMMA MachineInit == Init => MachineInv /\ P!Init
<1> SUFFICES ASSUME Init PROVE MachineInv /\ P!Init OBVIOUS
<1>1. prog \in DOMAIN Modules /\ Modules[prog].global_count \in Nat
  BY ModuleAssumption DEF Init
<1>2. 0 \in FunctionIds(prog) /\ Modules[prog].script.local_count \in Nat
  <2>1. 0 \in FunctionIds(prog)
    BY <1>1, ModuleAssumption DEF FunctionIds
  <2>2. FunctionOK(Function(prog, 0))
    BY <1>1, <2>1, ModuleAssumption
  <2>q. QED BY <2>1, <2>2 DEF FunctionOK, Function
<1>3. heap = <<>> /\ HeapOK(heap) /\ Len(heap) = 0 /\ IntV(0) \in Value
  <2>1. heap = <<>> /\ Len(heap) = 0
    BY DEF Init
  <2> DEFINE S == Seq(ValueUpTo(Len(heap)))
  <2>2. heap \in Seq(S)
    <3> HIDE DEF S
    <3>q. QED BY <2>1
  <2>q. QED BY <2>1, <2>2, Constructed DEF HeapOK, Value
<1> DEFINE V == Value
           cells == Modules[prog].script.local_count
<1>4. stack \in Seq(V) /\ Len(stack) = cells
  <2>1. cells \in Nat /\ IntV(0) \in V /\ stack = [i \in 1 .. cells |-> IntV(0)]
    BY <1>2, <1>3 DEF Init, Zeros
  <2> HIDE DEF V, cells
  <2>q. QED BY <2>1
<1>5. globals \in [1 .. Modules[prog].global_count -> V]
  BY <1>1, <1>3 DEF Init, Zeros
<1>6. frames \in Seq(FramesOf(prog)) /\ frames # <<>>
  <2>1. Frame(0, 1, 0) \in FramesOf(prog)
    BY <1>2 DEF FramesOf, Frame
  <2>q. QED BY <2>1 DEF Init
<1>7. TypeOK
  BY <1>1, <1>3, <1>4, <1>5, <1>6 DEF Init, TypeOK
<1>8. P!Init
  BY <1>4 DEF Init, P!Init, P!Frame, Frame
<1>q. QED BY <1>7, <1>8, P!FrameInit, FrameAssumptions DEF MachineInv

LEMMA MachineNext ==
  MachineInv /\ [Next]_vars => MachineInv' /\ [P!Next]_P!vars /\ [StaysInFrame]_vars
<1> SUFFICES ASSUME MachineInv, [Next]_vars
             PROVE  MachineInv' /\ [P!Next]_P!vars /\ [StaysInFrame]_vars
  OBVIOUS
<1>1. CASE UNCHANGED vars
  <2>1. TypeOK' /\ UNCHANGED P!vars
    BY <1>1 DEF MachineInv, TypeOK, Value, vars, machine, P!vars
  <2>2. P!FrameInv'
    BY <2>1, P!FrameNext, FrameAssumptions DEF MachineInv
  <2>q. QED BY <1>1, <2>1, <2>2 DEF MachineInv
<1>2. CASE SoundStep
  <2>1. P!FrameInv'
    BY <1>2, P!FrameNext, FrameAssumptions DEF MachineInv, SoundStep
  <2>q. QED BY <1>2, <2>1 DEF MachineInv, SoundStep
<1>3. CASE Finished
  BY <1>1, <1>3 DEF Finished
<1>q. QED
  BY <1>1, <1>2, <1>3, SoundStack, SoundVar, SoundValue, SoundArray, SoundJump, SoundCalls, SoundEnd
     DEF Next

\* The types and the frames are in order in every state.
LEMMA MachineInvariant == Spec => []MachineInv
<1>1. Init => MachineInv
  BY MachineInit
<1>2. MachineInv /\ [Next]_vars => MachineInv'
  BY MachineNext
<1>q. QED BY <1>1, <1>2, PTL DEF Spec

\* Every cell, global and array element holds a value of its type, and no value
\* refers to an array that does not exist, whatever the bytecode does.
THEOREM Types == Spec => []TypeOK
<1>1. MachineInv => TypeOK
  BY DEF MachineInv
<1>q. QED BY <1>1, MachineInvariant, PTL

\* The machine implements its calling convention: read as FireFrames reads it,
\* every behaviour of the machine is one of the convention.
THEOREM Implements == Spec => KeepsConvention
<1>1. Init => Frames!Init
  BY MachineInit DEF P!Init, Frames!Init, P!Frame, Frames!Frame
<1>2. P!Next => Frames!Next
  <2>1. P!Step => Frames!Step
    BY DEF P!Step, Frames!Step, P!Ins, Frames!Ins, P!Top, Frames!Top, P!Function, Frames!Function,
           P!Successors, Frames!Successors, P!MovedTo, Frames!MovedTo, P!Frame, Frames!Frame,
           P!Needs, Frames!Needs, P!Leaves, Frames!Leaves, P!ReturnOps, Frames!ReturnOps,
           P!PeekJumps, Frames!PeekJumps, P!PushOps, Frames!PushOps, P!IntUnaryOps, Frames!IntUnaryOps
  <2>2. P!Call => Frames!Call
    BY DEF P!Call, Frames!Call, P!Ins, Frames!Ins, P!Top, Frames!Top, P!Function, Frames!Function,
           P!MovedTo, Frames!MovedTo, P!Frame, Frames!Frame
  <2>3. P!Return => Frames!Return
    BY DEF P!Return, Frames!Return, P!Ins, Frames!Ins, P!Top, Frames!Top,
           P!Function, Frames!Function, P!ReturnOps, Frames!ReturnOps
  <2>4. P!Stop => Frames!Stop
    BY DEF P!Stop, Frames!Stop, P!Top, Frames!Top, P!MovedTo, Frames!MovedTo, P!Frame, Frames!Frame
  <2>q. QED BY <2>1, <2>2, <2>3, <2>4 DEF P!Next, Frames!Next
<1>3. MachineInv /\ [Next]_vars => [Frames!Next]_Frames!vars
  BY MachineNext, <1>2 DEF P!vars, Frames!vars
<1>q. QED BY <1>1, <1>3, MachineInvariant, PTL DEF Spec, KeepsConvention, Frames!Spec

\* Nothing is read past the end of the stack, the code, the constants, the
\* globals or the functions.
THEOREM InBounds == Spec => []NeverOutOfBounds
<1>1. MachineInv => NeverOutOfBounds
  <2> SUFFICES ASSUME MachineInv, status = "running"
               PROVE  /\ Ready /\ OperandsOK(prog, Top.fn, Ins)
                      /\ Ins.op \in {"GetLocal", "SetLocal"} => Slot <= Len(stack) - Needs(Ins)
    BY DEF NeverOutOfBounds
  <2>1. Ready /\ OperandsOK(prog, Top.fn, Ins)
    BY Fetched DEF Ready
  <2>2. Ins.op \in {"GetLocal", "SetLocal"} => Slot <= Len(stack) - Needs(Ins)
    BY Fetched DEF OperandsOK, Slot, Locals, Fn, Instruction
  <2>q. QED BY <2>1, <2>2
<1>q. QED BY <1>1, MachineInvariant, PTL

\* A caller finds what it left on the stack: no step reaches into another frame.
THEOREM Isolation == Spec => KeepsToItsFrame
<1>1. MachineInv /\ [Next]_vars => [StaysInFrame]_vars
  BY MachineNext
<1>q. QED BY <1>1, MachineInvariant, PTL DEF Spec, KeepsToItsFrame
=============================================================================
