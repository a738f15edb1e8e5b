---------------------------- MODULE FireValues ----------------------------
(***************************************************************************)
(* Fire's runtime values and the arithmetic the VM performs on them.       *)
(*                                                                         *)
(* A value is a tag with a payload, as in the std::variant behind `Value`. *)
(* An `int` is a two's-complement integer of 2*IntHalf values; a `str` is  *)
(* a sequence of bytes; a `float` is an opaque payload that can only be    *)
(* compared; an array value is a REFERENCE, the address of its elements in *)
(* a heap that the machine owns, so that two values can share one array as *)
(* two `shared_ptr`s do.                                                   *)
(***************************************************************************)
EXTENDS Integers, Sequences

CONSTANTS
  IntHalf,    \* 2^63 in the code: an int lies in -IntHalf .. IntHalf-1
  ShiftMax,   \* 63 in the code: the largest legal shift count
  FloatVals   \* the float payloads a float operation may produce

ASSUME ValueAssumption ==
  /\ IntHalf \in Nat \ {0}
  /\ ShiftMax \in Nat
  /\ FloatVals \subseteq Int
  /\ FloatVals # {}

IntRange == (-IntHalf) .. (IntHalf - 1)

\* The one float payload that is not equal to itself.
NaN == -1

IntV(n)   == <<"int", n>>
FloatV(x) == <<"float", x>>
BoolV(b)  == <<"bool", IF b THEN TRUE ELSE FALSE>>
StrV(s)   == <<"str", s>>
ArrayV(r) == <<"array", r>>

Tag(x)     == x[1]
Payload(x) == x[2]

\* The values whose array references, if any, are among the first n arrays.
ValueUpTo(n) ==
  ({"int"} \X IntRange) \cup ({"float"} \X Int) \cup ({"bool"} \X BOOLEAN)
    \cup ({"str"} \X Seq(Nat)) \cup ({"array"} \X (1 .. n))

\* A heap in which every reference an array holds is to an array that exists.
HeapOK(h) == h \in Seq(Seq(ValueUpTo(Len(h))))

---------------------------------------------------------------------------
(* Integer arithmetic.                                                     *)

\* Two integers with the same 64-bit pattern: unsigned wrap-around.
SameBits(a, b) == (a - b) % (2 * IntHalf) = 0

AbsVal(a) == IF a < 0 THEN -a ELSE a

\* C++ division truncates toward zero; TLA+'s \div rounds down.
Quotient(l, r) ==
  IF (l < 0) = (r < 0) THEN AbsVal(l) \div AbsVal(r)
                       ELSE -(AbsVal(l) \div AbsVal(r))

Remainder(l, r) == l - r * Quotient(l, r)

\* Bit i of the two's-complement pattern of x.
Bit(x, i) == (x \div (2 ^ i)) % 2

IntBinaryOps ==
  {"AddInt", "SubInt", "MulInt", "DivInt", "ModInt",
   "BitAnd", "BitOr", "BitXor", "ShiftLeft", "ShiftRight"}

IntUnaryOps == {"NegInt", "BitNot"}

\* A right operand that fails the operation before the left one is looked at.
RightFault(op, r) ==
  \/ op \in {"DivInt", "ModInt"} /\ r = 0
  \/ op \in {"ShiftLeft", "ShiftRight"} /\ r \notin 0 .. ShiftMax

\* The integer operations that fail at run time instead of producing a value.
IntFault(op, l, r) ==
  RightFault(op, r) \/ (op = "DivInt" /\ l = -IntHalf /\ r = -1)

\* n is what a non-faulting binary integer operation leaves on the stack.
IsIntResult(op, l, r, n) ==
  CASE op = "AddInt"     -> SameBits(n, l + r)
    [] op = "SubInt"     -> SameBits(n, l - r)
    [] op = "MulInt"     -> SameBits(n, l * r)
    [] op = "DivInt"     -> n = Quotient(l, r)
    [] op = "ModInt"     -> n = Remainder(l, r)
    [] op = "ShiftLeft"  -> SameBits(n, l * (2 ^ r))
    [] op = "ShiftRight" -> n = l \div (2 ^ r)
    [] op = "BitAnd"     ->
         \A i \in 0 .. ShiftMax : Bit(n, i) = Bit(l, i) * Bit(r, i)
    [] op = "BitOr"      ->
         \A i \in 0 .. ShiftMax :
           Bit(n, i) = Bit(l, i) + Bit(r, i) - Bit(l, i) * Bit(r, i)
    [] op = "BitXor"     ->
         \A i \in 0 .. ShiftMax : Bit(n, i) = (Bit(l, i) + Bit(r, i)) % 2

IsIntUnaryResult(op, x, n) ==
  CASE op = "NegInt" -> SameBits(n, -x)
    [] op = "BitNot" -> n = -x - 1

---------------------------------------------------------------------------
(* Comparison.                                                             *)

IntCompareOps   == {"LessInt", "LessEqualInt", "GreaterInt", "GreaterEqualInt"}
FloatCompareOps == {"LessFloat", "LessEqualFloat", "GreaterFloat", "GreaterEqualFloat"}
StrCompareOps   == {"LessStr", "LessEqualStr", "GreaterStr", "GreaterEqualStr"}

IntCompare(op, l, r) ==
  CASE op = "LessInt"         -> l < r
    [] op = "LessEqualInt"    -> l <= r
    [] op = "GreaterInt"      -> l > r
    [] op = "GreaterEqualInt" -> l >= r

FloatCompare(op, l, r) ==
  /\ l # NaN /\ r # NaN
  /\ CASE op = "LessFloat"         -> l < r
       [] op = "LessEqualFloat"    -> l <= r
       [] op = "GreaterFloat"      -> l > r
       [] op = "GreaterEqualFloat" -> l >= r

\* Byte order: a differs from b first at a smaller byte, or is a proper prefix.
BytesLess(a, b) ==
  \E k \in 1 .. Len(b) :
    /\ k <= Len(a) + 1
    /\ \A j \in 1 .. k - 1 : a[j] = b[j]
    /\ k <= Len(a) => a[k] < b[k]

StrCompare(op, l, r) ==
  CASE op = "LessStr"         -> BytesLess(l, r)
    [] op = "LessEqualStr"    -> ~BytesLess(r, l)
    [] op = "GreaterStr"      -> BytesLess(r, l)
    [] op = "GreaterEqualStr" -> ~BytesLess(l, r)

\* Values and heaps without regard to which arrays exist.
AnyValue == ({"int", "float", "array"} \X Int) \cup ({"bool"} \X BOOLEAN) \cup ({"str"} \X Seq(Nat))
AnyHeap  == Seq(Seq(AnyValue))

\* Structural equality over the arrays in h. One array is equal to itself
\* without a look at its elements, so an array holding NaN equals itself.
EqualIn[h \in AnyHeap, d \in Nat, x \in AnyValue, y \in AnyValue] ==
  /\ Tag(x) = Tag(y)
  /\ IF Tag(x) = "float" THEN Payload(x) = Payload(y) /\ Payload(x) # NaN
     ELSE \/ Payload(x) = Payload(y)
          \/ /\ Tag(x) = "array" /\ d > 0
             /\ Len(h[Payload(x)]) = Len(h[Payload(y)])
             /\ \A i \in 1 .. Len(h[Payload(x)]) :
                  EqualIn[h, d - 1, h[Payload(x)][i], h[Payload(y)][i]]

\* What `print` shows of a value: arrays by their contents at that moment.
Shown[h \in AnyHeap, d \in Nat, x \in AnyValue] ==
  IF Tag(x) = "array"
    THEN <<"array", [i \in 1 .. Len(h[Payload(x)]) |->
                       IF d > 0 THEN Shown[h, d - 1, h[Payload(x)][i]] ELSE <<>>]>>
    ELSE x

\* The depth Len(h) suffices: Fire's types let no array contain itself.
Equals(h, a, b) == EqualIn[h, Len(h), a, b]
Display(h, a)   == Shown[h, Len(h), a]
=============================================================================
