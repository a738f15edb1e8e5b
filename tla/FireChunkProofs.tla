--------------------------- MODULE FireChunkProofs ---------------------------
(***************************************************************************)
(* For every number of values a byte may have: a word that is written and  *)
(* read again is the same word, whatever lies around it in the chunk; the  *)
(* chunk of every function says what was generated, instruction by         *)
(* instruction; and its table of spans gives each byte the span it was     *)
(* written with, so that a failure is reported where it happened.          *)
(*                                                                         *)
(* The model goes through instructions, pieces and bytes by functions that *)
(* are defined recursively. Each is first given as an iteration, whose     *)
(* existence is IterationExists; what holds of its first n values is then  *)
(* shown by taking the least n for which it fails.                         *)
(***************************************************************************)
EXTENDS FireListing, FireVMProofs, SequenceTheorems, FiniteSetTheorems,
        WellFoundedInduction, TLAPS

---------------------------------------------------------------------------
(* Division by the width of a byte.                                        *)

\* A number is its last digit and what is left of it.
LEMMA Digits ==
  ASSUME NEW b \in Nat \ {0}, NEW n \in Nat
  PROVE  /\ n % b \in 0 .. b - 1
         /\ n \div b \in Nat
         /\ n = b * (n \div b) + (n % b)
<1>1. n % b \in 0 .. b - 1 /\ n \div b \in Int /\ n = b * (n \div b) + (n % b)
  OBVIOUS
<1> DEFINE q == n \div b
<1>2. q \in Int /\ b * q > -b
  BY <1>1
<1> HIDE DEF q
<1>3. q <= -1 => b * q <= -b
  BY <1>2
<1>4. q \in Nat
  BY <1>2, <1>3
<1>5. n \div b \in Nat
  BY <1>4 DEF q
<1> QED
  BY <1>1, <1>5

\* What is below b * c has a digit less after the division by b.
LEMMA OneDigitLess ==
  ASSUME NEW b \in Nat \ {0}, NEW c \in Nat \ {0}, NEW n \in 0 .. b * c - 1
  PROVE  n \div b \in 0 .. c - 1
<1> DEFINE q == n \div b
<1>1. q \in Nat /\ b * q <= n
  BY Digits
<1> HIDE DEF q
<1>2. b * q < b * c
  BY <1>1
<1>3. ASSUME q >= c
      PROVE  b * q >= b * c
  BY <1>1, <1>3
<1>4. q < c
  BY <1>1, <1>2, <1>3
<1> QED
  BY <1>1, <1>4 DEF q

\* What is below b is its own remainder.
LEMMA LastDigit ==
  ASSUME NEW b \in Nat \ {0}, NEW n \in 0 .. b - 1
  PROVE  n % b = n
<1>1. n \div b \in 0 .. 1 - 1
  BY OneDigitLess
<1>2. n = b * (n \div b) + (n % b)
  BY Digits
<1> QED
  BY <1>1, <1>2

\* There is one way to divide.
LEMMA OneQuotient ==
  ASSUME NEW b \in Nat \ {0}, NEW q \in Nat, NEW r \in 0 .. b - 1
  PROVE  (b * q + r) \div b = q
<1> DEFINE n == b * q + r
           d == n \div b
           e == n % b
<1>1. n \in Nat
  OBVIOUS
<1>2. d \in Nat /\ e \in 0 .. b - 1 /\ n = b * d + e
  BY <1>1, Digits
<1>3. b * d + e = b * q + r
  BY <1>2
<1> HIDE DEF n, d, e
<1>4. ASSUME d > q
      PROVE  b * d >= b * q + b
  BY <1>2, <1>4
<1>5. ASSUME d < q
      PROVE  b * q >= b * d + b
  BY <1>2, <1>5
<1>6. ~(d > q) /\ ~(d < q)
  BY <1>2, <1>3, <1>4, <1>5
<1> QED
  BY <1>2, <1>6 DEF d, n

---------------------------------------------------------------------------
(* Words.                                                                  *)

\* What a word of 4 bytes can hold.
Words32 == 0 .. (Bytes * Bytes) * (Bytes * Bytes) - 1

LEMMA ByteType == Bytes \in Nat \ {0} /\ Bytes * Bytes \in Nat \ {0}
  BY BytesAssumption

\* The value of the two low bytes, and what is left above them.
LowWord(n) == (n % Bytes) + Bytes * ((n \div Bytes) % Bytes)

LEMMA LowWordAndRest ==
  ASSUME NEW n \in Nat
  PROVE  /\ LowWord(n) \in 0 .. Bytes * Bytes - 1
         /\ n \div (Bytes * Bytes) \in Nat
         /\ n = (Bytes * Bytes) * (n \div (Bytes * Bytes)) + LowWord(n)
<1> DEFINE low == n % Bytes
           rest == n \div Bytes
           high == rest % Bytes
           top == rest \div Bytes
<1>1. low \in 0 .. Bytes - 1 /\ rest \in Nat /\ n = Bytes * rest + low
  BY ByteType, Digits
<1>2. high \in 0 .. Bytes - 1 /\ top \in Nat /\ rest = Bytes * top + high
  BY <1>1, ByteType, Digits
<1>3. LowWord(n) = low + Bytes * high
  BY DEF LowWord
<1> HIDE DEF low, rest, high, top
<1>4. Bytes * high <= Bytes * (Bytes - 1)
  BY <1>2, ByteType
<1>5. Bytes * (Bytes - 1) = Bytes * Bytes - Bytes
  BY ByteType
<1>6. LowWord(n) \in 0 .. Bytes * Bytes - 1
  <2>1. Bytes * high \in Nat
    BY <1>2, ByteType
  <2> QED
    BY <2>1, <1>1, <1>2, <1>3, <1>4, <1>5, ByteType
<1>7. n = (Bytes * Bytes) * top + LowWord(n)
  <2>1. Bytes * rest = Bytes * (Bytes * top) + Bytes * high
    BY <1>2, ByteType
  <2>2. Bytes * (Bytes * top) = (Bytes * Bytes) * top
    BY <1>2, ByteType
  <2> QED
    BY <2>1, <2>2, <1>1, <1>2, <1>3, ByteType
<1>8. n \div (Bytes * Bytes) = top
  BY <1>2, <1>6, <1>7, ByteType, OneQuotient
<1> QED
  BY <1>2, <1>6, <1>7, <1>8

\* What is read of the two low bytes, where they stand in the code.
LEMMA ReadsLowWord ==
  ASSUME NEW n, NEW code, NEW offset,
         code[offset + 1] = U16Bytes(n)[1], code[offset + 2] = U16Bytes(n)[2]
  PROVE  ReadU16(code, offset) = LowWord(n)
  BY DEF ReadU16, U16Bytes, LowWord

\* A word of 2 bytes is all low.
LEMMA WordIsLow ==
  ASSUME NEW n \in 0 .. Bytes * Bytes - 1
  PROVE  LowWord(n) = n
<1>1. n \div (Bytes * Bytes) \in 0 .. 1 - 1
  BY ByteType, OneDigitLess
<1>2. n = (Bytes * Bytes) * (n \div (Bytes * Bytes)) + LowWord(n) /\ LowWord(n) \in Nat
  BY LowWordAndRest
<1> QED
  BY <1>1, <1>2, ByteType

\* The bytes of a word of 2.
LEMMA TwoBytes ==
  ASSUME NEW n \in Nat
  PROVE  U16Bytes(n) \in Seq(Nat) /\ Len(U16Bytes(n)) = 2
<1> DEFINE low == n % Bytes
           rest == n \div Bytes
           high == rest % Bytes
<1>1. low \in 0 .. Bytes - 1 /\ rest \in Nat
  BY ByteType, Digits
<1>2. high \in 0 .. Bytes - 1
  BY <1>1, ByteType, Digits
<1>3. U16Bytes(n) = <<low, high>>
  BY DEF U16Bytes
<1> HIDE DEF low, high
<1>4. low \in Nat /\ high \in Nat
  BY <1>1, <1>2, ByteType
<1> QED
  BY <1>3, <1>4

\* What is put between two sequences is found behind the first.
LEMMA InTheMiddle ==
  ASSUME NEW before \in Seq(Nat), NEW word \in Seq(Nat), NEW after \in Seq(Nat),
         NEW i \in 1 .. Len(word)
  PROVE  (before \o word \o after)[Len(before) + i] = word[i]
<1> DEFINE head == before \o word
<1>1. head \in Seq(Nat) /\ Len(head) = Len(before) + Len(word)
  OBVIOUS
<1>2. head[Len(before) + i] = word[i]
  OBVIOUS
<1> HIDE DEF head
<1>3. Len(before) + i \in 1 .. Len(head)
  BY <1>1
<1>4. (head \o after)[Len(before) + i] = head[Len(before) + i]
  BY <1>1, <1>3
<1> QED
  BY <1>2, <1>4 DEF head

\* The upper word of a target is a word of 2 bytes.
LEMMA UpperWord ==
  ASSUME NEW n \in Words32
  PROVE  n \in Nat /\ n \div (Bytes * Bytes) \in 0 .. Bytes * Bytes - 1
<1> DEFINE w == Bytes * Bytes
<1>1. w \in Nat \ {0} /\ n \in 0 .. w * w - 1
  BY ByteType DEF Words32
<1> HIDE DEF w
<1>2. n \div w \in 0 .. w - 1
  BY <1>1, OneDigitLess
<1>3. n \in Nat
  BY <1>1
<1> QED
  BY <1>2, <1>3 DEF w

\* What is read of the four bytes of a target, where they stand in the code.
LEMMA ReadsTarget ==
  ASSUME NEW n \in Words32, NEW code, NEW at,
         code[at + 1] = U16Bytes(n)[1], code[at + 2] = U16Bytes(n)[2],
         code[at + 2 + 1] = U16Bytes(n \div (Bytes * Bytes))[1],
         code[at + 2 + 2] = U16Bytes(n \div (Bytes * Bytes))[2]
  PROVE  ReadU32(code, at) = n
<1> DEFINE top == n \div (Bytes * Bytes)
<1>1. n \in Nat /\ top \in 0 .. Bytes * Bytes - 1
  BY UpperWord
<1> HIDE DEF top
<1>2. ReadU16(code, at) = LowWord(n)
  BY ReadsLowWord
<1>3. ReadU16(code, at + 2) = LowWord(top)
  BY ReadsLowWord DEF top
<1>4. LowWord(top) = top
  BY <1>1, WordIsLow
<1>5. ReadU32(code, at) = LowWord(n) + (Bytes * Bytes) * top
  BY <1>2, <1>3, <1>4 DEF ReadU32
<1>6. n = (Bytes * Bytes) * top + LowWord(n) /\ LowWord(n) \in Nat
  BY <1>1, LowWordAndRest DEF top
<1> QED
  BY <1>1, <1>5, <1>6, ByteType

---------------------------------------------------------------------------

\* An operand that is written into a chunk and read at the place where it was
\* written is the same, whatever comes before and after it: a slot, an index or
\* a length of 2 bytes. (Chunk::write_u16, read_u16)
THEOREM OperandReadsBack ==
  ASSUME NEW n \in 0 .. Bytes * Bytes - 1,
         NEW before \in Seq(Nat), NEW after \in Seq(Nat)
  PROVE  ReadU16(before \o U16Bytes(n) \o after, Len(before)) = n
<1> DEFINE code == before \o U16Bytes(n) \o after
<1>1. U16Bytes(n) \in Seq(Nat) /\ Len(U16Bytes(n)) = 2
  BY ByteType, TwoBytes
<1>2. code[Len(before) + 1] = U16Bytes(n)[1] /\ code[Len(before) + 2] = U16Bytes(n)[2]
  <2> DEFINE word == U16Bytes(n)
             at == Len(before)
  <2>1. word \in Seq(Nat) /\ Len(word) = 2
    BY <1>1
  <2> HIDE DEF word
  <2>2. \A i \in 1 .. Len(word) : (before \o word \o after)[at + i] = word[i]
    BY <2>1, InTheMiddle
  <2>3. (before \o word \o after)[at + 1] = word[1]
        /\ (before \o word \o after)[at + 2] = word[2]
    <3>1. 1 \in 1 .. Len(word) /\ 2 \in 1 .. Len(word)
      BY <2>1
    <3> QED
      BY <2>2, <3>1, Zenon
  <2> QED
    BY <2>3 DEF word
<1> QED
  BY <1>2, ReadsLowWord, WordIsLow

\* So is a jump's target, of 4 bytes: it leads to the offset it was patched with.
\* (Chunk::patch_u32, read_u32)
THEOREM TargetReadsBack ==
  ASSUME NEW n \in Words32,
         NEW before \in Seq(Nat), NEW after \in Seq(Nat)
  PROVE  ReadU32(before \o U32Bytes(n) \o after, Len(before)) = n
<1> DEFINE code == before \o U32Bytes(n) \o after
           top == n \div (Bytes * Bytes)
           at == Len(before)
<1>1. n \in Nat /\ top \in 0 .. Bytes * Bytes - 1
  BY UpperWord
<1>2. U16Bytes(n) \in Seq(Nat) /\ Len(U16Bytes(n)) = 2
      /\ U16Bytes(top) \in Seq(Nat) /\ Len(U16Bytes(top)) = 2
  BY <1>1, ByteType, TwoBytes
<1>3. U32Bytes(n) = U16Bytes(n) \o U16Bytes(top)
  BY DEF U32Bytes
<1> HIDE DEF top
<1>4. /\ code[at + 1] = U16Bytes(n)[1] /\ code[at + 2] = U16Bytes(n)[2]
      /\ code[at + 2 + 1] = U16Bytes(top)[1] /\ code[at + 2 + 2] = U16Bytes(top)[2]
  <2> DEFINE word == U32Bytes(n)
             low == U16Bytes(n)
             high == U16Bytes(top)
  <2>1. /\ word \in Seq(Nat) /\ Len(word) = 4
        /\ word[1] = low[1] /\ word[2] = low[2] /\ word[3] = high[1] /\ word[4] = high[2]
    <3>1. low \in Seq(Nat) /\ Len(low) = 2 /\ high \in Seq(Nat) /\ Len(high) = 2
      BY <1>2
    <3>2. word = low \o high
      BY <1>3
    <3> HIDE DEF word, low, high
    <3>3. /\ word \in Seq(Nat) /\ Len(word) = 4
          /\ \A i \in 1 .. 4 : word[i] = IF i <= 2 THEN low[i] ELSE high[i - 2]
      <4>1. /\ low \o high \in Seq(Nat) /\ Len(low \o high) = Len(low) + Len(high)
            /\ \A i \in 1 .. Len(low) + Len(high) :
                 (low \o high)[i] = IF i <= Len(low) THEN low[i] ELSE high[i - Len(low)]
        BY <3>1, ConcatProperties, Zenon
      <4>2. Len(low) = 2 /\ Len(low) + Len(high) = 4
        BY <3>1
      <4> QED
        BY <3>2, <4>1, <4>2
    <3>4. word[1] = low[1] /\ word[2] = low[2]
      BY <3>3
    <3>5. word[3] = high[1] /\ word[4] = high[2]
      BY <3>3
    <3> QED
      BY <3>3, <3>4, <3>5
  <2> HIDE DEF word, low, high
  <2>2. \A i \in 1 .. Len(word) : (before \o word \o after)[at + i] = word[i]
    BY <2>1, InTheMiddle
  <2>3. LET all == before \o word \o after
        IN /\ all[at + 1] = word[1] /\ all[at + 2] = word[2]
           /\ all[at + 3] = word[3] /\ all[at + 4] = word[4]
    <3>1. \A i \in {1, 2, 3, 4} : i \in 1 .. Len(word)
      BY <2>1
    <3> QED
      BY <2>2, <3>1, Zenon
  <2>4. at + 3 = at + 2 + 1 /\ at + 4 = at + 2 + 2
    OBVIOUS
  <2> QED
    BY <2>1, <2>3, <2>4 DEF word, low, high
<1> QED
  BY <1>4, ReadsTarget DEF top
---------------------------------------------------------------------------
(* Recursive functions.                                                    *)

\* The least of a set of natural numbers.
LEMMA LeastOf ==
  ASSUME NEW S, S \subseteq Nat, S # {}
  PROVE  \E x \in S : \A y \in S : x <= y
<1> DEFINE Less == { ss \in Nat \X Nat : ss[1] < ss[2] }
<1>1. IsWellFoundedOn(Less, Nat)
  BY NatLessThanWellFounded, Zenon DEF OpToRel
<1> HIDE DEF Less
<1>2. PICK x \in S : \A y \in S : ~(<<y, x>> \in Less)
  BY <1>1, WFMin, Zenon
<1>3. ASSUME NEW y \in S, y < x
      PROVE  <<y, x>> \in Less
  <2>1. <<y, x>> \in Nat \X Nat /\ <<y, x>>[1] < <<y, x>>[2]
    BY <1>3
  <2> QED
    BY <2>1 DEF Less
<1>4. ASSUME NEW y \in S
      PROVE  x <= y
  <2>1. ~(y < x)
    BY <1>2, <1>3, Zenon
  <2> QED
    BY <2>1
<1> QED
  BY <1>4

\* The values of f from lo to hi: the first is a, each of the others h of the last.
Iterates(f, S, a, h, lo, hi) ==
  /\ f \in [lo .. hi -> S] /\ f[lo] = a
  /\ \A i \in lo + 1 .. hi : f[i] = h[i][f[i - 1]]

LEMMA IterationExists ==
  ASSUME NEW S, NEW a \in S, NEW lo \in Nat, NEW hi \in Nat, lo <= hi,
         NEW h \in [lo + 1 .. hi -> [S -> S]]
  PROVE  \E f : Iterates(f, S, a, h, lo, hi)
<1> DEFINE Has(m) == \E f : Iterates(f, S, a, h, lo, m)
           Missing == {m \in lo .. hi : ~Has(m)}
<1>1. Has(lo)
  <2> DEFINE f == [i \in lo .. lo |-> a]
  <2>1. Iterates(f, S, a, h, lo, lo)
    BY DEF Iterates
  <2> QED
    BY <2>1, Zenon
<1>2. ASSUME NEW m \in lo + 1 .. hi, Has(m - 1)
      PROVE  Has(m)
  <2>1. PICK g : Iterates(g, S, a, h, lo, m - 1)
    BY <1>2, Zenon
  <2> DEFINE b == h[m][g[m - 1]]
             f == [i \in lo .. m |-> IF i = m THEN b ELSE g[i]]
  <2>2. m - 1 \in lo .. m - 1 /\ g[m - 1] \in S /\ b \in S
    BY <2>1 DEF Iterates
  <2> HIDE DEF b
  <2>3. f \in [lo .. m -> S]
    BY <2>1, <2>2 DEF Iterates
  <2>4. f[lo] = a
    BY <2>1 DEF Iterates
  <2>5. ASSUME NEW i \in lo + 1 .. m
        PROVE  f[i] = h[i][f[i - 1]]
    <3>1. CASE i = m
      <4>1. f[i] = b /\ f[i - 1] = g[m - 1]
        BY <3>1
      <4> QED
        BY <4>1, <3>1 DEF b
    <3>2. CASE i # m
      <4>1. f[i] = g[i] /\ f[i - 1] = g[i - 1] /\ i \in lo + 1 .. m - 1
        BY <3>2
      <4> QED
        BY <4>1, <2>1 DEF Iterates
    <3> QED
      BY <3>1, <3>2
  <2>6. Iterates(f, S, a, h, lo, m)
    BY <2>3, <2>4, <2>5 DEF Iterates
  <2> QED
    BY <2>6, Zenon
<1> HIDE DEF Has
<1>3. Missing = {}
  <2> SUFFICES ASSUME Missing # {} PROVE FALSE
    OBVIOUS
  <2>1. Missing \subseteq Nat
    OBVIOUS
  <2>2. PICK m \in Missing : \A k \in Missing : m <= k
    BY <2>1, LeastOf
  <2>3. m \in lo + 1 .. hi
    BY <1>1, <2>2
  <2>4. m - 1 \in lo .. hi /\ m - 1 \notin Missing
    BY <2>2, <2>3
  <2> QED
    BY <1>2, <2>2, <2>3, <2>4
<1>4. Has(hi)
  BY <1>3
<1> QED
  BY <1>4, Zenon DEF Has

---------------------------------------------------------------------------
(* Instructions.                                                           *)

\* The enumeration numbers every opcode.
LEMMA OpCodesNumbered ==
  ASSUME NEW op \in OpCodes
  PROVE  OpCodeByte[op] \in 0 .. 54 /\ OpCodeList[OpCodeByte[op] + 1] = op
<1>1. Len(OpCodeList) = 55
  BY DEF OpCodeList
<1>2. \E n \in 0 .. 54 : OpCodeList[n + 1] = op
  BY DEF OpCodes, OpCodeList, PushOps, IntBinaryOps, IntUnaryOps, FloatBinaryOps, EqualityOps,
         CompareOps, IntCompareOps, FloatCompareOps, StrCompareOps, Jumps, PeekJumps, ReturnOps
<1>3. OpCodeByte[op] = CHOOSE n \in 0 .. 54 : OpCodeList[n + 1] = op
  BY <1>1 DEF OpCodeByte
<1> QED
  BY <1>2, <1>3, Zenon

\* An instruction takes as many bytes as opcode_length says.
LEMMA LengthIs ==
  ASSUME NEW I \in Instruction, NEW t \in Nat
  PROVE  /\ InstrBytes(I, t) \in Seq(Nat)
         /\ Len(InstrBytes(I, t)) = OpCodeLength(I.op)
         /\ OpCodeLength(I.op) \in 1 .. 5
         /\ InstrBytes(I, t)[1] = OpCodeByte[I.op]
<1> DEFINE operands == IF I.op \in WordOps THEN U16Bytes(I.a)
                       ELSE IF I.op \in CallOps THEN Append(U16Bytes(I.a), I.b)
                       ELSE IF I.op \in Jumps THEN U32Bytes(t)
                       ELSE << >>
           first == OpCodeByte[I.op]
<1>1. I.op \in OpCodes /\ I.a \in Nat /\ I.b \in Nat
  BY DEF Instruction
<1>2. first \in Nat
  BY <1>1, OpCodesNumbered
<1>3. /\ U16Bytes(I.a) \in Seq(Nat) /\ Len(U16Bytes(I.a)) = 2
      /\ U32Bytes(t) \in Seq(Nat) /\ Len(U32Bytes(t)) = 4
  <2>1. t \div (Bytes * Bytes) \in Nat
    BY LowWordAndRest
  <2>2. /\ U16Bytes(t) \in Seq(Nat) /\ Len(U16Bytes(t)) = 2
        /\ U16Bytes(t \div (Bytes * Bytes)) \in Seq(Nat)
        /\ Len(U16Bytes(t \div (Bytes * Bytes))) = 2
        /\ U16Bytes(I.a) \in Seq(Nat) /\ Len(U16Bytes(I.a)) = 2
    BY <1>1, <2>1, TwoBytes
  <2> DEFINE low == U16Bytes(t)
             high == U16Bytes(t \div (Bytes * Bytes))
  <2>3. U32Bytes(t) = low \o high
    BY DEF U32Bytes
  <2>4. low \in Seq(Nat) /\ Len(low) = 2 /\ high \in Seq(Nat) /\ Len(high) = 2
    BY <2>2
  <2> HIDE DEF low, high
  <2>5. low \o high \in Seq(Nat) /\ Len(low \o high) = Len(low) + Len(high)
    BY <2>4, ConcatProperties, Zenon
  <2>6. Len(low) + Len(high) = 4
    BY <2>4
  <2> QED
    BY <2>2, <2>3, <2>5, <2>6, Zenon
<1>4. operands \in Seq(Nat) /\ Len(operands) + 1 = OpCodeLength(I.op)
  <2>1. CASE I.op \in WordOps
    <3>1. operands = U16Bytes(I.a) /\ OpCodeLength(I.op) = 1 + 2
      BY <2>1 DEF OpCodeLength
    <3> HIDE DEF operands
    <3>2. operands \in Seq(Nat) /\ Len(operands) = 2
      BY <1>3, <3>1, Zenon
    <3> QED
      BY <3>1, <3>2
  <2>2. CASE I.op \in CallOps
    <3>1. operands = Append(U16Bytes(I.a), I.b) /\ OpCodeLength(I.op) = 1 + 2 + 1
      BY <2>2 DEF OpCodeLength, WordOps, CallOps, Jumps, PeekJumps
    <3> DEFINE word == U16Bytes(I.a)
    <3>2. word \in Seq(Nat) /\ Len(word) = 2 /\ operands = Append(word, I.b)
      BY <1>3, <3>1
    <3> HIDE DEF word, operands
    <3>3. Append(word, I.b) \in Seq(Nat) /\ Len(Append(word, I.b)) = Len(word) + 1
      BY <1>1, <3>2, AppendProperties, Zenon
    <3>4. operands \in Seq(Nat) /\ Len(operands) = 2 + 1
      BY <3>2, <3>3, Zenon
    <3> QED
      BY <3>1, <3>4
  <2>3. CASE I.op \in Jumps
    <3>1. operands = U32Bytes(t) /\ OpCodeLength(I.op) = 1 + 4
      BY <2>3 DEF OpCodeLength, WordOps, CallOps, Jumps, PeekJumps
    <3> HIDE DEF operands
    <3>2. operands \in Seq(Nat) /\ Len(operands) = 4
      BY <1>3, <3>1, Zenon
    <3> QED
      BY <3>1, <3>2
  <2>4. CASE I.op \notin WordOps \cup CallOps \cup Jumps
    BY <2>4 DEF OpCodeLength
  <2> QED
    BY <2>1, <2>2, <2>3, <2>4
<1>5. InstrBytes(I, t) = <<first>> \o operands
  BY DEF InstrBytes
<1> HIDE DEF operands, first
<1>6. /\ InstrBytes(I, t) \in Seq(Nat) /\ Len(InstrBytes(I, t)) = 1 + Len(operands)
      /\ InstrBytes(I, t)[1] = first
  BY <1>2, <1>4, <1>5
<1>7. OpCodeLength(I.op) \in 1 .. 5
  BY DEF OpCodeLength
<1> QED
  BY <1>4, <1>6, <1>7 DEF first

\* Where the instructions of a function begin: one behind the other.
BeginOneByOne(begins, code) ==
  /\ begins \in [1 .. Len(code) + 1 -> Nat] /\ begins[1] = 0
  /\ \A i \in 1 .. Len(code) : begins[i + 1] = begins[i] + OpCodeLength(code[i].op)

LEMMA OffsetsAre ==
  ASSUME NEW code \in Seq(Instruction)
  PROVE  BeginOneByOne(Offsets(code), code)
<1> DEFINE K == Len(code)
           len(i) == Len(InstrBytes(code[i - 1], 0))
           h == [i \in 2 .. K + 1 |-> [n \in Nat |-> n + len(i)]]
           Body(g) == [i \in 1 .. K + 1 |-> IF i = 1 THEN 0 ELSE g[i - 1] + len(i)]
<1>1. K \in Nat
  OBVIOUS
<1>2. \A i \in 2 .. K + 1 : len(i) = OpCodeLength(code[i - 1].op) /\ len(i) \in Nat
  <2> SUFFICES ASSUME NEW i \in 2 .. K + 1
               PROVE  len(i) = OpCodeLength(code[i - 1].op) /\ len(i) \in Nat
    OBVIOUS
  <2>1. code[i - 1] \in Instruction
    BY <1>1
  <2> QED
    BY <2>1, LengthIs
<1>3. Offsets(code) = CHOOSE g : g = Body(g)
  BY DEF Offsets
<1> HIDE DEF K, len
<1>4. h \in [1 + 1 .. K + 1 -> [Nat -> Nat]]
  BY <1>1, <1>2
<1>5. PICK f : Iterates(f, Nat, 0, h, 1, K + 1)
  <2>1. 1 <= K + 1 /\ K + 1 \in Nat /\ 1 \in Nat /\ 0 \in Nat
    BY <1>1
  <2> HIDE DEF h
  <2> QED
    BY <1>4, <2>1, IterationExists
<1>6. f = Body(f)
  <2>1. f \in [1 .. K + 1 -> Nat] /\ f[1] = 0
    BY <1>5 DEF Iterates
  <2>2. ASSUME NEW i \in 2 .. K + 1 PROVE f[i] = f[i - 1] + len(i)
    <3>1. i \in 1 + 1 .. K + 1 /\ i - 1 \in 1 .. K + 1
      BY <1>1
    <3>2. f[i] = h[i][f[i - 1]] /\ f[i - 1] \in Nat
      BY <1>5, <2>1, <3>1 DEF Iterates
    <3> QED
      BY <3>2
  <2> QED
    BY <1>1, <2>1, <2>2
<1>7. Offsets(code) = Body(Offsets(code))
  <2> HIDE DEF Body
  <2> QED
    BY <1>3, <1>6, Zenon
<1> DEFINE b == Offsets(code)
<1> HIDE DEF b
<1>8. ASSUME NEW g, g = Body(g)
      PROVE  g = f
  <2> DEFINE Wrong == {i \in 1 .. K + 1 : g[i] # f[i]}
  <2>1. g = [i \in 1 .. K + 1 |-> g[i]] /\ g[1] = 0 /\ f[1] = 0
    BY <1>1, <1>6, <1>8
  <2>2. Wrong = {}
    <3> SUFFICES ASSUME Wrong # {} PROVE FALSE
      OBVIOUS
    <3>0. Wrong \subseteq Nat
      BY <1>1
    <3>1. PICK i \in Wrong : \A k \in Wrong : i <= k
      BY <3>0, LeastOf
    <3>2. i \in 2 .. K + 1 /\ i - 1 \in 1 .. K + 1 /\ i - 1 \notin Wrong
      BY <1>1, <2>1, <3>1
    <3>3. g[i] = g[i - 1] + len(i) /\ f[i] = f[i - 1] + len(i)
      BY <1>6, <1>8, <3>2
    <3> QED
      BY <3>1, <3>2, <3>3
  <2>3. f = [i \in 1 .. K + 1 |-> f[i]]
    BY <1>6
  <2> QED
    BY <2>1, <2>2, <2>3
<1>9. b = f
  BY <1>7, <1>8 DEF b
<1>10. b \in [1 .. K + 1 -> Nat] /\ b[1] = 0
  BY <1>5, <1>9 DEF Iterates
<1>11. ASSUME NEW i \in 1 .. K PROVE b[i + 1] = b[i] + OpCodeLength(code[i].op)
  <2>1. i + 1 \in 2 .. K + 1 /\ (i + 1) - 1 = i
    BY <1>1
  <2>2. b[i + 1] = b[(i + 1) - 1] + len(i + 1)
    <3>1. \A j \in 2 .. K + 1 : f[j] = f[j - 1] + len(j)
      <4> HIDE DEF h
      <4>1. TAKE j \in 2 .. K + 1
      <4>2. j # 1 /\ j \in 1 .. K + 1
        BY <1>1
      <4> QED
        BY <1>6, <4>2
    <3> QED
      BY <1>9, <2>1, <3>1, Zenon
  <2>3. len(i + 1) = OpCodeLength(code[(i + 1) - 1].op)
    BY <1>2, <2>1
  <2> QED
    BY <2>1, <2>2, <2>3
<1> QED
  BY <1>10, <1>11 DEF BeginOneByOne, b, K

\* None is empty: they begin in the order of the code.
LEMMA BeginsInOrder ==
  ASSUME NEW code \in Seq(Instruction), NEW begins, BeginOneByOne(begins, code),
         NEW i \in 1 .. Len(code) + 1, NEW j \in 1 .. Len(code) + 1
  PROVE  i < j <=> begins[i] < begins[j]
<1>1. Len(code) \in Nat /\ \A k \in 1 .. Len(code) + 1 : begins[k] \in Nat
  BY DEF BeginOneByOne
<1>2. ASSUME NEW k \in 1 .. Len(code)
      PROVE  begins[k] < begins[k + 1]
  <2>1. OpCodeLength(code[k].op) \in 1 .. 5
    BY DEF OpCodeLength
  <2>2. begins[k + 1] = begins[k] + OpCodeLength(code[k].op) /\ begins[k] \in Nat
    BY <1>1 DEF BeginOneByOne
  <2> QED
    BY <2>1, <2>2
<1>3. ASSUME NEW a \in 1 .. Len(code) + 1, NEW b \in 1 .. Len(code) + 1, a < b
      PROVE  begins[a] < begins[b]
  <2> DEFINE Wrong == {k \in a + 1 .. Len(code) + 1 : ~(begins[a] < begins[k])}
  <2>1. Wrong = {}
    <3> SUFFICES ASSUME Wrong # {} PROVE FALSE
      OBVIOUS
    <3>1. Wrong \subseteq Nat
      BY <1>1
    <3>2. PICK k \in Wrong : \A n \in Wrong : k <= n
      BY <3>1, LeastOf
    <3>3. k - 1 \in 1 .. Len(code) /\ k - 1 \notin Wrong /\ k = (k - 1) + 1
      BY <1>1, <3>2
    <3>4. k - 1 = a \/ begins[a] < begins[k - 1]
      BY <1>1, <3>2, <3>3
    <3>5. begins[k - 1] < begins[k]
      BY <1>2, <3>3
    <3>6. begins[a] \in Nat /\ begins[k - 1] \in Nat /\ begins[k] \in Nat
      BY <1>1, <3>2, <3>3
    <3> QED
      BY <3>2, <3>4, <3>5, <3>6
  <2> QED
    BY <1>1, <1>3, <2>1
<1>4. i < j => begins[i] < begins[j]
  BY <1>3
<1>5. j < i => begins[j] < begins[i]
  BY <1>3
<1> QED
  BY <1>1, <1>4, <1>5

\* The first n pieces lie one behind the other, each where it begins.
LaidOut(all, pieces, begins, n) ==
  /\ all \in Seq(Nat) /\ Len(all) = begins[n + 1]
  /\ \A i \in 1 .. n : \A k \in 1 .. Len(pieces[i]) :
       begins[i] + k \in 1 .. Len(all) /\ all[begins[i] + k] = pieces[i][k]

LEMMA LaidOutOneMore ==
  ASSUME NEW pieces, NEW begins, NEW n \in Nat, NEW all, LaidOut(all, pieces, begins, n),
         NEW more, more = pieces[n + 1], more \in Seq(Nat),
         begins[(n + 1) + 1] = begins[n + 1] + Len(more)
  PROVE  LaidOut(all \o more, pieces, begins, n + 1)
<1>0. Len(all) \in Nat /\ Len(more) \in Nat
  BY DEF LaidOut
<1>1. all \in Seq(Nat) /\ Len(all) = begins[n + 1]
  BY DEF LaidOut
<1> DEFINE both == all \o more
<1>2. /\ both \in Seq(Nat) /\ Len(both) = Len(all) + Len(more)
      /\ \A p \in 1 .. Len(all) + Len(more) :
           both[p] = IF p <= Len(all) THEN all[p] ELSE more[p - Len(all)]
  BY <1>1, ConcatProperties, Zenon
<1> HIDE DEF both
<1>3. ASSUME NEW i \in 1 .. n + 1, NEW k \in 1 .. Len(pieces[i])
      PROVE  begins[i] + k \in 1 .. Len(both) /\ both[begins[i] + k] = pieces[i][k]
  <2>1. CASE i \in 1 .. n
    <3>1. begins[i] + k \in 1 .. Len(all) /\ all[begins[i] + k] = pieces[i][k]
      BY <2>1 DEF LaidOut
    <3>2. ASSUME NEW p \in 1 .. Len(all)
          PROVE  p \in 1 .. Len(both) /\ both[p] = all[p]
      <4>1. p \in 1 .. Len(all) + Len(more) /\ p <= Len(all)
        BY <1>0
      <4> QED
        BY <1>2, <4>1, Zenon
    <3> QED
      BY <3>1, <3>2, Zenon
  <2>2. CASE i = n + 1
    <3>1. pieces[i] = more /\ begins[i] = Len(all) /\ k \in 1 .. Len(more)
      BY <1>1, <2>2, Zenon
    <3>2. Len(all) + k \in 1 .. Len(both) /\ (Len(all) + k) - Len(all) = k
          /\ ~(Len(all) + k <= Len(all)) /\ Len(all) + k \in 1 .. Len(all) + Len(more)
      <4>1. k \in 1 .. Len(more) /\ Len(both) = Len(all) + Len(more)
        BY <1>2, <3>1, Zenon
      <4> QED
        BY <1>0, <4>1
    <3>3. both[Len(all) + k] = more[k]
      BY <1>2, <3>2, Zenon
    <3> QED
      BY <3>1, <3>2, <3>3
  <2> QED
    BY <2>1, <2>2
<1> QED
  BY <1>1, <1>2, <1>3 DEF LaidOut, both

LEMMA Flattened ==
  ASSUME NEW K \in Nat \ {0}, NEW pieces \in [1 .. K -> Seq(Nat)],
         NEW begins \in [1 .. K + 1 -> Nat], begins[1] = 0,
         \A i \in 1 .. K : begins[i + 1] = begins[i] + Len(pieces[i])
  PROVE  LaidOut(FlattenSeq(pieces), pieces, begins, K)
<1> DEFINE h == [i \in 1 + 1 .. K |-> [s \in Seq(Nat) |-> s \o pieces[i]]]
           Body(g) == [i \in 1 .. K |-> IF i = 1 THEN pieces[i] ELSE g[i - 1] \o pieces[i]]
           F == CHOOSE g : g = Body(g)
<1>1. pieces \in Seq(Seq(Nat)) /\ Len(pieces) = K
  OBVIOUS
<1>2. FlattenSeq(pieces) = F[K]
  BY <1>1 DEF FlattenSeq
<1>3. PICK f : Iterates(f, Seq(Nat), pieces[1], h, 1, K)
  <2>1. h \in [1 + 1 .. K -> [Seq(Nat) -> Seq(Nat)]]
    OBVIOUS
  <2>2. pieces[1] \in Seq(Nat) /\ 1 \in Nat /\ K \in Nat /\ 1 <= K
    OBVIOUS
  <2> HIDE DEF h
  <2> QED
    BY <2>1, <2>2, IterationExists
<1>4. f = Body(f)
  <2>1. f \in [1 .. K -> Seq(Nat)] /\ f[1] = pieces[1]
    BY <1>3 DEF Iterates
  <2>2. ASSUME NEW i \in 1 + 1 .. K PROVE f[i] = f[i - 1] \o pieces[i]
    <3>0. i - 1 \in 1 .. K
      OBVIOUS
    <3>1. f[i] = h[i][f[i - 1]] /\ f[i - 1] \in Seq(Nat)
      <4> HIDE DEF h
      <4> QED
        BY <1>3, <2>1, <3>0 DEF Iterates
    <3> QED
      BY <3>1
  <2>3. \A i \in 1 .. K : f[i] = IF i = 1 THEN pieces[i] ELSE f[i - 1] \o pieces[i]
    <3>1. \A i \in 1 .. K : i = 1 \/ i \in 1 + 1 .. K
      OBVIOUS
    <3> QED
      BY <2>1, <2>2, <3>1, Zenon
  <2>4. f = [i \in 1 .. K |-> f[i]]
    BY <2>1
  <2> QED
    BY <2>3, <2>4, Zenon
<1>5. F = Body(F)
  <2> HIDE DEF Body
  <2> QED
    BY <1>4, Zenon
<1>6. ASSUME NEW i \in 1 .. K
      PROVE  /\ i = 1 => F[i] = pieces[1]
             /\ i # 1 => F[i] = F[i - 1] \o pieces[i]
  <2> DEFINE G == F
  <2> HIDE DEF G
  <2>1. G = Body(G)
    BY <1>5 DEF G
  <2>2. /\ i = 1 => G[i] = pieces[1]
        /\ i # 1 => G[i] = G[i - 1] \o pieces[i]
    BY <2>1
  <2> QED
    BY <2>2 DEF G
<1> HIDE DEF F, h, Body
<1> DEFINE Wrong == {i \in 1 .. K : ~LaidOut(F[i], pieces, begins, i)}
<1>7. Wrong = {}
  <2> SUFFICES ASSUME Wrong # {} PROVE FALSE
    OBVIOUS
  <2>1. PICK i \in Wrong : \A k \in Wrong : i <= k
    <3>1. Wrong \subseteq Nat
      OBVIOUS
    <3> QED
      BY <3>1, LeastOf
  <2>2. i \in 1 .. K /\ pieces[i] \in Seq(Nat) /\ begins[i + 1] = begins[i] + Len(pieces[i])
    BY <2>1
  <2>3. CASE i = 1
    <3>1. F[1] = pieces[1] /\ begins[1] = 0 /\ begins[2] = Len(pieces[1])
          /\ pieces[1] \in Seq(Nat) /\ Len(pieces[1]) \in Nat
      BY <1>6, <2>2, <2>3
    <3>2. LaidOut(F[1], pieces, begins, 1)
      <4> DEFINE first == pieces[1]
      <4>1. /\ F[1] = first /\ first \in Seq(Nat) /\ Len(first) \in Nat
            /\ begins[1 + 1] = Len(first) /\ \A k \in 1 .. Len(first) : begins[1] + k = k
        BY <3>1
      <4>2. 1 .. 1 = {1}
        OBVIOUS
      <4> HIDE DEF first
      <4>3. \A j \in {1} : \A k \in 1 .. Len(pieces[j]) :
              begins[j] + k \in 1 .. Len(first) /\ first[begins[j] + k] = pieces[j][k]
        BY <4>1, Zenon DEF first
      <4> QED
        BY <4>1, <4>2, <4>3, Zenon DEF LaidOut
    <3> QED
      BY <2>1, <2>3, <3>2
  <2>4. CASE i # 1
    <3>1. i - 1 \in 1 .. K /\ i - 1 \notin Wrong /\ (i - 1) + 1 = i /\ i - 1 \in Nat
      BY <2>1, <2>2, <2>4
    <3>2. LaidOut(F[i - 1], pieces, begins, i - 1)
      BY <3>1
    <3> DEFINE n == i - 1
               more == pieces[i]
    <3>3. /\ n \in Nat /\ n + 1 = i /\ LaidOut(F[n], pieces, begins, n)
          /\ more = pieces[n + 1] /\ more \in Seq(Nat)
          /\ begins[(n + 1) + 1] = begins[n + 1] + Len(more)
      BY <2>2, <3>1, <3>2
    <3> HIDE DEF n, more
    <3>4. LaidOut(F[n] \o more, pieces, begins, n + 1)
      BY <3>3, LaidOutOneMore
    <3>5. LaidOut(F[i - 1] \o pieces[i], pieces, begins, i)
      BY <3>3, <3>4 DEF n, more
    <3> QED
      BY <1>6, <2>1, <2>2, <2>4, <3>5
  <2> QED
    BY <2>3, <2>4
<1>8. LaidOut(F[K], pieces, begins, K)
  <2>1. K \in 1 .. K
    OBVIOUS
  <2> QED
    BY <1>7, <2>1
<1> QED
  BY <1>2, <1>8, Zenon DEF F

\* What stands in the code from an offset on.
StandsAt(code, at, piece) == \A k \in 1 .. Len(piece) : code[at + k] = piece[k]

\* An instruction's operands have room in their bytes.
Roomy(I) ==
  /\ I.op \in WordOps \cup CallOps => I.a < Bytes * Bytes
  /\ I.op \notin WordOps \cup CallOps \cup Jumps => I.a = 0
  /\ I.op \notin CallOps => I.b = 0

\* What stands behind the opcode.
LEMMA BehindOpcode ==
  ASSUME NEW x \in Nat, NEW word \in Seq(Nat), NEW k \in 1 .. Len(word)
  PROVE  (<<x>> \o word)[k + 1] = word[k]
  OBVIOUS

\* What is fetched where an instruction's bytes stand is the instruction.
LEMMA FetchedIs ==
  ASSUME NEW I \in Instruction, Roomy(I), NEW t \in Words32, NEW chunk, NEW at \in Nat,
         StandsAt(chunk.code, at, InstrBytes(I, t))
  PROVE  FetchedAt(chunk, at) = IF I.op \in Jumps THEN [I EXCEPT !.a = t] ELSE I
<1> DEFINE code == chunk.code
           piece == InstrBytes(I, t)
           operand == at + 1
<1>1. I.op \in OpCodes /\ I.a \in Nat /\ I.b \in Nat /\ I = Instr(I.op, I.a, I.b)
  BY DEF Instruction, Instr
<1>2. t \in Nat /\ t \div (Bytes * Bytes) \in Nat
  BY UpperWord
<1>3. /\ Len(piece) = OpCodeLength(I.op) /\ OpCodeLength(I.op) \in 1 .. 5
      /\ piece[1] = OpCodeByte[I.op]
  BY <1>2, LengthIs
<1>4. OpCodeList[code[at + 1] + 1] = I.op
  <2>1. 1 \in 1 .. Len(piece)
    BY <1>3
  <2>2. code[at + 1] = OpCodeByte[I.op]
    BY <1>3, <2>1, Zenon DEF StandsAt
  <2> QED
    BY <1>1, <2>2, OpCodesNumbered, Zenon
<1>5. FetchedAt(chunk, at) =
        IF I.op \in WordOps THEN Instr(I.op, ReadU16(code, operand), 0)
        ELSE IF I.op \in CallOps THEN Instr(I.op, ReadU16(code, operand), code[operand + 3])
        ELSE IF I.op \in Jumps THEN Instr(I.op, ReadU32(code, operand), 0)
        ELSE Instr(I.op, 0, 0)
  BY <1>4, Zenon DEF FetchedAt
<1>6. ASSUME NEW k \in Nat, k + 1 <= Len(piece), k # 0
      PROVE  code[operand + k] = piece[k + 1]
  <2>1. k + 1 \in 1 .. Len(piece) /\ at + (k + 1) = operand + k
    BY <1>3, <1>6
  <2> QED
    BY <2>1, Zenon DEF StandsAt
<1> DEFINE low == U16Bytes(I.a)
           near == U16Bytes(t)
           far == U16Bytes(t \div (Bytes * Bytes))
<1>7. /\ low \in Seq(Nat) /\ Len(low) = 2 /\ near \in Seq(Nat) /\ Len(near) = 2
      /\ far \in Seq(Nat) /\ Len(far) = 2
  BY <1>1, <1>2, TwoBytes
<1>8. CASE I.op \in WordOps
  <2>1. piece = <<OpCodeByte[I.op]>> \o low /\ OpCodeLength(I.op) = 3 /\ I.op \notin CallOps \cup Jumps
    BY <1>8 DEF InstrBytes, OpCodeLength, WordOps, CallOps, Jumps, PeekJumps
  <2>2. piece[2] = low[1] /\ piece[3] = low[2]
    BY <1>7, <2>1
  <2>3. code[operand + 1] = low[1] /\ code[operand + 2] = low[2]
    BY <1>3, <1>6, <2>1, <2>2
  <2>4. ReadU16(code, operand) = I.a
    <3>1. ReadU16(code, operand) = LowWord(I.a)
      BY <2>3, ReadsLowWord
    <3>2. I.a \in 0 .. Bytes * Bytes - 1
      BY <1>1, <1>8, ByteType DEF Roomy
    <3> QED
      BY <3>1, <3>2, WordIsLow
  <2> QED
    BY <1>1, <1>5, <1>8, <2>1, <2>4 DEF Roomy
<1>9. CASE I.op \in CallOps
  <2>1. /\ piece = <<OpCodeByte[I.op]>> \o Append(low, I.b) /\ OpCodeLength(I.op) = 4
        /\ I.op \notin WordOps \cup Jumps
    BY <1>9 DEF InstrBytes, OpCodeLength, WordOps, CallOps, Jumps, PeekJumps
  <2>2. piece[2] = low[1] /\ piece[3] = low[2] /\ piece[4] = I.b
    <3> HIDE DEF low, piece
    <3> DEFINE word == Append(low, I.b)
               x == OpCodeByte[I.op]
    <3>1. /\ word \in Seq(Nat) /\ Len(word) = 3 /\ piece = <<x>> \o word /\ x \in Nat
          /\ word[1] = low[1] /\ word[2] = low[2] /\ word[3] = I.b
      <4>1. x \in Nat
        BY <1>1, OpCodesNumbered
      <4>2. low \in Seq(Nat) /\ Len(low) = 2
        BY <1>7
      <4>3. /\ word \in Seq(Nat) /\ Len(word) = Len(low) + 1
            /\ \A i \in 1 .. Len(low) : word[i] = low[i]
            /\ word[Len(low) + 1] = I.b
        <5> DEFINE b == I.b
        <5>1. b \in Nat /\ low \in Seq(Nat) /\ word = Append(low, b)
          BY <1>1, <4>2
        <5> HIDE DEF low, word, b
        <5>2. /\ Append(low, b) \in Seq(Nat) /\ Len(Append(low, b)) = Len(low) + 1
              /\ \A i \in 1 .. Len(low) : Append(low, b)[i] = low[i]
              /\ Append(low, b)[Len(low) + 1] = b
          BY <5>1, AppendProperties
        <5> QED
          BY <5>1, <5>2, Zenon DEF b
      <4> HIDE DEF word
      <4>4. Len(word) = 3 /\ word[1] = low[1] /\ word[2] = low[2] /\ word[3] = I.b
        BY <4>2, <4>3
      <4>5. piece = <<x>> \o word
        BY <2>1 DEF word
      <4> QED
        BY <4>1, <4>3, <4>4, <4>5, Zenon
    <3> HIDE DEF word, x
    <3>2. 1 \in 1 .. Len(word) /\ 2 \in 1 .. Len(word) /\ 3 \in 1 .. Len(word)
      BY <3>1
    <3>3. piece[1 + 1] = word[1] /\ piece[2 + 1] = word[2] /\ piece[3 + 1] = word[3]
      BY <3>1, <3>2, BehindOpcode, Zenon
    <3> QED
      BY <3>1, <3>3
  <2>3. code[operand + 1] = low[1] /\ code[operand + 2] = low[2] /\ code[operand + 3] = I.b
    <3> HIDE DEF code, operand, low, piece
    <3> QED
      BY <1>3, <1>6, <2>1, <2>2
  <2>4. ReadU16(code, operand) = I.a
    <3>1. ReadU16(code, operand) = LowWord(I.a)
      BY <2>3, ReadsLowWord
    <3>2. I.a \in 0 .. Bytes * Bytes - 1
      BY <1>1, <1>9, ByteType DEF Roomy
    <3> QED
      BY <3>1, <3>2, WordIsLow
  <2> QED
    BY <1>1, <1>5, <1>9, <2>1, <2>3, <2>4
<1>10. CASE I.op \in Jumps
  <2>1. /\ piece = <<OpCodeByte[I.op]>> \o (near \o far) /\ OpCodeLength(I.op) = 5
        /\ I.op \notin WordOps \cup CallOps
    BY <1>10 DEF InstrBytes, OpCodeLength, WordOps, CallOps, Jumps, PeekJumps, U32Bytes
  <2>2. piece[2] = near[1] /\ piece[3] = near[2] /\ piece[4] = far[1] /\ piece[5] = far[2]
    <3> DEFINE x == OpCodeByte[I.op]
               word == near \o far
    <3> HIDE DEF near, far, piece
    <3>1. word \in Seq(Nat) /\ Len(word) = 4 /\ piece = <<x>> \o word /\ x \in Nat
      <4>1. word \in Seq(Nat) /\ Len(word) = Len(near) + Len(far)
        BY <1>7, ConcatProperties, Zenon
      <4>2. x \in Nat
        BY <1>1, OpCodesNumbered
      <4>3. Len(near) + Len(far) = 4
        BY <1>7
      <4>4. piece = <<x>> \o word
        BY <2>1
      <4> QED
        BY <4>1, <4>2, <4>3, <4>4, Zenon
    <3>2. word[1] = near[1] /\ word[2] = near[2] /\ word[3] = far[1] /\ word[4] = far[2]
      <4>1. \A i \in 1 .. Len(near) + Len(far) :
              word[i] = IF i <= Len(near) THEN near[i] ELSE far[i - Len(near)]
        BY <1>7, ConcatProperties, Zenon
      <4>2. Len(near) = 2 /\ Len(far) = 2
        BY <1>7
      <4> HIDE DEF word
      <4> QED
        BY <4>1, <4>2
    <3> HIDE DEF word, x
    <3>3. /\ 1 \in 1 .. Len(word) /\ 2 \in 1 .. Len(word)
          /\ 3 \in 1 .. Len(word) /\ 4 \in 1 .. Len(word)
      BY <3>1
    <3>4. /\ piece[1 + 1] = word[1] /\ piece[2 + 1] = word[2]
          /\ piece[3 + 1] = word[3] /\ piece[4 + 1] = word[4]
      BY <3>1, <3>3, BehindOpcode, Zenon
    <3> QED
      BY <3>2, <3>4
  <2>3. /\ code[operand + 1] = near[1] /\ code[operand + 2] = near[2]
        /\ code[operand + 2 + 1] = far[1] /\ code[operand + 2 + 2] = far[2]
    BY <1>3, <1>6, <2>1, <2>2
  <2>4. ReadU32(code, operand) = t
    BY <2>3, ReadsTarget
  <2>5. FetchedAt(chunk, at) = Instr(I.op, t, 0) /\ I.b = 0
    BY <1>5, <1>10, <2>1, <2>4 DEF Roomy
  <2>6. [I EXCEPT !.a = t] = Instr(I.op, t, I.b)
    BY DEF Instr, Instruction
  <2> QED
    BY <1>10, <2>5, <2>6
<1>11. CASE I.op \notin WordOps \cup CallOps \cup Jumps
  BY <1>1, <1>5, <1>11 DEF Roomy
<1> QED
  BY <1>8, <1>9, <1>10, <1>11

---------------------------------------------------------------------------
(* A function's chunk.                                                     *)

\* A function that was generated: its instructions, and the room they have.
Generated(F) == F.code \in Seq(Instruction) /\ Len(F.code) # 0 /\ Fits(F)

LEMMA FunctionsGenerated ==
  ASSUME NEW m \in DOMAIN Modules, NEW f \in FunctionIds(m)
  PROVE  Generated(Function(m, f))
<1> DEFINE F == Function(m, f)
<1>1. F.code \in Seq(Instruction)
  BY ModuleAssumption DEF FunctionOK, Instruction
<1>2. Fits(F)
  BY ChunkAssumption
<1>3. 1 \in 1 .. Len(F.code)
  BY VerifiedCode DEF Certifies
<1>4. Len(F.code) # 0
  BY <1>3
<1> QED
  BY <1>1, <1>2, <1>4 DEF Generated

\* Every instruction has room, and every jump leads into the words of 4 bytes.
LEMMA InstructionFits ==
  ASSUME NEW F, Generated(F), NEW i \in 1 .. Len(F.code)
  PROVE  /\ F.code[i] \in Instruction /\ Roomy(F.code[i])
         /\ Target(F.code[i], Offsets(F.code)) \in Words32
         /\ F.code[i].op \in Jumps => F.code[i].a \in 1 .. Len(F.code) + 1
<1> DEFINE I == F.code[i]
           K == Len(F.code)
           begins == Offsets(F.code)
<1>1. F.code \in Seq(Instruction) /\ K \in Nat /\ I \in Instruction
  BY DEF Generated
<1>2. BeginOneByOne(begins, F.code)
  BY <1>1, OffsetsAre
<1>3. Fits(F) /\ DOMAIN F.code = 1 .. K
  BY <1>1 DEF Generated
<1>4. /\ I.op \in WordOps \cup CallOps => I.a < Bytes * Bytes
      /\ I.op \in Jumps => I.a \in 1 .. K + 1
      /\ I.op \notin WordOps \cup CallOps \cup Jumps => I.a = 0
      /\ I.op \notin CallOps => I.b = 0
      /\ begins[K + 1] < (Bytes * Bytes) * (Bytes * Bytes)
  BY <1>3 DEF Fits
<1>5. Roomy(I)
  BY <1>4 DEF Roomy
<1> HIDE DEF begins
<1>6. ASSUME NEW j \in 1 .. K + 1
      PROVE  begins[j] \in Words32
  <2>1. begins[j] \in Nat /\ begins[K + 1] \in Nat /\ K + 1 \in 1 .. Len(F.code) + 1
    BY <1>1, <1>2 DEF BeginOneByOne
  <2>2. K + 1 < j <=> begins[K + 1] < begins[j]
    BY <1>1, <1>2, <2>1, BeginsInOrder
  <2>3. begins[j] <= begins[K + 1]
    BY <1>1, <2>1, <2>2
  <2> DEFINE size == (Bytes * Bytes) * (Bytes * Bytes)
  <2>4. size \in Nat /\ begins[K + 1] < size /\ Words32 = 0 .. size - 1
    BY <1>4, ByteType DEF Words32
  <2> HIDE DEF size
  <2> QED
    BY <2>1, <2>3, <2>4
<1>7. Target(I, begins) \in Words32
  <2>1. CASE I.op \in Jumps
    BY <1>4, <1>6, <2>1 DEF Target
  <2>2. CASE I.op \notin Jumps
    <3>1. begins[1] \in Words32 /\ begins[1] = 0
      BY <1>1, <1>2, <1>6 DEF BeginOneByOne
    <3> QED
      BY <2>2, <3>1 DEF Target
  <2> QED
    BY <2>1, <2>2
<1> QED
  BY <1>1, <1>4, <1>5, <1>7 DEF begins

\* The bytes of its instructions lie where they begin.
LEMMA EncodedLies ==
  ASSUME NEW F, Generated(F), NEW begins, begins = Offsets(F.code)
  PROVE  LaidOut(Encoded(F, begins).code, Pieces(F, begins), begins, Len(F.code))
<1> DEFINE K == Len(F.code)
           pieces == Pieces(F, begins)
<1>1. F.code \in Seq(Instruction) /\ K \in Nat \ {0} /\ DOMAIN F.code = 1 .. K
  BY DEF Generated
<1>2. BeginOneByOne(begins, F.code)
  BY <1>1, OffsetsAre
<1>3. ASSUME NEW i \in 1 .. K
      PROVE  /\ pieces[i] \in Seq(Nat)
             /\ begins[i + 1] = begins[i] + Len(pieces[i])
  <2>1. pieces[i] = InstrBytes(F.code[i], Target(F.code[i], begins))
    BY <1>1 DEF Pieces
  <2>2. F.code[i] \in Instruction /\ Target(F.code[i], begins) \in Nat
    BY InstructionFits, UpperWord
  <2>3. pieces[i] \in Seq(Nat) /\ Len(pieces[i]) = OpCodeLength(F.code[i].op)
    BY <2>1, <2>2, LengthIs
  <2> QED
    BY <1>2, <2>3 DEF BeginOneByOne
<1>4. pieces \in [1 .. K -> Seq(Nat)]
  <2>1. pieces = [i \in 1 .. K |-> pieces[i]]
    BY <1>1 DEF Pieces
  <2> HIDE DEF pieces
  <2> QED
    BY <1>3, <2>1
<1>5. begins \in [1 .. K + 1 -> Nat] /\ begins[1] = 0
  BY <1>2 DEF BeginOneByOne
<1>6. Encoded(F, begins).code = FlattenSeq(pieces)
  BY DEF Encoded
<1> HIDE DEF K, pieces
<1>7. LaidOut(FlattenSeq(pieces), pieces, begins, K)
  BY <1>1, <1>3, <1>4, <1>5, Flattened
<1> QED
  BY <1>6, <1>7 DEF K, pieces

\* What is fetched where an instruction begins is what was meant.
LEMMA FetchedWhereBegun ==
  ASSUME NEW F, Generated(F), NEW begins, begins = Offsets(F.code), NEW i \in 1 .. Len(F.code)
  PROVE  FetchedAt(Encoded(F, begins), begins[i]) = Meant(F.code[i], begins)
<1> DEFINE I == F.code[i]
           t == Target(I, begins)
           chunk == Encoded(F, begins)
<1>1. I \in Instruction /\ Roomy(I) /\ t \in Words32
  BY InstructionFits
<1>2. LaidOut(chunk.code, Pieces(F, begins), begins, Len(F.code))
  BY EncodedLies
<1>3. F.code \in Seq(Instruction) /\ DOMAIN F.code = 1 .. Len(F.code)
  BY DEF Generated
<1>4. Pieces(F, begins)[i] = InstrBytes(I, t)
  BY <1>3 DEF Pieces
<1>5. begins[i] \in Nat
  <2>1. BeginOneByOne(begins, F.code)
    BY <1>3, OffsetsAre
  <2>2. i \in 1 .. Len(F.code) + 1
    BY <1>3
  <2> QED
    BY <2>1, <2>2 DEF BeginOneByOne
<1>6. StandsAt(chunk.code, begins[i], InstrBytes(I, t))
  BY <1>2, <1>4, Zenon DEF LaidOut, StandsAt
<1> HIDE DEF t, chunk
<1>7. FetchedAt(chunk, begins[i]) = IF I.op \in Jumps THEN [I EXCEPT !.a = t] ELSE I
  BY <1>1, <1>5, <1>6, FetchedIs
<1>8. I.op \in Jumps => t = begins[I.a]
  BY DEF t, Target
<1> QED
  BY <1>7, <1>8 DEF Meant, chunk

\* The disassembler meets the instructions where they begin, and nothing else.
ListsWhatBegins(F, begins) ==
  ListedOffsets(Encoded(F, begins)) = { begins[i] : i \in 1 .. Len(F.code) }

LEMMA ListedWhereBegun ==
  ASSUME NEW F, Generated(F), NEW begins, begins = Offsets(F.code)
  PROVE  ListsWhatBegins(F, begins)
<1> DEFINE K == Len(F.code)
           chunk == Encoded(F, begins)
           L == Len(chunk.code)
           far(o) == OpCodeLength(FetchedAt(chunk, o).op)
           Walk(g, n) == [o \in n .. L + 4 |-> IF o >= L THEN {} ELSE {o} \cup g[o + far(o)]]
           W == CHOOSE g : g = Walk(g, 0)
<1>1. F.code \in Seq(Instruction) /\ K \in Nat \ {0}
  BY DEF Generated
<1>2. BeginOneByOne(begins, F.code)
  BY <1>1, OffsetsAre
<1>3. L = begins[K + 1] /\ L \in Nat
  <2>1. LaidOut(chunk.code, Pieces(F, begins), begins, K)
    BY EncodedLies
  <2> QED
    BY <2>1 DEF LaidOut
<1>4. ListedOffsets(chunk) = W[0]
  BY DEF ListedOffsets
<1>5. \A o : far(o) \in 1 .. 5
  BY DEF OpCodeLength
<1> HIDE DEF L, far
<1> DEFINE Has(n) == \E g : g = Walk(g, n)
<1>6. Has(L)
  <2> DEFINE g == [o \in L .. L + 4 |-> {}]
  <2>1. g = Walk(g, L)
    BY <1>3
  <2> QED
    BY <2>1, Zenon
<1>7. ASSUME NEW n \in Nat, n < L, Has(n + 1)
      PROVE  Has(n)
  <2>1. PICK g : g = Walk(g, n + 1)
    BY <1>7, Zenon
  <2> DEFINE first == {n} \cup g[n + far(n)]
             f == [o \in n .. L + 4 |-> IF o = n THEN first ELSE g[o]]
  <2>2. ASSUME NEW o \in n .. L + 4
        PROVE  f[o] = IF o >= L THEN {} ELSE {o} \cup f[o + far(o)]
    <3>1. far(o) \in 1 .. 5
      BY <1>5
    <3>2. CASE o >= L
      <4>1. o \in n + 1 .. L + 4 /\ o # n
        BY <1>3, <1>7, <3>2
      <4>2. f[o] = g[o] /\ g[o] = {}
        <5> HIDE DEF first
        <5> QED
          BY <2>1, <3>2, <4>1
      <4> QED
        BY <3>2, <4>2
    <3>3. CASE ~(o >= L)
      <4>1. o + far(o) \in n + 1 .. L + 4 /\ o + far(o) # n
        <5> DEFINE d == far(o)
        <5>1. d \in 1 .. 5 /\ L \in Nat /\ n \in Nat /\ o \in n .. L + 4 /\ ~(o >= L)
          BY <1>3, <3>1, <3>3
        <5> HIDE DEF d
        <5>2. o + d \in n + 1 .. L + 4 /\ o + d # n
          BY <5>1
        <5> QED
          BY <5>2 DEF d
      <4>2. f[o + far(o)] = g[o + far(o)]
        <5> DEFINE p == o + far(o)
        <5>1. p \in n .. L + 4 /\ p # n
          BY <1>3, <1>7, <4>1
        <5> HIDE DEF p, first
        <5>2. f[p] = g[p]
          BY <5>1
        <5> QED
          BY <5>2 DEF p
      <4>3. CASE o = n
        BY <3>3, <4>2, <4>3
      <4>4. CASE o # n
        <5>1. o \in n + 1 .. L + 4
          BY <4>4
        <5>2. f[o] = g[o] /\ g[o] = {o} \cup g[o + far(o)]
          <6> HIDE DEF first
          <6> QED
            BY <2>1, <3>3, <4>4, <5>1
        <5> QED
          BY <3>3, <4>2, <5>2
      <4> QED
        BY <4>3, <4>4
    <3> QED
      BY <3>2, <3>3
  <2>3. f = Walk(f, n)
    <3>1. f = [o \in n .. L + 4 |-> f[o]]
      OBVIOUS
    <3> HIDE DEF f
    <3> QED
      BY <2>2, <3>1, Zenon
  <2> QED
    BY <2>3, Zenon
<1>8. Has(0)
  <2> HIDE DEF Has
  <2> DEFINE Missing == {n \in 0 .. L : ~Has(L - n)}
  <2>1. Missing = {}
    <3> SUFFICES ASSUME Missing # {} PROVE FALSE
      OBVIOUS
    <3>1. PICK n \in Missing : \A k \in Missing : n <= k
      <4>1. Missing \subseteq Nat
        BY <1>3
      <4> QED
        BY <4>1, LeastOf
    <3>2. n # 0
      <4>1. L - 0 = L
        BY <1>3
      <4> QED
        BY <1>6, <3>1, <4>1
    <3>3. n \in 1 .. L
      BY <1>3, <3>1, <3>2
    <3>4. n - 1 \in 0 .. L /\ n - 1 \notin Missing
      <4>1. n - 1 \in 0 .. L /\ ~(n <= n - 1)
        BY <1>3, <3>3
      <4> HIDE DEF Missing
      <4> QED
        BY <3>1, <4>1, Zenon
    <3>5. Has(L - (n - 1))
      BY <3>4
    <3>6. L - (n - 1) = (L - n) + 1 /\ L - n \in Nat /\ L - n < L
      <4>1. L \in Nat /\ n \in 1 .. L
        BY <1>3, <3>3
      <4> QED
        BY <4>1
    <3>7. Has((L - n) + 1)
      BY <3>5, <3>6
    <3> QED
      BY <1>7, <3>1, <3>6, <3>7
  <2>2. L \in 0 .. L /\ L - L = 0
    BY <1>3
  <2> QED
    BY <2>1, <2>2
<1>9. W = Walk(W, 0)
  <2> HIDE DEF Walk
  <2> QED
    BY <1>8, Zenon
<1> HIDE DEF W, Has
<1>10. ASSUME NEW o \in 0 .. L
       PROVE  W[o] = IF o >= L THEN {} ELSE {o} \cup W[o + far(o)]
  <2>1. o \in 0 .. L + 4
    BY <1>3
  <2>2. Walk(W, 0)[o] = IF o >= L THEN {} ELSE {o} \cup W[o + far(o)]
    BY <2>1
  <2> HIDE DEF Walk
  <2> QED
    BY <1>9, <2>2, Zenon
<1> HIDE DEF Walk
<1>11. ASSUME NEW i \in 1 .. K
       PROVE  /\ begins[i] \in 0 .. L /\ begins[i] < L
              /\ begins[i] + far(begins[i]) = begins[i + 1]
  <2>1. begins[i] \in Nat /\ i \in 1 .. K + 1 /\ K + 1 \in 1 .. K + 1 /\ i < K + 1
    BY <1>1, <1>2 DEF BeginOneByOne
  <2>2. begins[i] < begins[K + 1]
    BY <1>1, <1>2, <2>1, BeginsInOrder
  <2>3. FetchedAt(chunk, begins[i]).op = F.code[i].op
    <3>1. FetchedAt(chunk, begins[i]) = Meant(F.code[i], begins)
      BY FetchedWhereBegun
    <3>2. F.code[i] \in Instruction
      BY <1>1
    <3>3. Meant(F.code[i], begins).op = F.code[i].op
      BY <3>2 DEF Meant, Instruction
    <3> QED
      BY <3>1, <3>3, Zenon
  <2>4. begins[i + 1] = begins[i] + far(begins[i])
    BY <1>2, <2>3 DEF BeginOneByOne, far
  <2> QED
    BY <1>3, <2>1, <2>2, <2>4
<1> DEFINE From(i) == { begins[j] : j \in i .. K }
           Wrong == {n \in 0 .. K : W[begins[(K + 1) - n]] # From((K + 1) - n)}
<1>12. Wrong = {}
  <2> SUFFICES ASSUME Wrong # {} PROVE FALSE
    OBVIOUS
  <2>1. PICK n \in Wrong : \A k \in Wrong : n <= k
    <3>1. Wrong \subseteq Nat
      BY <1>1
    <3> QED
      BY <3>1, LeastOf
  <2>2. CASE n = 0
    <3>1. (K + 1) - n = K + 1 /\ begins[K + 1] = L /\ L \in 0 .. L
      BY <1>1, <1>3, <2>2
    <3>2. W[L] = {}
      <4>1. L >= L
        BY <1>3
      <4> QED
        BY <1>10, <3>1, <4>1
    <3>3. From(K + 1) = {}
      BY <1>1
    <3> QED
      BY <2>1, <3>1, <3>2, <3>3
  <2>3. CASE n # 0
    <3> DEFINE i == (K + 1) - n
    <3>1. i \in 1 .. K /\ n - 1 \in 0 .. K /\ n - 1 \notin Wrong /\ (K + 1) - (n - 1) = i + 1
      <4>1. n \in 1 .. K /\ K \in Nat
        BY <1>1, <2>1, <2>3
      <4>2. n - 1 \notin Wrong
        <5> HIDE DEF Wrong
        <5> QED
          BY <2>1, <4>1
      <4> QED
        BY <4>1, <4>2
    <3>2. W[begins[i + 1]] = From(i + 1)
      BY <3>1
    <3> HIDE DEF i
    <3>3. W[begins[i]] = {begins[i]} \cup W[begins[i + 1]]
      <4>1. /\ begins[i] \in 0 .. L /\ begins[i] < L
            /\ begins[i] + far(begins[i]) = begins[i + 1]
        BY <1>11, <3>1
      <4>2. ~(begins[i] >= L)
        BY <1>3, <4>1
      <4>3. W[begins[i]] = {begins[i]} \cup W[begins[i] + far(begins[i])]
        BY <1>10, <4>1, <4>2, Zenon
      <4> QED
        BY <4>1, <4>3, Zenon
    <3>4. i .. K = {i} \cup (i + 1 .. K)
      BY <1>1, <3>1
    <3>5. From(i) = {begins[i]} \cup From(i + 1)
      BY <3>4, Zenon
    <3> QED
      BY <2>1, <3>2, <3>3, <3>5 DEF i
  <2> QED
    BY <2>2, <2>3
<1>13. W[begins[1]] = From(1)
  <2>1. K \in 0 .. K /\ (K + 1) - K = 1
    BY <1>1
  <2> QED
    BY <1>12, <2>1
<1>14. begins[1] = 0
  BY <1>2 DEF BeginOneByOne
<1> QED
  BY <1>4, <1>13, <1>14 DEF ListsWhatBegins

\* A chunk says what was generated.
LEMMA ChunkSaysTheSame ==
  ASSUME NEW F, Generated(F), NEW begins, begins = Offsets(F.code)
  PROVE  SaysTheSame(F, begins, Encoded(F, begins))
<1>1. DOMAIN F.code = 1 .. Len(F.code)
  BY DEF Generated
<1>2. \A i \in 1 .. Len(F.code) :
        FetchedAt(Encoded(F, begins), begins[i]) = Meant(F.code[i], begins)
  BY FetchedWhereBegun
<1>3. ListsWhatBegins(F, begins)
  BY ListedWhereBegun
<1>4. ListedOffsets(Encoded(F, begins)) = { begins[i] : i \in 1 .. Len(F.code) }
  BY <1>3, Zenon DEF ListsWhatBegins
<1> QED
  BY <1>1, <1>2, <1>4, Zenon DEF SaysTheSame

---------------------------------------------------------------------------
(* The table of spans.                                                     *)

Entries(F) == [offset : Nat, span : { F.spans[i] : i \in 1 .. Len(F.code) }]

\* The entry for instruction j: it comes at or before the instruction, and the next
\* one behind it.
EntryFor(F, begins, t, j, k) ==
  /\ k \in 1 .. Len(t) /\ t[k].span = F.spans[j] /\ t[k].offset <= begins[j]
  /\ \A l \in k + 1 .. Len(t) : begins[j + 1] <= t[l].offset

\* The table after the first n instructions has one for each of them.
Tabled(F, begins, t, n) ==
  /\ t \in Seq(Entries(F))
  /\ \A k \in 1 .. Len(t) : t[k].offset < begins[n + 1]
  /\ \A j \in 1 .. n : \E k : EntryFor(F, begins, t, j, k)

\* What Chunk::write makes of the table at the first byte of an instruction.
Extended(F, begins, t, i) ==
  IF t # << >> /\ Last(t).span = F.spans[i] THEN t
  ELSE Append(t, [offset |-> begins[i], span |-> F.spans[i]])

LEMMA TabledOneMore ==
  ASSUME NEW F, Generated(F), NEW begins, begins = Offsets(F.code),
         NEW n \in Nat, n < Len(F.code), NEW t, Tabled(F, begins, t, n)
  PROVE  Tabled(F, begins, Extended(F, begins, t, n + 1), n + 1)
<1> DEFINE K == Len(F.code)
           i == n + 1
           e == [offset |-> begins[i], span |-> F.spans[i]]
<1>1. F.code \in Seq(Instruction) /\ K \in Nat
  BY DEF Generated
<1>2. BeginOneByOne(begins, F.code)
  BY <1>1, OffsetsAre
<1>3. i \in 1 .. K /\ i + 1 \in 1 .. K + 1 /\ i \in 1 .. K + 1
  BY <1>1
<1>4. begins[i] \in Nat /\ begins[i + 1] \in Nat
  BY <1>2, <1>3 DEF BeginOneByOne
<1>5. begins[i] < begins[i + 1]
  BY <1>1, <1>2, <1>3, BeginsInOrder
<1>6. t \in Seq(Entries(F)) /\ Len(t) \in Nat /\ \A k \in 1 .. Len(t) : t[k] \in Entries(F)
  BY DEF Tabled
<1>7. \A k \in 1 .. Len(t) : t[k].offset \in Nat /\ t[k].offset < begins[i]
  BY <1>6 DEF Tabled, Entries
<1>8. CASE t # << >> /\ Last(t).span = F.spans[i]
  <2>1. Extended(F, begins, t, i) = t
    BY <1>8, Zenon DEF Extended
  <2>2. \A k \in 1 .. Len(t) : t[k].offset < begins[i + 1]
    BY <1>4, <1>5, <1>7
  <2>3. ASSUME NEW j \in 1 .. i
        PROVE  \E k : EntryFor(F, begins, t, j, k)
    <3>1. CASE j \in 1 .. n
      BY <3>1 DEF Tabled
    <3>2. CASE j = i
      <4>1. Len(t) \in 1 .. Len(t) /\ Last(t) = t[Len(t)] /\ Len(t) + 1 .. Len(t) = {}
        BY <1>6, <1>8 DEF Last
      <4>2. t[Len(t)].offset <= begins[i]
        BY <1>4, <1>7, <4>1
      <4>3. EntryFor(F, begins, t, i, Len(t))
        BY <1>8, <4>1, <4>2, Zenon DEF EntryFor
      <4> QED
        BY <3>2, <4>3, Zenon
    <3> QED
      BY <3>1, <3>2
  <2> QED
    BY <1>6, <2>1, <2>2, <2>3, Zenon DEF Tabled
<1>9. CASE ~(t # << >> /\ Last(t).span = F.spans[i])
  <2> DEFINE u == Append(t, e)
  <2>1. Extended(F, begins, t, i) = u
    BY <1>9, Zenon DEF Extended
  <2>2. e \in Entries(F)
    BY <1>3, <1>4 DEF Entries
  <2>3. e.offset = begins[i] /\ e.span = F.spans[i]
    OBVIOUS
  <2> HIDE DEF e
  <2>4. /\ u \in Seq(Entries(F)) /\ Len(u) = Len(t) + 1
        /\ \A k \in 1 .. Len(t) : u[k] = t[k]
        /\ u[Len(t) + 1] = e
    <3>1. /\ Append(t, e) \in Seq(Entries(F)) /\ Len(Append(t, e)) = Len(t) + 1
          /\ \A k \in 1 .. Len(t) : Append(t, e)[k] = t[k]
          /\ Append(t, e)[Len(t) + 1] = e
      BY <1>6, <2>2, AppendProperties
    <3> QED
      BY <3>1
  <2> HIDE DEF u
  <2>5. 1 .. Len(u) = (1 .. Len(t)) \cup {Len(t) + 1}
    BY <1>6, <2>4
  <2>6. \A k \in 1 .. Len(u) : u[k].offset < begins[i + 1]
    BY <1>4, <1>5, <1>7, <2>3, <2>4, <2>5
  <2>7. ASSUME NEW j \in 1 .. i
        PROVE  \E k : EntryFor(F, begins, u, j, k)
    <3>1. CASE j \in 1 .. n
      <4>1. PICK k : EntryFor(F, begins, t, j, k)
        BY <3>1 DEF Tabled
      <4>2. k \in 1 .. Len(t) /\ k \in 1 .. Len(u) /\ u[k] = t[k]
        BY <2>4, <2>5, <4>1 DEF EntryFor
      <4>3. begins[j + 1] <= begins[i]
        <5>1. j + 1 \in 1 .. K + 1 /\ (j + 1 = i \/ j + 1 < i)
          BY <1>1, <1>3, <3>1
        <5>2. begins[j + 1] \in Nat
          BY <1>2, <5>1 DEF BeginOneByOne
        <5>3. j + 1 < i <=> begins[j + 1] < begins[i]
          BY <1>1, <1>2, <1>3, <5>1, BeginsInOrder
        <5> QED
          BY <1>4, <5>1, <5>2, <5>3
      <4>4. ASSUME NEW l \in k + 1 .. Len(u)
            PROVE  begins[j + 1] <= u[l].offset
        <5>1. l \in k + 1 .. Len(t) \/ l = Len(t) + 1
          BY <1>6, <2>4, <4>2
        <5>2. l \in k + 1 .. Len(t) => u[l] = t[l] /\ begins[j + 1] <= t[l].offset
          <6>1. l \in k + 1 .. Len(t) => l \in 1 .. Len(t)
            BY <4>2
          <6> QED
            BY <2>4, <4>1, <6>1 DEF EntryFor
        <5> QED
          BY <2>3, <2>4, <4>3, <5>1, <5>2, Zenon
      <4>5. EntryFor(F, begins, u, j, k)
        BY <4>1, <4>2, <4>4 DEF EntryFor
      <4> QED
        BY <4>5, Zenon
    <3>2. CASE j = i
      <4>1. /\ Len(u) \in 1 .. Len(u) /\ Len(u) = Len(t) + 1 /\ Len(u) + 1 .. Len(u) = {}
            /\ begins[i] <= begins[i]
        BY <1>4, <1>6, <2>4
      <4>2. u[Len(u)] = e
        BY <2>4, <4>1, Zenon
      <4>3. EntryFor(F, begins, u, i, Len(u))
        BY <2>3, <4>1, <4>2, Zenon DEF EntryFor
      <4> QED
        BY <3>2, <4>3, Zenon
    <3> QED
      BY <3>1, <3>2
  <2> QED
    BY <2>1, <2>4, <2>6, <2>7, Zenon DEF Tabled
<1> QED
  BY <1>8, <1>9

\* The table of a whole function.
LEMMA TableIs ==
  ASSUME NEW F, Generated(F), NEW begins, begins = Offsets(F.code)
  PROVE  Tabled(F, begins, Encoded(F, begins).spans, Len(F.code))
<1> DEFINE K == Len(F.code)
           S == Seq(Entries(F))
           h == [i \in 0 + 1 .. K |-> [t \in S |-> Extended(F, begins, t, i)]]
           Body(g) == [i \in 0 .. K |-> IF i = 0 THEN << >> ELSE Extended(F, begins, g[i - 1], i)]
           T == CHOOSE g : g = Body(g)
<1>1. F.code \in Seq(Instruction) /\ K \in Nat /\ Len(F.spans) = K
  BY DEF Generated, Fits
<1>2. BeginOneByOne(begins, F.code)
  BY <1>1, OffsetsAre
<1>3. Encoded(F, begins).spans = T[K]
  BY <1>1, Zenon DEF Encoded, Table, Extended
<1>4. h \in [0 + 1 .. K -> [S -> S]]
  <2> SUFFICES ASSUME NEW i \in 0 + 1 .. K, NEW t \in S PROVE Extended(F, begins, t, i) \in S
    OBVIOUS
  <2>1. i \in 1 .. K /\ begins[i] \in Nat
    <3>1. i \in 1 .. K /\ i \in 1 .. K + 1
      BY <1>1
    <3> QED
      BY <1>2, <3>1 DEF BeginOneByOne
  <2>2. [offset |-> begins[i], span |-> F.spans[i]] \in Entries(F)
    BY <2>1 DEF Entries
  <2> QED
    BY <2>2 DEF Extended
<1>5. PICK f : Iterates(f, S, << >>, h, 0, K)
  <2>1. << >> \in S /\ 0 \in Nat /\ K \in Nat /\ 0 <= K
    BY <1>1
  <2> HIDE DEF h, S
  <2> QED
    BY <1>4, <2>1, IterationExists
<1>6. f = Body(f)
  <2>1. f \in [0 .. K -> S] /\ f[0] = << >>
    BY <1>5 DEF Iterates
  <2>2. ASSUME NEW i \in 0 + 1 .. K PROVE f[i] = Extended(F, begins, f[i - 1], i)
    <3>0. i - 1 \in 0 .. K
      BY <1>1
    <3>1. f[i] = h[i][f[i - 1]] /\ f[i - 1] \in S
      <4> HIDE DEF h, S
      <4> QED
        BY <1>5, <2>1, <3>0 DEF Iterates
    <3> QED
      BY <3>1
  <2>3. \A i \in 0 .. K : f[i] = IF i = 0 THEN << >> ELSE Extended(F, begins, f[i - 1], i)
    <3>1. \A i \in 0 .. K : i = 0 \/ i \in 0 + 1 .. K
      BY <1>1
    <3> QED
      BY <2>1, <2>2, <3>1, Zenon
  <2>4. f = [i \in 0 .. K |-> f[i]]
    BY <2>1
  <2> QED
    BY <2>3, <2>4, Zenon
<1>7. T = Body(T)
  <2> HIDE DEF Body
  <2> QED
    BY <1>6, Zenon
<1>8. T[0] = << >> /\ \A i \in 1 .. K : T[i] = Extended(F, begins, T[i - 1], i)
  <2> DEFINE G == T
  <2>1. G = Body(G)
    BY <1>7
  <2> HIDE DEF G
  <2>2. G[0] = << >> /\ \A i \in 1 .. K : G[i] = Extended(F, begins, G[i - 1], i)
    BY <1>1, <2>1
  <2> QED
    BY <2>2 DEF G
<1> HIDE DEF T, h, Body, S
<1> DEFINE Wrong == {i \in 0 .. K : ~Tabled(F, begins, T[i], i)}
<1>9. Wrong = {}
  <2> SUFFICES ASSUME Wrong # {} PROVE FALSE
    OBVIOUS
  <2>1. PICK i \in Wrong : \A k \in Wrong : i <= k
    <3>1. Wrong \subseteq Nat
      OBVIOUS
    <3> QED
      BY <3>1, LeastOf
  <2>2. CASE i = 0
    <3>1. 1 .. 0 = {} /\ Len(<< >>) = 0 /\ << >> \in Seq(Entries(F))
      OBVIOUS
    <3>2. Tabled(F, begins, << >>, 0)
      BY <3>1, Zenon DEF Tabled
    <3> QED
      BY <1>8, <2>1, <2>2, <3>2
  <2>3. CASE i # 0
    <3> DEFINE n == i - 1
    <3>1. n \in 0 .. K /\ n \notin Wrong /\ n + 1 = i /\ n \in Nat /\ n < K /\ i \in 1 .. K
      <4>1. i \in 1 .. K /\ i - 1 \in 0 .. K /\ ~(i <= i - 1) /\ (i - 1) + 1 = i
            /\ i - 1 \in Nat /\ i - 1 < K
        BY <1>1, <2>1, <2>3
      <4> HIDE DEF Wrong
      <4> QED
        BY <2>1, <4>1
    <3>2. Tabled(F, begins, T[n], n)
      BY <3>1
    <3>3. T[i] = Extended(F, begins, T[n], i)
      BY <1>8, <3>1
    <3> HIDE DEF n
    <3>4. Tabled(F, begins, Extended(F, begins, T[n], n + 1), n + 1)
      BY <3>1, <3>2, TabledOneMore
    <3> QED
      BY <2>1, <3>1, <3>3, <3>4
  <2> QED
    BY <2>2, <2>3
<1>10. Tabled(F, begins, T[K], K)
  <2>1. K \in 0 .. K
    BY <1>1
  <2> QED
    BY <1>9, <2>1
<1> QED
  BY <1>3, <1>10, Zenon

\* The place reported for an ip behind an instruction is the instruction's.
LEMMA ReportedIs ==
  ASSUME NEW F, Generated(F), NEW begins, begins = Offsets(F.code), NEW j \in 1 .. Len(F.code)
  PROVE  ReportedAt(Encoded(F, begins), begins[j + 1]) = F.spans[j]
<1> DEFINE K == Len(F.code)
           chunk == Encoded(F, begins)
           t == chunk.spans
           last == begins[j + 1] - 1
           before == { k \in DOMAIN t : t[k].offset <= last }
<1>1. F.code \in Seq(Instruction) /\ K \in Nat
  BY DEF Generated
<1>2. BeginOneByOne(begins, F.code)
  BY <1>1, OffsetsAre
<1>3. j \in 1 .. K + 1 /\ j + 1 \in 1 .. K + 1 /\ j < j + 1
  BY <1>1
<1>4. begins[j] \in Nat /\ begins[j + 1] \in Nat /\ begins[j] < begins[j + 1]
  BY <1>1, <1>2, <1>3, BeginsInOrder DEF BeginOneByOne
<1>5. ReportedAt(chunk, begins[j + 1]) = SpanAt(chunk, last)
  BY <1>4 DEF ReportedAt
<1>6. Tabled(F, begins, t, K)
  BY TableIs
<1> HIDE DEF t
<1>7. t \in Seq(Entries(F)) /\ DOMAIN t = 1 .. Len(t) /\ Len(t) \in Nat
  BY <1>6 DEF Tabled
<1>8. PICK k : EntryFor(F, begins, t, j, k)
  BY <1>6, Zenon DEF Tabled
<1>9. \A l \in 1 .. Len(t) : t[l].offset \in Nat
  <2> SUFFICES ASSUME NEW l \in 1 .. Len(t) PROVE t[l].offset \in Nat
    OBVIOUS
  <2>1. t[l] \in Entries(F)
    BY <1>7
  <2> QED
    BY <2>1 DEF Entries
<1>10. k \in 1 .. Len(t) /\ t[k].span = F.spans[j] /\ k \in before
  BY <1>4, <1>7, <1>8, <1>9 DEF EntryFor
<1>11. ASSUME NEW l \in before
       PROVE  l <= k /\ l \in Nat
  <2>1. l \in 1 .. Len(t) /\ t[l].offset <= last /\ t[l].offset \in Nat
    BY <1>7, <1>9
  <2>2. ~(begins[j + 1] <= t[l].offset)
    BY <1>4, <2>1
  <2>3. l \notin k + 1 .. Len(t)
    BY <1>8, <2>2, Zenon DEF EntryFor
  <2> QED
    BY <1>7, <1>10, <2>1, <2>3
<1> DEFINE S == before \cup {1}
<1>12. Max(S) = k
  <2>1. k \in S /\ k \in Nat
    BY <1>10
  <2>2. \A l \in S : l \in Nat /\ k >= l
    BY <1>10, <1>11
  <2> HIDE DEF S
  <2>3. \E x \in S : \A y \in S : x >= y
    BY <2>1, <2>2
  <2>4. Max(S) \in S /\ \A y \in S : Max(S) >= y
    BY <2>3, Zenon DEF Max
  <2>5. Max(S) \in Nat /\ k >= Max(S) /\ Max(S) >= k
    BY <2>1, <2>2, <2>4, Zenon
  <2> QED
    BY <2>1, <2>5
<1>13. SpanAt(chunk, last) = t[Max(S)].span
  BY DEF SpanAt, t
<1> QED
  BY <1>5, <1>10, <1>12, <1>13, Zenon

---------------------------------------------------------------------------
(* The theorems.                                                           *)

\* The machine on compiled programs is the machine.
LEMMA PipelineIsMachine == PipelineSpec => Spec
<1>1. PipelineInit => Init
  BY DEF PipelineInit
<1>2. [PipelineNext]_pipeline => [Next]_vars
  BY DEF PipelineNext, pipeline
<1> QED
  BY <1>1, <1>2, PTL DEF PipelineSpec, Spec

\* The bytes of every function that is called say what was generated, instruction by
\* instruction, and the disassembler shows those instructions and no others.
THEOREM BytesSayWhatWasMeant == PipelineSpec => []BytesSayTheSame
<1>1. MachineInv => BytesSayTheSame
  <2> SUFFICES ASSUME MachineInv, status = "running"
               PROVE  SaysTheSame(Fn, Offsets(Fn.code), Encoded(Fn, Offsets(Fn.code)))
    BY DEF BytesSayTheSame
  <2>1. prog \in DOMAIN Modules /\ Top.fn \in FunctionIds(prog)
    BY Fetched DEF MachineInv, TypeOK, FramesOf
  <2>2. Generated(Function(prog, Top.fn))
    BY <2>1, FunctionsGenerated
  <2>3. Generated(Fn)
    BY <2>2 DEF Fn
  <2> QED
    BY <2>3, ChunkSaysTheSame
<1> QED
  BY <1>1, PipelineIsMachine, MachineInvariant, PTL

\* A failure is reported where it happened: the report, which knows the offset behind
\* the instruction, finds the span of that instruction, in every frame of the backtrace.
THEOREM FailuresReported == PipelineSpec => []FailuresWhereTheyHappen
<1> DEFINE Inv == MachineInv /\ P!Advanced
<1>1. Init => Inv
  BY MachineInit, P!AdvancedInit, FrameAssumptions
<1>2. Inv /\ [Next]_vars => Inv'
  <2> SUFFICES ASSUME MachineInv, P!Advanced, [Next]_vars PROVE MachineInv' /\ P!Advanced'
    OBVIOUS
  <2>1. MachineInv' /\ [P!Next]_P!vars
    BY MachineNext
  <2>2. P!FrameInv
    BY DEF MachineInv
  <2>3. P!Advanced'
    BY <2>1, <2>2, P!AdvancedNext, FrameAssumptions
  <2> QED
    BY <2>1, <2>3
<1>3. Inv => FailuresWhereTheyHappen
  <2> SUFFICES ASSUME MachineInv, P!Advanced, status \in {"failed", "internal"},
                      NEW k \in DOMAIN frames, NEW F, F = Function(prog, frames[k].fn)
               PROVE  ReportedAt(Encoded(F, Offsets(F.code)), Offsets(F.code)[frames[k].ip])
                        = F.spans[frames[k].ip - 1]
    BY DEF FailuresWhereTheyHappen
  <2>1. prog \in DOMAIN Modules /\ frames \in Seq(FramesOf(prog))
    BY DEF MachineInv, TypeOK
  <2>2. frames[k] \in FramesOf(prog) /\ k \in 1 .. Len(frames) /\ Len(frames) \in Nat
    BY <2>1
  <2>3. frames[k].fn \in FunctionIds(prog) /\ frames[k].ip \in Nat
    BY <2>2 DEF FramesOf
  <2>4. Generated(F)
    <3>1. Generated(Function(prog, frames[k].fn))
      BY <2>1, <2>3, FunctionsGenerated
    <3> QED
      BY <3>1
  <2>5. P!Behind(k)
    <3>1. k \in 1 .. Len(frames) - 1 \/ k = Len(frames)
      BY <2>2
    <3>2. ~(status = "running")
      OBVIOUS
    <3> QED
      BY <3>1, <3>2 DEF P!Advanced
  <2>6. frames[k].ip - 1 \in 1 .. Len(F.code)
    BY <2>5, SameModules DEF P!Behind
  <2> DEFINE j == frames[k].ip - 1
  <2>7. j \in 1 .. Len(F.code) /\ frames[k].ip = j + 1
    BY <2>3, <2>6
  <2> HIDE DEF j
  <2>8. ReportedAt(Encoded(F, Offsets(F.code)), Offsets(F.code)[j + 1]) = F.spans[j]
    BY <2>4, <2>7, ReportedIs
  <2> QED
    BY <2>7, <2>8, Zenon DEF j
<1> QED
  BY <1>1, <1>2, <1>3, PipelineIsMachine, PTL DEF Spec
=============================================================================
