--------------------------- MODULE FireTextProofs ---------------------------
(***************************************************************************)
(* For every width of `int`, limit of repeat and sequence of calls: no     *)
(* builtin on text goes round for ever, repeat builds no more than it      *)
(* allows while its product is a size_t, and rand_int stays in its range.  *)
(* split, join, replace, repeat, trim and find return what is documented   *)
(* of them, ord undoes chr for every code point, and int reads the numbers *)
(* that are written in a text and no others. input and eof hand out every  *)
(* line of every text on standard input, in order and once.                *)
(***************************************************************************)
EXTENDS FireText, FiniteSetTheorems, SequenceTheorems, WellFoundedInduction, TLAPS

---------------------------------------------------------------------------
(* Arithmetic on words.                                                    *)

\* The constants' types.
LEMMA WordsType == IntHalf \in Nat \ {0} /\ RepeatLimit \in Nat /\ Words \in Nat \ {0}
  BY TextAssumption DEF Words

\* What is in range is its own remainder.
LEMMA SmallRemainder ==
  ASSUME NEW w \in Nat \ {0}, NEW n \in 0 .. w - 1
  PROVE  n % w = n
<1>1. /\ n % w \in 0 .. w - 1 /\ n \div w \in Int
      /\ n = w * (n \div w) + (n % w)
  OBVIOUS
<1> DEFINE q == n \div w
<1>2. w * q < w /\ w * q > -w
  BY <1>1
<1> HIDE DEF q
<1>3. ASSUME NEW k \in Int, w * k < w, w * k > -w
      PROVE  k = 0
  <2>1. k >= 1 => w * k >= w
    OBVIOUS
  <2>2. k <= -1 => w * k <= -w
    OBVIOUS
  <2> QED
    BY <1>3, <2>1, <2>2
<1>4. q = 0
  BY <1>1, <1>2, <1>3 DEF q
<1> QED
  BY <1>1, <1>4 DEF q

\* A word that wraps once is 0.
LEMMA OwnRemainder ==
  ASSUME NEW w \in Nat \ {0}
  PROVE  w % w = 0
<1>1. /\ w % w \in 0 .. w - 1 /\ w \div w \in Int
      /\ w = w * (w \div w) + (w % w)
  OBVIOUS
<1> QED
  BY <1>1

\* A remainder is a word.
LEMMA RemainderRange ==
  ASSUME NEW w \in Nat \ {0}, NEW n \in Int
  PROVE  n % w \in 0 .. w - 1
  OBVIOUS

\* The least of a set of natural numbers.
LEMMA MinType ==
  ASSUME NEW S, S \subseteq Nat, S # {}
  PROVE  Min(S) \in S /\ \A n \in S : Min(S) <= n
<1> DEFINE Less == { ss \in Nat \X Nat : ss[1] < ss[2] }
<1>1. IsWellFoundedOn(Less, Nat)
  BY NatLessThanWellFounded, Zenon DEF OpToRel
<1> HIDE DEF Less
<1>2. PICK x \in S : \A y \in S : ~(<<y, x>> \in Less)
  BY <1>1, WFMin, Zenon
<1>3. ASSUME NEW y \in S, y < x
      PROVE  <<y, x>> \in Less
  <2>1. <<y, x>> \in Nat \X Nat /\ <<y, x>>[1] < <<y, x>>[2]
    BY <1>3
  <2> QED
    BY <2>1 DEF Less
<1>4. ASSUME NEW y \in S
      PROVE  x <= y
  <2>1. ~(y < x)
    BY <1>2, <1>3, Zenon
  <2> QED
    BY <2>1
<1> QED
  BY <1>4 DEF Min

---------------------------------------------------------------------------
(* A call and its arguments.                                               *)

IsSequence(s) == \E S : s \in Seq(S)

\* Where the calls are.
Progress ==
  /\ run \in Runs
  /\ IsSequence(results)
  /\ begin \in Nat /\ cut \in Nat

\* What builds its text unit by unit has built as many units as it made turns.
Building ==
  Calling({"repeat"}) /\ Size(Arg(1)) * Arg(2) < Words =>
    /\ IsSequence(built)
    /\ Len(built) = begin * Size(Arg(1))
    /\ begin > 0 => begin <= Arg(2) /\ Size(Arg(1)) * Arg(2) <= RepeatLimit

\* A call that runs has the arguments that its name asks for.
LEMMA CallTyped ==
  ASSUME Progress, NEW names, Calling(names)
  PROVE  Typed(Call) /\ Len(results) + 1 \in 1 .. Len(run.calls) /\ Call.name \in names
<1>1. Len(results) \in Nat /\ Len(run.calls) \in Nat
  BY RunAssumption DEF Progress, IsSequence
<1> QED
  BY <1>1, RunAssumption DEF Progress, Calling, Call

\* A result more makes other results, and leaves those before it.
LEMMA AppendIsNew ==
  ASSUME NEW s, IsSequence(s), NEW v
  PROVE  /\ IsSequence(Append(s, v)) /\ Len(s) \in Nat /\ Len(Append(s, v)) = Len(s) + 1
         /\ Append(s, v) # s
         /\ DOMAIN Append(s, v) = 1 .. Len(s) + 1
         /\ \A i \in 1 .. Len(s) : Append(s, v)[i] = s[i]
         /\ Append(s, v)[Len(s) + 1] = v
<1>1. PICK S : s \in Seq(S)
  BY DEF IsSequence
<1>2. s \in Seq(S \cup {v}) /\ Append(s, v) \in Seq(S \cup {v})
  BY <1>1
<1> QED
  BY <1>2 DEF IsSequence

---------------------------------------------------------------------------
(* The loops.                                                              *)

\* A hit lies at or behind where the search began, and ends in the text.
LEMMA HitsLieBehind ==
  ASSUME NEW text \in String, NEW what \in String, NEW from \in Nat, ~NoHit(text, what, from)
  PROVE  FirstHit(text, what, from) \in Nat /\ from <= FirstHit(text, what, from)
<1>1. Hits(text, what, from) \subseteq Nat /\ Hits(text, what, from) # {}
  BY DEF Hits, NoHit, Size, String
<1>2. FirstHit(text, what, from) \in Hits(text, what, from)
  BY <1>1, MinType DEF FirstHit
<1> QED
  BY <1>1, <1>2 DEF Hits, Size, String

\* What a step may do to the calls: return a value and start afresh, fail the
\* program, or go round the loop of the call under way and further into its text.
Answers == status = "running" /\ Len(results) < Len(run.calls) /\ \E v : Gives(v)
Ends    ==
  /\ status = "running" /\ Len(results) < Len(run.calls)
  /\ status' # status
  /\ UNCHANGED <<run, results, loop>>
Turns   ==
  /\ UNCHANGED <<run, results, status>>
  /\ begin' \in Nat /\ cut' \in Nat
  /\ begin' + cut' > begin + cut

\* Every step does one of these.
LEMMA NextIs ==
  ASSUME Progress, Next
  PROVE  Answers \/ Ends \/ Turns \/ UNCHANGED vars
<1> USE DEF Turn, Returns, Answers, Calling
<1>a. ASSUME NEW how, how # "running", NEW names, Calling(names), Stops(how)
      PROVE  Ends
  BY <1>a DEF Ends, Stops, Calling
<1>f. ASSUME NEW names, Calling(names), Fails
      PROVE  Ends
  BY <1>f, <1>a DEF Fails
<1>1. CASE SplitIntoBytes
  BY <1>1 DEF SplitIntoBytes
<1>2. CASE SplitAtHit \/ ReplaceAtHit
  <2>1. Arg(1) \in String /\ Arg(2) \in String
    BY <1>2, CallTyped DEF SplitAtHit, ReplaceAtHit, Typed, Arg
  <2>2. Size(Arg(2)) \in Nat \ {0}
    BY <1>2, <2>1 DEF SplitAtHit, ReplaceAtHit, Sought, Size, String
  <2> DEFINE hit == FirstHit(Arg(1), Arg(2), begin)
  <2>3. hit \in Nat /\ begin <= hit
    BY <1>2, <2>1, HitsLieBehind DEF Progress, SplitAtHit, ReplaceAtHit
  <2> HIDE DEF hit
  <2>4. begin' = hit + Size(Arg(2)) /\ cut' = cut /\ UNCHANGED <<run, results, status>>
    BY <1>2 DEF SplitAtHit, ReplaceAtHit, hit, After
  <2> QED
    BY <2>2, <2>3, <2>4 DEF Turns, Progress
<1>3. CASE SplitRest
  BY <1>3 DEF SplitRest
<1>4. CASE ReplaceNothing
  BY <1>4 DEF ReplaceNothing
<1>5. CASE ReplaceRest
  BY <1>5 DEF ReplaceRest
<1>6. CASE Join
  <2>1. CASE begin < Len(Arg(1))
    <3>1. begin' = begin + 1 /\ cut' = cut /\ UNCHANGED <<run, results, status>>
      BY <1>6, <2>1 DEF Join
    <3> QED
      BY <3>1 DEF Turns, Progress
  <2>2. CASE ~(begin < Len(Arg(1)))
    BY <1>6, <2>2 DEF Join
  <2> QED
    BY <2>1, <2>2
<1>7. CASE RepeatRefused
  BY <1>7, <1>f DEF RepeatRefused
<1>8. CASE Repeat
  BY <1>8 DEF Repeat, Turns, Progress
<1>9. CASE FindText
  BY <1>9 DEF FindText
<1>10. CASE ChangeCase
  BY <1>10 DEF ChangeCase
<1>11. CASE TrimFront
  BY <1>11 DEF TrimFront, Turns, Progress
<1>12. CASE TrimBehind
  BY <1>12 DEF TrimBehind, Turns, Progress
<1>13. CASE TrimDone
  BY <1>13 DEF TrimDone
<1>14. CASE ParseInt
  BY <1>14, <1>f DEF ParseInt
<1>15. CASE Chr
  BY <1>15, <1>f DEF Chr
<1>16. CASE Ord
  BY <1>16, <1>f DEF Ord
<1>17. CASE RandInt
  BY <1>17, <1>f DEF RandInt
<1>18. CASE RandIntUndefined
  BY <1>18, <1>a DEF RandIntUndefined
<1>19. CASE InputLine \/ InputRest \/ InputNothing
  BY <1>19 DEF InputLine, InputRest, InputNothing
<1>20. CASE Eof
  BY <1>20 DEF Eof
<1>21. CASE Ended
  BY <1>21 DEF Ended
<1> QED
  BY <1>1, <1>2, <1>3, <1>4, <1>5, <1>6, <1>7, <1>8, <1>9, <1>10, <1>11, <1>12, <1>13, <1>14,
     <1>15, <1>16, <1>17, <1>18, <1>19, <1>20, <1>21 DEF Next

\* Where the calls are keeps its types.
LEMMA ProgressStep ==
  ASSUME Progress, [Next]_vars
  PROVE  Progress'
<1>1. CASE Answers
  BY <1>1, AppendIsNew DEF Answers, Gives, Progress
<1>2. CASE Ends
  BY <1>2 DEF Ends, Progress, loop
<1>3. CASE Turns
  BY <1>3 DEF Turns, Progress
<1>4. CASE UNCHANGED vars
  BY <1>4 DEF vars, loop, Progress
<1> QED
  BY <1>1, <1>2, <1>3, <1>4, NextIs

\* Only its own actions run a call.
LEMMA OwnActions ==
  ASSUME Progress, Next
  PROVE  /\ Calling({"repeat"}) => RepeatRefused \/ Repeat
         /\ Calling({"rand_int"}) => RandInt \/ RandIntUndefined
         /\ Calling({"chr"}) => Chr
         /\ Calling({"input"}) => InputLine \/ InputRest \/ InputNothing
         /\ Calling({"eof"}) => Eof
<1>1. ASSUME NEW names, Calling(names) PROVE ~Ended
  BY <1>1, CallTyped DEF Ended, Calling
<1> QED
  BY <1>1 DEF Next, Calling, SplitIntoBytes, SplitAtHit, SplitRest, ReplaceNothing, ReplaceAtHit,
     ReplaceRest, Join, FindText, ChangeCase, TrimFront, TrimBehind, TrimDone, ParseInt, Chr, Ord,
     InputLine, InputRest, InputNothing, Eof, RepeatRefused, Repeat, RandInt, RandIntUndefined

\* No call goes round for ever: a turn of any loop gets on in its text. For every
\* program whose calls the analyzer accepts.
THEOREM TextLoopsAdvance == Spec => LoopsAdvance
<1>1. Init => Progress
  BY DEF Init, Progress, IsSequence
<1>2. Progress /\ [Next]_vars => Progress'
  BY ProgressStep
<1>3. ASSUME Progress, Next
      PROVE  [<<results, status>>' = <<results, status>> => begin' + cut' > begin + cut]_vars
  <2>1. CASE Answers
    BY <1>3, <2>1, AppendIsNew DEF Answers, Gives, Progress
  <2>2. CASE Ends
    BY <2>2 DEF Ends
  <2>3. CASE Turns
    BY <2>3 DEF Turns
  <2> QED
    BY <1>3, <2>1, <2>2, <2>3, NextIs
<1> QED
  BY <1>1, <1>2, <1>3, PTL DEF Spec, LoopsAdvance

---------------------------------------------------------------------------
(* repeat.                                                                 *)

\* Each turn of repeat adds one unit, and only when all of them fit.
LEMMA BuildingStep ==
  ASSUME Progress, Building, [Next]_vars
  PROVE  Building'
<1>1. CASE Answers
  <2>1. begin' = 0 /\ built' = << >>
    BY <1>1 DEF Answers, Gives
  <2>2. ASSUME Calling({"repeat"})'
        PROVE  Size(Arg(1))' \in Nat
    BY <2>2, ProgressStep, CallTyped DEF Size, Typed, Arg, Calling, Call
  <2> QED
    BY <2>1, <2>2 DEF Building, IsSequence
<1>2. CASE Ends
  BY <1>2 DEF Ends, Building, Calling
<1>3. CASE UNCHANGED vars
  BY <1>3 DEF vars, loop, Building, Calling, Arg, Call
<1>4. ASSUME Turns, Next, Calling({"repeat"})', (Size(Arg(1)) * Arg(2) < Words)'
      PROVE  Building'
  <2>1. /\ Calling({"repeat"})
        /\ Arg(1)' = Arg(1) /\ Arg(2)' = Arg(2)
    BY <1>4 DEF Turns, Calling, Call, Arg
  <2>2. Arg(1) \in String /\ Arg(2) \in Int /\ Size(Arg(1)) \in Nat
    BY <2>1, CallTyped, WordsType DEF Typed, Arg, String, Size, IntRange
  <2> DEFINE n == Size(Arg(1))
             c == Arg(2)
  <2>3. n * c < Words /\ n' = n /\ c' = c
    BY <1>4, <2>1 DEF Size
  <2>4. Repeat
    BY <1>4, <2>1, OwnActions DEF RepeatRefused, Fails, Stops, Turns, Calling
  <2>5. begin < c /\ built' = built \o Arg(1) /\ begin' = begin + 1
    BY <1>4, <2>4, AppendIsNew DEF Repeat, Returns, Gives, Turns, Progress
  <2>6. n * c <= RepeatLimit
    <3>1. n * c \in 0 .. Words - 1
      BY <2>2, <2>3, <2>4, WordsType DEF Repeat
    <3>2. RepeatSize(Arg(1), Arg(2)) = n * c
      BY <3>1, WordsType, SmallRemainder DEF RepeatSize
    <3> QED
      BY <2>4, <3>2 DEF Repeat
  <2>7. IsSequence(built) /\ Len(built) = begin * n
    BY <2>1, <2>3 DEF Building
  <2>8. IsSequence(built') /\ Len(built') = begin * n + n
    <3>1. PICK S : built \in Seq(S)
      BY <2>7 DEF IsSequence
    <3>2. built \in Seq(S \cup (0 .. 255)) /\ Arg(1) \in Seq(S \cup (0 .. 255))
      BY <3>1, <2>2 DEF String
    <3>3. /\ built \o Arg(1) \in Seq(S \cup (0 .. 255))
          /\ Len(built \o Arg(1)) = Len(built) + Len(Arg(1))
      BY <3>2
    <3> QED
      BY <3>3, <2>5, <2>7 DEF IsSequence, Size
  <2>9. begin * n + n = (begin + 1) * n
    BY <2>2 DEF Progress
  <2> QED
    BY <2>2, <2>3, <2>5, <2>6, <2>8, <2>9 DEF Building, Progress
<1> QED
  BY <1>1, <1>2, <1>3, <1>4, NextIs DEF Building

\* repeat never holds more than its limit, as long as the size it computes fits a
\* word: for every limit and every width.
THEOREM RepeatBounded == Spec => []RepeatWithinLimit
<1>1. Init => Progress /\ Building
  <2> SUFFICES ASSUME Init PROVE Progress /\ Building
    OBVIOUS
  <2>1. Progress
    BY DEF Init, Progress, IsSequence
  <2>2. ASSUME Calling({"repeat"}) PROVE Size(Arg(1)) \in Nat
    BY <2>1, <2>2, CallTyped DEF Typed, Arg, String, Size
  <2> QED
    BY <2>1, <2>2 DEF Init, Building, IsSequence
<1>2. Progress /\ Building /\ [Next]_vars => Progress' /\ Building'
  BY ProgressStep, BuildingStep
<1>3. ASSUME Progress, Building, Calling({"repeat"}), Size(Arg(1)) * Arg(2) < Words
      PROVE  Size(built) <= RepeatLimit
  <2>1. Arg(2) \in Int /\ Size(Arg(1)) \in Nat
    BY <1>3, CallTyped, WordsType DEF Typed, Arg, String, Size, IntRange
  <2>2. Len(built) = begin * Size(Arg(1)) /\ begin \in Nat
    BY <1>3 DEF Building, Progress
  <2>3. CASE begin = 0
    BY <2>1, <2>2, <2>3, WordsType DEF Size
  <2>4. CASE begin > 0
    <3>1. begin <= Arg(2) /\ Size(Arg(1)) * Arg(2) <= RepeatLimit
      BY <1>3, <2>4 DEF Building
    <3>2. begin * Size(Arg(1)) <= Size(Arg(1)) * Arg(2)
      BY <2>1, <2>2, <3>1
    <3> QED
      BY <2>1, <2>2, <3>1, <3>2, WordsType DEF Size
  <2> QED
    BY <2>2, <2>3, <2>4
<1> QED
  BY <1>1, <1>2, <1>3, PTL DEF Spec, RepeatWithinLimit

---------------------------------------------------------------------------
(* rand_int.                                                               *)

\* low + draw % span, wrapped, is between low and high, also when span wrapped to 0.
LEMMA DrawInRange ==
  ASSUME NEW low \in IntRange, NEW high \in IntRange, low <= high, NEW draw \in 0 .. Words - 1,
         NEW span, span = Span(low, high)
  PROVE  Wrapped(low + (IF span = 0 THEN draw ELSE draw % span)) \in low .. high
<1>1. /\ low \in Int /\ high \in Int /\ IntHalf \in Nat \ {0} /\ Words = 2 * IntHalf
      /\ -IntHalf <= low /\ high <= IntHalf - 1
  BY WordsType DEF IntRange, Words
<1>2. CASE high - low + 1 = Words
  <2>1. low = -IntHalf /\ high = IntHalf - 1 /\ span = 0
    BY <1>1, <1>2, OwnRemainder DEF Span
  <2>2. ((low + draw + IntHalf) % Words) \in 0 .. Words - 1
    BY <1>1, RemainderRange
  <2> QED
    BY <1>1, <2>1, <2>2 DEF Wrapped
<1>3. CASE high - low + 1 # Words
  <2>1. high - low + 1 \in 1 .. Words - 1
    BY <1>1, <1>3
  <2>2. span = high - low + 1
    BY <1>1, <2>1, SmallRemainder DEF Span
  <2> DEFINE d == draw % span
  <2>3. d \in 0 .. span - 1
    BY <1>1, <2>1, <2>2, RemainderRange
  <2> HIDE DEF d
  <2>4. low + d \in low .. high /\ low + d + IntHalf \in 0 .. Words - 1
    BY <1>1, <2>2, <2>3
  <2>5. (low + d + IntHalf) % Words = low + d + IntHalf
    BY <1>1, <2>4, SmallRemainder
  <2> QED
    BY <1>1, <2>1, <2>2, <2>3, <2>4, <2>5 DEF Wrapped, d
<1> QED
  BY <1>2, <1>3

\* A step adds no number outside its bounds.
LEMMA RandomStep ==
  ASSUME Progress, RandomInRange, [Next]_vars
  PROVE  RandomInRange'
<1>1. CASE Answers /\ Next
  <2>1. PICK v : Gives(v)
    BY <1>1 DEF Answers
  <2>2. /\ Len(results) \in Nat /\ DOMAIN results = 1 .. Len(results)
        /\ DOMAIN results' = 1 .. Len(results) + 1 /\ run' = run
        /\ \A i \in 1 .. Len(results) : results'[i] = results[i]
    BY <2>1, AppendIsNew DEF Gives, Progress, IsSequence
  <2>3. ASSUME run.calls[Len(results) + 1].name = "rand_int"
        PROVE  results'[Len(results) + 1]
                 \in run.calls[Len(results) + 1].args[1] .. run.calls[Len(results) + 1].args[2]
    <3>1. Calling({"rand_int"})
      BY <1>1, <2>3 DEF Answers, Calling, Call
    <3>2. Arg(1) \in IntRange /\ Arg(2) \in IntRange
      BY <3>1, CallTyped DEF Typed, Arg, Calling
    <3>3. RandInt
      BY <1>1, <2>1, <3>1, OwnActions, AppendIsNew DEF RandIntUndefined, Stops, Gives, Progress
    <3>4. ~Fails
      BY <2>1, AppendIsNew DEF Fails, Stops, Gives, Progress
    <3>5. PICK draw \in 0 .. Words - 1 :
            LET span == Span(Arg(1), Arg(2))
            IN Returns(Wrapped(Arg(1) + (IF span = 0 THEN draw ELSE draw % span)))
      BY <3>3, <3>4 DEF RandInt
    <3>6. Arg(1) <= Arg(2)
      BY <3>2, <3>3, <3>4, WordsType DEF RandInt, IntRange
    <3> DEFINE span == Span(Arg(1), Arg(2))
               result == Wrapped(Arg(1) + (IF span = 0 THEN draw ELSE draw % span))
    <3>7. result \in Arg(1) .. Arg(2)
      BY <3>2, <3>6, DrawInRange
    <3> HIDE DEF span
    <3>8. Gives(result)
      BY <3>5 DEF Returns, span
    <3> HIDE DEF result
    <3>9. results'[Len(results) + 1] = result
      BY <3>8, AppendIsNew DEF Gives, Progress
    <3> QED
      BY <3>7, <3>9 DEF Arg, Call
  <2> QED
    BY <2>2, <2>3 DEF RandomInRange, Returned
<1>2. CASE Ends \/ Turns \/ UNCHANGED vars
  BY <1>2 DEF Ends, Turns, vars, loop, RandomInRange, Returned
<1> QED
  BY <1>1, <1>2, NextIs

\* Every number that rand_int gives lies between its bounds: for every width of
\* `int`, every pair of bounds and every draw, also where the span wraps to 0.
THEOREM RandIntInRange == Spec => []RandomInRange
<1>1. Init => Progress /\ RandomInRange
  BY DEF Init, Progress, IsSequence, RandomInRange, Returned
<1>2. Progress /\ RandomInRange /\ [Next]_vars => Progress' /\ RandomInRange'
  BY ProgressStep, RandomStep
<1> QED
  BY <1>1, <1>2, PTL DEF Spec
---------------------------------------------------------------------------
(* Code points.                                                            *)

\* What ord makes of the bytes that follow the first.
LEMMA DecodedIs ==
  ASSUME NEW text, NEW n \in 0 .. 3, n = Min({Extra(Head(text)), Size(text) - 1})
  PROVE  /\ n = 0 => Decoded(text) = LeadBits(Head(text))
         /\ n = 1 => Decoded(text) = 64 * LeadBits(Head(text)) + (text[2] % 64)
         /\ n = 2 => Decoded(text) = 64 * (64 * LeadBits(Head(text)) + (text[2] % 64))
                                       + (text[3] % 64)
         /\ n = 3 => Decoded(text) = 64 * (64 * (64 * LeadBits(Head(text)) + (text[2] % 64))
                                             + (text[3] % 64)) + (text[4] % 64)
<1> DEFINE p0 == LeadBits(Head(text))
           p1 == 64 * p0 + (text[2] % 64)
           p2 == 64 * p1 + (text[3] % 64)
           p3 == 64 * p2 + (text[4] % 64)
           Good(f) == f = [i \in 0 .. 3 |-> IF i = 0 THEN LeadBits(Head(text))
                                            ELSE 64 * f[i - 1] + (Byte(text, i) % 64)]
           P == [i \in 0 .. 3 |->
                   IF i = 0 THEN p0 ELSE IF i = 1 THEN p1 ELSE IF i = 2 THEN p2 ELSE p3]
<1>1. Good(P)
  <2>1. ASSUME NEW i \in 0 .. 3
        PROVE  P[i] = IF i = 0 THEN LeadBits(Head(text)) ELSE 64 * P[i - 1] + (Byte(text, i) % 64)
    <3>1. P[0] = p0 /\ P[1] = p1 /\ P[2] = p2 /\ P[3] = p3
      OBVIOUS
    <3>2. Byte(text, 1) = text[2] /\ Byte(text, 2) = text[3] /\ Byte(text, 3) = text[4]
      BY DEF Byte
    <3>3. i = 0 \/ i = 1 \/ i = 2 \/ i = 3
      OBVIOUS
    <3> HIDE DEF P
    <3> QED
      BY <3>1, <3>2, <3>3
  <2> QED
    BY <2>1
<1> DEFINE F == CHOOSE f : Good(f)
<1>2. Good(F)
  BY <1>1, Zenon
<1>3. Decoded(text) = F[n]
  BY Zenon DEF Decoded
<1>4. /\ F[0] = p0 /\ F[1] = 64 * F[0] + (Byte(text, 1) % 64)
      /\ F[2] = 64 * F[1] + (Byte(text, 2) % 64)
      /\ F[3] = 64 * F[2] + (Byte(text, 3) % 64)
  <2> HIDE DEF F
  <2> QED
    BY <1>2
<1> HIDE DEF F
<1> QED
  BY <1>3, <1>4 DEF Byte

LEMMA MinOfOne == ASSUME NEW x \in Int PROVE Min({x, x}) = x
<1>1. \A y \in {x} : x <= y
  OBVIOUS
<1>2. {x, x} = {x}
  OBVIOUS
<1> QED
  BY <1>1, <1>2, Zenon DEF Min

LEMMA MaxCodePointIs == MaxCodePoint \in Nat /\ MaxCodePoint <= 1114111
  BY SMT DEF MaxCodePoint

\* The digits of a code point to the base 64.
LEMMA PointDigits ==
  ASSUME NEW p \in 0 .. MaxCodePoint
  PROVE  /\ p \div 1 = p
         /\ p \div 64 \in Nat /\ p = 64 * (p \div 64) + (p % 64)
         /\ p \div 4096 \in Nat /\ p \div 64 = 64 * (p \div 4096) + ((p \div 64) % 64)
         /\ p \div 262144 \in Nat /\ p \div 4096 = 64 * (p \div 262144) + ((p \div 4096) % 64)
         /\ p % 64 \in 0 .. 63 /\ (p \div 64) % 64 \in 0 .. 63 /\ (p \div 4096) % 64 \in 0 .. 63
         /\ p <= 2047 => p \div 64 <= 31
         /\ p <= 65535 => p \div 4096 <= 15
         /\ p \div 262144 <= 4
<1>1. p \in Nat /\ p <= 1114111
  BY MaxCodePointIs, SMT
<1>2. /\ p \div 1 = p
      /\ p \div 64 \in Nat /\ p = 64 * (p \div 64) + (p % 64) /\ p % 64 \in 0 .. 63
      /\ p <= 2047 => p \div 64 <= 31
  BY <1>1, SMT
<1>3. /\ p \div 4096 \in Nat /\ p \div 64 = 64 * (p \div 4096) + ((p \div 64) % 64)
      /\ (p \div 64) % 64 \in 0 .. 63
      /\ p <= 65535 => p \div 4096 <= 15
  BY <1>1, SMT
<1>4. /\ p \div 262144 \in Nat /\ p \div 4096 = 64 * (p \div 262144) + ((p \div 4096) % 64)
      /\ (p \div 4096) % 64 \in 0 .. 63
      /\ p \div 262144 <= 4
  BY <1>1, SMT
<1> QED
  BY <1>2, <1>3, <1>4, SMT

\* What the first byte says of the others, and carries itself.
LEMMA LeadIs ==
  ASSUME NEW lead \in 0 .. 255
  PROVE  /\ lead <= 127 => Extra(lead) = 0 /\ LeadBits(lead) = lead
         /\ lead \in 192 .. 223 => Extra(lead) = 1 /\ LeadBits(lead) = lead - 192
         /\ lead \in 224 .. 239 => Extra(lead) = 2 /\ LeadBits(lead) = lead - 224
         /\ lead \in 240 .. 247 => Extra(lead) = 3 /\ LeadBits(lead) = lead - 240
<1>1. lead <= 127 => Extra(lead) = 0
  BY SMT DEF Extra
<1>2. lead \in 192 .. 223 => Extra(lead) = 1 /\ lead % 32 = lead - 192
  BY SMT DEF Extra
<1>3. lead \in 224 .. 239 => Extra(lead) = 2 /\ lead % 16 = lead - 224
  BY SMT DEF Extra
<1>4. lead \in 240 .. 247 => Extra(lead) = 3 /\ lead % 8 = lead - 240
  BY SMT DEF Extra
<1> QED
  BY <1>1, <1>2, <1>3, <1>4, SMT DEF LeadBits

\* The bytes that chr gives say how many they are, and ord makes them what they
\* were made of: for every code point.
LEMMA ChrDecodes ==
  ASSUME NEW p \in 0 .. MaxCodePoint, NEW r, r = Encoded(p)
  PROVE  /\ Decoded(r) = p
         /\ Size(r) = Extra(Head(r)) + 1
         /\ \A k \in 2 .. Size(r) : r[k] \in 128 .. 191
<1> DEFINE a == p % 64  b == (p \div 64) % 64  c == (p \div 4096) % 64
<1>1. /\ p \in Nat /\ p \div 1 = p
      /\ p \div 64 \in Nat /\ p = 64 * (p \div 64) + a
      /\ p \div 4096 \in Nat /\ p \div 64 = 64 * (p \div 4096) + b
      /\ p \div 262144 \in Nat /\ p \div 4096 = 64 * (p \div 262144) + c
      /\ a \in 0 .. 63 /\ b \in 0 .. 63 /\ c \in 0 .. 63
      /\ p <= 2047 => p \div 64 <= 31
      /\ p <= 65535 => p \div 4096 <= 15
      /\ p \div 262144 <= 4
  BY PointDigits, SMT
<1>2. /\ Continuation(p, 1) = 128 + a /\ Continuation(p, 64) = 128 + b
      /\ Continuation(p, 4096) = 128 + c
  BY <1>1, SMT DEF Continuation
<1> HIDE DEF a, b, c
<1>3. (128 + a) % 64 = a /\ (128 + b) % 64 = b /\ (128 + c) % 64 = c
  BY <1>1, SMT
<1>4. 0 \in Int /\ 1 \in Int /\ 2 \in Int /\ 3 \in Int
  BY SMT
<1>5. CASE p <= 127
  <2>1. r = <<p>>
    BY <1>5, SMT DEF Encoded
  <2>2. Head(r) = p /\ Size(r) = 1
    BY <2>1, SMT DEF Size
  <2>3. Extra(p) = 0 /\ LeadBits(p) = p
    BY <1>1, <1>5, LeadIs, SMT
  <2>4. 0 = Min({Extra(Head(r)), Size(r) - 1})
    BY <1>4, <2>2, <2>3, MinOfOne, SMT
  <2>5. Decoded(r) = LeadBits(Head(r))
    BY <2>4, DecodedIs, SMT
  <2> QED
    BY <2>2, <2>3, <2>5, SMT
<1>6. CASE p > 127 /\ p <= 2047
  <2> DEFINE l == 192 + (p \div 64)
  <2>1. r = <<l, 128 + a>>
    BY <1>1, <1>2, <1>6, SMT DEF Encoded
  <2>2. Head(r) = l /\ Size(r) = 2 /\ r[2] = 128 + a
    BY <2>1, SMT DEF Size
  <2>3. Extra(l) = 1 /\ LeadBits(l) = p \div 64
    BY <1>1, <1>6, LeadIs, SMT
  <2> HIDE DEF l
  <2>4. 1 = Min({Extra(Head(r)), Size(r) - 1})
    BY <1>4, <2>2, <2>3, MinOfOne, SMT
  <2>5. Decoded(r) = 64 * LeadBits(Head(r)) + (r[2] % 64)
    BY <2>4, DecodedIs, SMT
  <2>6. \A k \in 2 .. 2 : r[k] \in 128 .. 191
    BY <1>1, <2>2, SMT
  <2> QED
    BY <1>1, <1>3, <2>2, <2>3, <2>5, <2>6, SMT
<1>7. CASE p > 2047 /\ p <= 65535
  <2> DEFINE l == 224 + (p \div 4096)
  <2>1. r = <<l, 128 + b, 128 + a>>
    BY <1>1, <1>2, <1>7, SMT DEF Encoded
  <2>2. Head(r) = l /\ Size(r) = 3 /\ r[2] = 128 + b /\ r[3] = 128 + a
    BY <2>1, SMT DEF Size
  <2>3. Extra(l) = 2 /\ LeadBits(l) = p \div 4096
    BY <1>1, <1>7, LeadIs, SMT
  <2> HIDE DEF l
  <2>4. 2 = Min({Extra(Head(r)), Size(r) - 1})
    BY <1>4, <2>2, <2>3, MinOfOne, SMT
  <2>5. Decoded(r) = 64 * (64 * LeadBits(Head(r)) + (r[2] % 64)) + (r[3] % 64)
    BY <2>4, DecodedIs, SMT
  <2>6. \A k \in 2 .. 3 : r[k] \in 128 .. 191
    <3>1. \A k \in 2 .. 3 : k = 2 \/ k = 3
      BY SMT
    <3> QED
      BY <1>1, <2>2, <3>1, SMT
  <2> QED
    BY <1>1, <1>3, <2>2, <2>3, <2>5, <2>6, SMT
<1>8. CASE p > 65535
  <2> DEFINE l == 240 + (p \div 262144)
  <2>1. r = <<l, 128 + c, 128 + b, 128 + a>>
    BY <1>1, <1>2, <1>8, SMT DEF Encoded
  <2>2. Head(r) = l /\ Size(r) = 4 /\ r[2] = 128 + c /\ r[3] = 128 + b /\ r[4] = 128 + a
    BY <2>1, SMT DEF Size
  <2>3. Extra(l) = 3 /\ LeadBits(l) = p \div 262144
    BY <1>1, <1>8, LeadIs, SMT
  <2> HIDE DEF l
  <2>4. 3 = Min({Extra(Head(r)), Size(r) - 1})
    BY <1>4, <2>2, <2>3, MinOfOne, SMT
  <2>5. Decoded(r) = 64 * (64 * (64 * LeadBits(Head(r)) + (r[2] % 64)) + (r[3] % 64)) + (r[4] % 64)
    BY <2>4, DecodedIs, SMT
  <2>6. \A k \in 2 .. 4 : r[k] \in 128 .. 191
    <3>1. \A k \in 2 .. 4 : k = 2 \/ k = 3 \/ k = 4
      BY SMT
    <3> QED
      BY <1>1, <2>2, <3>1, SMT
  <2> QED
    BY <1>1, <1>3, <2>2, <2>3, <2>5, <2>6, SMT
<1> QED
  BY <1>1, <1>5, <1>6, <1>7, <1>8, SMT

\* A step adds no text of a code point that ord does not undo.
LEMMA ChrStep ==
  ASSUME Progress, OrdUndoesChr, [Next]_vars
  PROVE  OrdUndoesChr'
<1>1. CASE Answers /\ Next
  <2>1. PICK v : Gives(v)
    BY <1>1 DEF Answers
  <2>2. /\ Len(results) \in Nat /\ DOMAIN results = 1 .. Len(results)
        /\ DOMAIN results' = 1 .. Len(results) + 1 /\ run' = run
        /\ \A i \in 1 .. Len(results) : results'[i] = results[i]
    BY <2>1, AppendIsNew DEF Gives, Progress, IsSequence
  <2> DEFINE Undone(r, p) == /\ Decoded(r) = p
                             /\ Size(r) = Extra(Head(r)) + 1
                             /\ \A k \in 2 .. Size(r) : r[k] \in 128 .. 191
  <2>3. ASSUME run.calls[Len(results) + 1].name = "chr"
        PROVE  Undone(results'[Len(results) + 1], run.calls[Len(results) + 1].args[1])
    <3> HIDE DEF Undone
    <3>1. Calling({"chr"})
      BY <1>1, <2>3 DEF Answers, Calling, Call
    <3>2. ~Fails
      BY <2>1, AppendIsNew DEF Fails, Stops, Gives, Progress
    <3>3. Arg(1) \in 0 .. MaxCodePoint /\ Gives(Encoded(Arg(1)))
      BY <1>1, <3>1, <3>2, OwnActions DEF Chr, Returns
    <3> DEFINE text == Encoded(Arg(1))
    <3>4. Undone(text, Arg(1))
      BY <3>3, ChrDecodes, Zenon DEF Undone
    <3> HIDE DEF text
    <3>5. results'[Len(results) + 1] = text
      <4>1. Gives(text)
        BY <3>3 DEF text
      <4> QED
        BY <4>1, AppendIsNew DEF Gives, Progress
    <3> QED
      BY <3>4, <3>5 DEF Arg, Call
  <2>4. \A i \in DOMAIN results : Returned(i, "chr") => Undone(results[i], run.calls[i].args[1])
    BY Zenon DEF OrdUndoesChr
  <2>5. ASSUME NEW i \in DOMAIN results', Returned(i, "chr")'
        PROVE  Undone(results'[i], run'.calls[i].args[1])
    <3> HIDE DEF Undone
    <3>1. CASE i \in 1 .. Len(results)
      BY <2>2, <2>4, <2>5, <3>1 DEF Returned
    <3>2. CASE i = Len(results) + 1
      BY <2>2, <2>3, <2>5, <3>2 DEF Returned
    <3> QED
      BY <2>2, <3>1, <3>2
  <2> QED
    BY <2>5, Zenon DEF OrdUndoesChr
<1>2. CASE Ends \/ Turns \/ UNCHANGED vars
  BY <1>2, Zenon DEF Ends, Turns, vars, loop, OrdUndoesChr, Returned
<1> QED
  BY <1>1, <1>2, NextIs

\* ord gives back every code point that chr made a text of, and that text is well
\* formed UTF-8: for all 1114112 of them.
THEOREM OrdInvertsChr == Spec => []OrdUndoesChr
<1>1. Init => Progress /\ OrdUndoesChr
  <2>1. Init => DOMAIN results = {}
    BY DEF Init
  <2> QED
    BY <2>1 DEF Init, Progress, IsSequence, OrdUndoesChr, Returned
<1>2. Progress /\ OrdUndoesChr /\ [Next]_vars => Progress' /\ OrdUndoesChr'
  BY ProgressStep, ChrStep
<1> QED
  BY <1>1, <1>2, PTL DEF Spec

---------------------------------------------------------------------------
(* Lines.                                                                  *)

\* A place where a line begins, or would if there were more text.
Opens(text, at) == at \in 0 .. Size(text) /\ (at = 0 \/ Byte(text, at - 1) = Newline)

LEMMA MinIs ==
  ASSUME NEW S, S \subseteq Nat, NEW x \in S, \A y \in S : x <= y
  PROVE  Min(S) = x
<1>1. Min(S) \in S /\ \A n \in S : Min(S) <= n
  BY MinType, Zenon
<1>2. Min(S) <= x /\ x <= Min(S) /\ x \in Nat /\ Min(S) \in Nat
  BY <1>1
<1> QED
  BY <1>2

LEMMA SingleByte ==
  ASSUME NEW text \in Seq(0 .. 255), NEW m \in 1 .. Len(text)
  PROVE  SubSeq(text, m, m) = <<text[m]>>
<1> DEFINE s == SubSeq(text, m, m)
           t == <<text[m]>>
<1>1. text[m] \in 0 .. 255 /\ m \in Nat /\ Len(text) \in Nat
  <2>1. text[m] \in 0 .. 255 /\ Len(text) \in Nat
    BY ElementOfSeq, LenProperties, Zenon
  <2>2. m \in Nat
    BY <2>1
  <2> QED
    BY <2>1, <2>2
<1>2. s \in Seq(0 .. 255) /\ Len(s) = 1
  <2>1. m \in 1 .. Len(text) + 1 /\ m \in m - 1 .. Len(text) /\ (m - m) + 1 = 1
    BY <1>1
  <2> QED
    BY <1>1, <2>1, SubSeqProperties
<1>3. s[1] = text[m]
  BY <1>1, <1>2
<1>4. t \in Seq(0 .. 255) /\ Len(t) = 1 /\ t[1] = text[m]
  BY <1>1
<1> HIDE DEF s, t
<1>5. \A i \in 1 .. Len(s) : s[i] = t[i]
  BY <1>2, <1>3, <1>4
<1>6. s = t
  BY <1>2, <1>4, <1>5, SeqEqual
<1> QED
  BY <1>6 DEF s, t

\* Where a byte is in a text.
LEMMA ByteHits ==
  ASSUME NEW text \in String, NEW byte
  PROVE  Hits(text, <<byte>>, 0) = { h \in 0 .. Size(text) - 1 : Byte(text, h) = byte }
<1>1. ASSUME NEW h \in 0 .. Size(text)
      PROVE  Occurs(text, <<byte>>, h) <=> h < Size(text) /\ Byte(text, h) = byte
  <2>1. Len(<<byte>>) = 1 /\ text \in Seq(0 .. 255) /\ Len(text) \in Nat /\ h \in 0 .. Len(text)
    BY DEF String, Size
  <2>2. CASE h < Len(text)
    <3>1. SubSeq(text, h + 1, h + 1) = <<text[h + 1]>>
      BY <2>1, <2>2, SingleByte
    <3> QED
      BY <2>1, <2>2, <3>1 DEF Occurs, Substr, Byte, Size
  <2>3. CASE ~(h < Len(text))
    BY <2>1, <2>3 DEF Occurs, Size
  <2> QED
    BY <2>2, <2>3
<1>2. Size(text) \in Nat
  BY DEF String, Size
<1> QED
  BY <1>1, <1>2 DEF Hits

\* A line ends at the first newline that is not before it, or with the text.
LEMMA LineEndIs ==
  ASSUME NEW text \in String, NEW from \in 0 .. Size(text)
  PROVE  /\ LineEnd(text, from) \in from .. Size(text)
         /\ LineEnd(text, from) = Size(text) \/ Byte(text, LineEnd(text, from)) = Newline
         /\ \A at \in from .. Size(text) :
              at < LineEnd(text, from) => Byte(text, at) # Newline
<1> DEFINE S == { at \in from .. Size(text) : at = Size(text) \/ Byte(text, at) = Newline }
<1>1. Size(text) \in Nat /\ from \in Nat
  BY DEF String, Size
<1>2. S \subseteq Nat /\ Size(text) \in S
  BY <1>1
<1>3. Min(S) \in S /\ \A n \in S : Min(S) <= n
  BY <1>2, MinType
<1>4. LineEnd(text, from) = Min(S)
  BY DEF LineEnd
<1>5. ASSUME NEW at \in from .. Size(text), at < Min(S)
      PROVE  Byte(text, at) # Newline
  <2>1. at \in Nat /\ Min(S) \in Nat
    BY <1>1, <1>3
  <2>2. ~(Min(S) <= at)
    BY <1>5, <2>1
  <2>3. at \notin S
    BY <1>3, <2>2, Zenon
  <2> QED
    BY <2>3
<1> QED
  BY <1>3, <1>4, <1>5

\* A text says n times what another one says, each from a place of its own.
SaysWhat(n, u, from, v, at) == \A i \in 1 .. n : u[from + i] = v[at + i]

\* A slice of a text.
IsSlice(s, S, text, from, to) ==
  s \in Seq(S) /\ Len(s) = to - from /\ \A i \in 1 .. to - from : s[i] = text[from + i]

LEMMA SliceIs ==
  ASSUME NEW S, NEW text \in Seq(S), NEW from \in Nat, NEW to \in Nat, from <= to, to <= Len(text)
  PROVE  IsSlice(SubSeq(text, from + 1, to), S, text, from, to)
<1> DEFINE n == Len(text)
<1>1. n \in Nat /\ \A i \in 1 .. n : text[i] \in S
  BY ElementOfSeq, LenProperties, Zenon
<1>2. to <= n
  OBVIOUS
<1> HIDE DEF n
<1>3. PICK m \in Int : m = from + 1
  OBVIOUS
<1>4. /\ to \in Int /\ \A i \in m .. to : i \in 1 .. n
      /\ (IF m <= to THEN to - m + 1 ELSE 0) = to - from
      /\ to - m + 1 = to - from
      /\ \A i \in 1 .. to - from : m + i - 1 = from + i
  BY <1>1, <1>2, <1>3
<1>5. \A i \in m .. to : text[i] \in S
  BY <1>1, <1>4, Zenon
<1>6. SubSeq(text, m, to) \in Seq(S) /\ Len(SubSeq(text, m, to)) = to - from
  BY <1>4, <1>5, SubSeqProperties
<1>7. \A i \in 1 .. to - m + 1 : SubSeq(text, m, to)[i] = text[m + i - 1]
  BY <1>4, <1>5, SubSeqProperties
<1>8. \A i \in 1 .. to - from : SubSeq(text, m, to)[i] = text[from + i]
  BY <1>4, <1>7, Zenon
<1> QED
  BY <1>3, <1>6, <1>8, Zenon DEF IsSlice

\* Two slices that say the same.
LEMMA SlicesEqual ==
  ASSUME NEW S, NEW u \in Seq(S), NEW v \in Seq(S),
         NEW a \in Nat, NEW b \in Nat, a <= b, b <= Len(u),
         NEW c \in Nat, NEW d \in Nat, c <= d, d <= Len(v),
         b - a = d - c, SaysWhat(b - a, u, a, v, c)
  PROVE  SubSeq(u, a + 1, b) = SubSeq(v, c + 1, d)
<1> DEFINE s == SubSeq(u, a + 1, b)  t == SubSeq(v, c + 1, d)
<1>1. IsSlice(s, S, u, a, b) /\ IsSlice(t, S, v, c, d)
  BY SliceIs
<1> HIDE DEF s, t
<1>2. s \in Seq(S) /\ t \in Seq(S) /\ Len(s) = Len(t) /\ \A i \in 1 .. Len(s) : s[i] = t[i]
  BY <1>1, Zenon DEF IsSlice, SaysWhat
<1>3. s = t
  BY <1>2, SeqEqual, Zenon
<1> QED
  BY <1>3, Zenon DEF s, t

\* What is left of a text from a place on.
LEMMA RestIs ==
  ASSUME NEW S, NEW text \in Seq(S), NEW at \in 0 .. Size(text),
         NEW u, u = Substr(text, at, Size(text))
  PROVE  /\ u \in Seq(S) /\ Size(u) = Size(text) - at
         /\ \A h \in 0 .. Size(u) - 1 : Byte(u, h) = Byte(text, at + h)
         /\ \A h \in 0 .. Size(u) : Substr(u, 0, h) = Substr(text, at, at + h)
         /\ \A h \in 0 .. Size(u) : Substr(u, h, Size(u)) = Substr(text, at + h, Size(text))
         /\ u = << >> <=> at = Size(text)
<1> DEFINE n == Len(text)
<1>1. text \in Seq(S) /\ n \in Nat /\ at \in Nat /\ at <= n /\ n - at \in Nat /\ 0 \in Nat
  BY DEF Size
<1>2. u = SubSeq(text, at + 1, n) /\ n <= n
  BY <1>1 DEF Substr, Size
<1>4. u \in Seq(S) /\ Len(u) = n - at /\ \A i \in 1 .. n - at : u[i] = text[at + i]
  BY <1>1, <1>2, SliceIs DEF IsSlice
<1> HIDE DEF n
<1>5. ASSUME NEW h \in 0 .. n - at
      PROVE  SubSeq(u, 0 + 1, h) = SubSeq(text, at + 1, at + h)
  <2>1. /\ h \in Nat /\ 0 <= h /\ h <= Len(u)
        /\ at + h \in Nat /\ at <= at + h /\ at + h <= Len(text)
        /\ h - 0 = (at + h) - at
    BY <1>1, <1>4 DEF n
  <2>2. SaysWhat(h - 0, u, 0, text, at)
    BY <1>1, <1>4, <2>1 DEF SaysWhat
  <2> QED
    BY <1>1, <1>4, <2>1, <2>2, SlicesEqual
<1>6. ASSUME NEW h \in 0 .. n - at
      PROVE  SubSeq(u, h + 1, n - at) = SubSeq(text, (at + h) + 1, n)
  <2>1. PICK m \in Nat : m = n - at
    BY <1>1
  <2>2. /\ h \in Nat /\ h <= m /\ m <= Len(u)
        /\ at + h \in Nat /\ at + h <= n /\ n <= Len(text)
        /\ m - h = n - (at + h)
    BY <1>1, <1>4, <2>1 DEF n
  <2>3. SaysWhat(m - h, u, h, text, at + h)
    <3>1. \A i \in 1 .. m - h : h + i \in 1 .. n - at /\ at + (h + i) = (at + h) + i
      BY <1>1, <2>1, <2>2
    <3> QED
      BY <1>4, <3>1 DEF SaysWhat
  <2>4. SubSeq(u, h + 1, m) = SubSeq(text, (at + h) + 1, n)
    BY <1>1, <1>4, <2>2, <2>3, SlicesEqual
  <2> QED
    BY <2>1, <2>4, Zenon
<1>7. Size(text) = n /\ Size(u) = n - at
  BY <1>4 DEF Size, n
<1>8. ASSUME NEW h \in 0 .. (n - at) - 1
      PROVE  Byte(u, h) = Byte(text, at + h)
  BY <1>1, <1>4 DEF Byte
<1>9. u = << >> <=> at = n
  <2>1. Len(u) = 0 <=> at = n
    BY <1>1, <1>4
  <2> QED
    BY <1>4, <2>1, EmptySeq
<1>10. /\ \A h \in 0 .. n - at : Substr(u, 0, h) = Substr(text, at, at + h)
       /\ \A h \in 0 .. n - at : Substr(u, h, n - at) = Substr(text, at + h, n)
  BY <1>5, <1>6, Zenon DEF Substr
<1> QED
  BY <1>4, <1>7, <1>8, <1>9, <1>10

\* How many of the calls are of input.
LEMMA AskedNext ==
  ASSUME NEW i \in Nat
  PROVE  /\ Asked(0) = 0 /\ Asked(i) \in Nat
         /\ Asked(i + 1) = IF run.calls[i + 1].name = "input" THEN Asked(i) + 1 ELSE Asked(i)
<1> DEFINE A(n) == { k \in 1 .. n : run.calls[k].name = "input" }
<1>1. /\ 1 .. 0 = {} /\ 1 \in Int /\ i \in Int /\ i + 1 \notin 1 .. i
      /\ \A k \in 1 .. i + 1 : k \in 1 .. i \/ k = i + 1
      /\ i + 1 \in 1 .. i + 1 /\ \A k \in 1 .. i : k \in 1 .. i + 1
  OBVIOUS
<1>2. A(0) = {}
  BY <1>1
<1>3. IsFiniteSet(1 .. i)
  BY <1>1, FS_Interval, Zenon
<1>4. A(i) \in SUBSET (1 .. i)
  OBVIOUS
<1>5. IsFiniteSet(A(i)) /\ Cardinality(A(i)) \in Nat
  BY <1>3, <1>4, FS_Subset, FS_CardinalityType, Zenon
<1>6. i + 1 \notin A(i)
  BY <1>1, Zenon
<1>7. A(i + 1) = IF run.calls[i + 1].name = "input" THEN A(i) \cup {i + 1} ELSE A(i)
  BY <1>1, Zenon
<1> HIDE DEF A
<1>8. Cardinality(A(i) \cup {i + 1}) = Cardinality(A(i)) + 1
  BY <1>5, <1>6, FS_AddElement, Zenon
<1>9. Cardinality(A(0)) = 0
  BY <1>2, FS_EmptySet, Zenon
<1>10. /\ Asked(0) = Cardinality(A(0)) /\ Asked(i) = Cardinality(A(i))
       /\ Asked(i + 1) = Cardinality(A(i + 1))
  BY Zenon DEF Asked, A
<1> QED
  BY <1>5, <1>7, <1>8, <1>9, <1>10

\* The lines of the input are finitely many, also those before a place.
LEMMA BeginsType ==
  ASSUME run.stdin \in String
  PROVE  /\ Size(run.stdin) \in Nat
         /\ LineBegins(run.stdin) \subseteq 0 .. Size(run.stdin) - 1
         /\ IsFiniteSet(LineBegins(run.stdin)) /\ Cardinality(LineBegins(run.stdin)) \in Nat
         /\ \A at : /\ IsFiniteSet(BeginsBefore(at)) /\ Cardinality(BeginsBefore(at)) \in Nat
                    /\ BeginsBefore(at) \subseteq LineBegins(run.stdin)
<1>1. Size(run.stdin) \in Nat
  BY DEF String, Size
<1>2. LineBegins(run.stdin) \in SUBSET (0 .. Size(run.stdin) - 1)
  BY DEF LineBegins
<1>3. 0 \in Int /\ Size(run.stdin) - 1 \in Int
  BY <1>1
<1>4. IsFiniteSet(LineBegins(run.stdin)) /\ Cardinality(LineBegins(run.stdin)) \in Nat
  BY <1>2, <1>3, FS_Interval, FS_Subset, FS_CardinalityType, Zenon
<1>5. ASSUME NEW at
      PROVE  /\ IsFiniteSet(BeginsBefore(at)) /\ Cardinality(BeginsBefore(at)) \in Nat
             /\ BeginsBefore(at) \subseteq LineBegins(run.stdin)
  <2>1. BeginsBefore(at) \in SUBSET LineBegins(run.stdin)
    BY Zenon DEF BeginsBefore
  <2> QED
    BY <1>4, <2>1, FS_Subset, FS_CardinalityType, Zenon
<1> QED
  BY <1>1, <1>2, <1>4, <1>5, Zenon

\* Behind the last line there is none.
LEMMA PastLines ==
  ASSUME run.stdin \in String, NEW n \in Nat, n >= Cardinality(LineBegins(run.stdin))
  PROVE  Lines(n) = {}
<1> SUFFICES ASSUME NEW b \in LineBegins(run.stdin), Cardinality(BeginsBefore(b)) = n
             PROVE  FALSE
  BY Zenon DEF Lines
<1>1. /\ IsFiniteSet(LineBegins(run.stdin)) /\ Cardinality(LineBegins(run.stdin)) \in Nat
      /\ BeginsBefore(b) \in SUBSET LineBegins(run.stdin)
  BY BeginsType, Zenon
<1>2. b \in Nat
  BY BeginsType
<1>3. b \notin BeginsBefore(b)
  BY <1>2 DEF BeginsBefore
<1>4. Cardinality(BeginsBefore(b)) <= Cardinality(LineBegins(run.stdin))
  BY <1>1, FS_Subset, Zenon
<1>5. Cardinality(BeginsBefore(b)) = Cardinality(LineBegins(run.stdin))
  BY <1>1, <1>4
<1>6. BeginsBefore(b) = LineBegins(run.stdin)
  BY <1>1, <1>5, FS_Subset, Zenon
<1> QED
  BY <1>3, <1>6, Zenon

\* One more line begins before the end of a line than before its begin.
LEMMA NextLine ==
  ASSUME run.stdin \in String, NEW at, Opens(run.stdin, at), at < Size(run.stdin),
         NEW end, end = LineEnd(run.stdin, at)
  PROVE  /\ at \in LineBegins(run.stdin)
         /\ Cardinality(BeginsBefore(end + 1)) = Cardinality(BeginsBefore(at)) + 1
<1>1. /\ Size(run.stdin) \in Nat /\ at \in Nat /\ at \in 0 .. Size(run.stdin)
      /\ at \in 0 .. Size(run.stdin) - 1
  BY BeginsType DEF Opens
<1>2. at \in LineBegins(run.stdin)
  BY <1>1, Zenon DEF Opens, LineBegins
<1>3. /\ end \in at .. Size(run.stdin)
      /\ \A x \in at .. Size(run.stdin) : x < end => Byte(run.stdin, x) # Newline
  BY <1>1, LineEndIs, Zenon
<1>4. ASSUME NEW c \in LineBegins(run.stdin)
      PROVE  c < end + 1 <=> c < at \/ c = at
  <2>1. /\ c \in 0 .. Size(run.stdin) - 1
        /\ c = 0 \/ Byte(run.stdin, c - 1) = Newline
    BY <1>4 DEF LineBegins
  <2>2. c < end + 1 /\ at < c => c - 1 \in at .. Size(run.stdin) /\ c - 1 < end /\ c # 0
    BY <1>1, <1>3, <2>1
  <2>3. ~(c < end + 1 /\ at < c)
    BY <1>3, <2>1, <2>2, Zenon
  <2> QED
    BY <1>1, <1>3, <2>1, <2>3
<1>5. BeginsBefore(end + 1) = BeginsBefore(at) \cup {at}
  BY <1>2, <1>4, Zenon DEF BeginsBefore
<1>6. at \notin BeginsBefore(at)
  BY <1>1 DEF BeginsBefore
<1> QED
  BY <1>2, <1>5, <1>6, BeginsType, FS_AddElement, Zenon

\* All lines begin before the end of the input.
LEMMA AllBegun ==
  ASSUME run.stdin \in String, NEW at \in Nat, at >= Size(run.stdin)
  PROVE  BeginsBefore(at) = LineBegins(run.stdin)
<1>1. \A c \in LineBegins(run.stdin) : c < at
  BY BeginsType
<1> QED
  BY <1>1, Zenon DEF BeginsBefore

\* n calls have read the lines that begin before at, and u is left; g says that the
\* stream is good.
ReadTo(at, n, u, g) ==
  /\ at \in 0 .. Size(run.stdin)
  /\ u = Substr(run.stdin, at, Size(run.stdin))
  /\ g  => Opens(run.stdin, at) /\ Asked(n) = Cardinality(BeginsBefore(at))
  /\ ~g => at = Size(run.stdin) /\ Asked(n) >= Cardinality(LineBegins(run.stdin))

Reading == good \in BOOLEAN /\ \E at : ReadTo(at, Len(results), unread, good)

\* What input and eof owe the program for the i-th call.
Line(value, n) ==
  IF Lines(n) = {} THEN value = << >> ELSE \E b \in Lines(n) : value = LineFrom(run.stdin, b)
AllRead(i) == Asked(i) >= Cardinality(LineBegins(run.stdin))

\* Where a line begins that is still unread, the first call of input finds its end.
LEMMA InputFinds ==
  ASSUME run.stdin \in String, NEW at, Opens(run.stdin, at),
         unread = Substr(run.stdin, at, Size(run.stdin)), ~NoHit(unread, <<Newline>>, 0),
         NEW hit, hit = FirstHit(unread, <<Newline>>, 0)
  PROVE  /\ at < Size(run.stdin) /\ hit \in Nat /\ at + hit < Size(run.stdin)
         /\ LineEnd(run.stdin, at) = at + hit
         /\ Opens(run.stdin, (at + hit) + 1)
         /\ Substr(unread, 0, hit) = Substr(run.stdin, at, at + hit)
         /\ Substr(unread, hit + 1, Size(unread))
              = Substr(run.stdin, (at + hit) + 1, Size(run.stdin))
<1> DEFINE N == Size(run.stdin)
<1>1. N \in Nat /\ at \in 0 .. N /\ at \in Nat
  BY BeginsType DEF Opens
<1>2. /\ unread \in String /\ Size(unread) = N - at
      /\ \A h \in 0 .. Size(unread) - 1 : Byte(unread, h) = Byte(run.stdin, at + h)
      /\ \A h \in 0 .. Size(unread) : Substr(unread, 0, h) = Substr(run.stdin, at, at + h)
      /\ \A h \in 0 .. Size(unread) : Substr(unread, h, Size(unread)) = Substr(run.stdin, at + h, N)
  BY <1>1, RestIs DEF String, Size
<1> HIDE DEF N
<1> DEFINE H == { h \in 0 .. Size(unread) - 1 : Byte(unread, h) = Newline }
<1>3. H = Hits(unread, <<Newline>>, 0) /\ H # {}
  BY <1>2, ByteHits, Zenon DEF NoHit
<1>4. H \subseteq Nat
  BY <1>1, <1>2
<1>5. hit \in H /\ \A h \in H : hit <= h
  BY <1>3, <1>4, MinType, Zenon DEF FirstHit
<1> HIDE DEF H
<1>6. /\ hit \in 0 .. Size(unread) - 1 /\ Byte(unread, hit) = Newline
      /\ \A h \in 0 .. Size(unread) - 1 : Byte(unread, h) = Newline => hit <= h
  BY <1>5, Zenon DEF H
<1>7. /\ hit \in Nat /\ at + hit < N /\ at < N
      /\ hit \in 0 .. Size(unread) /\ hit + 1 \in 0 .. Size(unread)
      /\ at + (hit + 1) = (at + hit) + 1 /\ at + hit \in at .. N
      /\ (at + hit) + 1 \in 0 .. N /\ ((at + hit) + 1) - 1 = at + hit
  BY <1>1, <1>2, <1>6
<1>8. Byte(run.stdin, at + hit) = Newline
  BY <1>2, <1>6, Zenon
<1>9. LineEnd(run.stdin, at) = at + hit
  <2> DEFINE S == { x \in at .. N : x = N \/ Byte(run.stdin, x) = Newline }
  <2>1. S \subseteq Nat /\ at + hit \in S
    BY <1>1, <1>7, <1>8
  <2>2. ASSUME NEW x \in S
        PROVE  at + hit <= x
    <3>1. CASE x = N
      BY <1>1, <1>7, <3>1
    <3>2. CASE x # N
      <4>1. x \in at .. N /\ Byte(run.stdin, x) = Newline
        BY <3>2
      <4>2. x - at \in 0 .. Size(unread) - 1 /\ at + (x - at) = x
        BY <1>1, <1>2, <3>2, <4>1
      <4>3. Byte(unread, x - at) = Newline
        BY <1>2, <4>1, <4>2, Zenon
      <4>4. hit <= x - at
        BY <1>6, <4>2, <4>3, Zenon
      <4> QED
        BY <1>1, <1>7, <4>1, <4>4
    <3> QED
      BY <3>1, <3>2
  <2>3. Min(S) = at + hit
    BY <2>1, <2>2, MinIs, Zenon
  <2> QED
    BY <2>3, Zenon DEF LineEnd, N
<1>10. Opens(run.stdin, (at + hit) + 1)
  BY <1>7, <1>8, Zenon DEF Opens, N
<1>11. /\ Substr(unread, 0, hit) = Substr(run.stdin, at, at + hit)
       /\ Substr(unread, hit + 1, Size(unread)) = Substr(run.stdin, (at + hit) + 1, N)
  BY <1>2, <1>7, Zenon
<1> QED
  BY <1>7, <1>9, <1>10, <1>11 DEF N

\* Where it finds none, the line goes on to the end of the input.
LEMMA InputFindsNone ==
  ASSUME run.stdin \in String, NEW at \in 0 .. Size(run.stdin),
         unread = Substr(run.stdin, at, Size(run.stdin)), NoHit(unread, <<Newline>>, 0)
  PROVE  LineEnd(run.stdin, at) = Size(run.stdin)
<1> DEFINE N == Size(run.stdin)
           end == LineEnd(run.stdin, at)
<1>1. N \in Nat /\ at \in 0 .. N /\ at \in Nat
  BY BeginsType
<1>2. /\ unread \in String /\ Size(unread) = N - at
      /\ \A h \in 0 .. Size(unread) - 1 : Byte(unread, h) = Byte(run.stdin, at + h)
  BY <1>1, RestIs DEF String, Size
<1>3. end \in at .. N /\ (end = N \/ Byte(run.stdin, end) = Newline)
  BY <1>1, LineEndIs, Zenon
<1> HIDE DEF N, end
<1>4. ASSUME end # N PROVE FALSE
  <2>1. end - at \in 0 .. Size(unread) - 1 /\ at + (end - at) = end
    BY <1>1, <1>2, <1>3, <1>4
  <2>2. Byte(unread, end - at) = Newline
    BY <1>2, <1>3, <1>4, <2>1, Zenon
  <2>3. Hits(unread, <<Newline>>, 0) # {}
    BY <1>2, <2>1, <2>2, ByteHits, Zenon
  <2> QED
    BY <2>3, Zenon DEF NoHit
<1> QED
  BY <1>4, Zenon DEF N, end

\* input reads the line with as many before it as were asked for.
LEMMA InputReads ==
  ASSUME Progress, Reading, Next, Calling({"input"})
  PROVE  /\ \E v : Gives(v) /\ Line(v, Asked(Len(results) + 1) - 1)
         /\ good' \in BOOLEAN /\ \E at : ReadTo(at, Len(results) + 1, unread', good')
<1> DEFINE N == Size(run.stdin)
           k == Len(results)
<1>1. PICK at : ReadTo(at, k, unread, good)
  BY DEF Reading
<1>2. /\ run.stdin \in String /\ k \in Nat /\ N \in Nat
      /\ run.calls[k + 1].name = "input" /\ good \in BOOLEAN
  BY BeginsType, RunAssumption DEF Progress, IsSequence, Calling, Call, Reading
<1>3. Asked(k) \in Nat /\ Asked(k + 1) = Asked(k) + 1 /\ Asked(k + 1) - 1 = Asked(k)
  <2>1. Asked(k) \in Nat /\ Asked(k + 1) = Asked(k) + 1
    BY <1>2, AskedNext
  <2> QED
    BY <2>1
<1>4. /\ at \in 0 .. N /\ unread = Substr(run.stdin, at, N) /\ at \in Nat
      /\ good => Opens(run.stdin, at) /\ Asked(k) = Cardinality(BeginsBefore(at))
      /\ ~good => at = N /\ Asked(k) >= Cardinality(LineBegins(run.stdin))
  BY <1>1, <1>2 DEF ReadTo
<1>5. InputLine \/ InputRest \/ InputNothing
  BY OwnActions
<1>6. Cardinality(LineBegins(run.stdin)) \in Nat
  BY <1>2, BeginsType, Zenon
<1> HIDE DEF N, k
<1>7. CASE InputLine
  <2> DEFINE hit == FirstHit(unread, <<Newline>>, 0)
  <2>1. /\ good /\ ~NoHit(unread, <<Newline>>, 0) /\ good' = good
        /\ Gives(WithoutReturn(Substr(unread, 0, hit)))
        /\ unread' = Substr(unread, hit + 1, Size(unread))
    BY <1>7 DEF InputLine
  <2>2. /\ at < N /\ hit \in Nat /\ at + hit < N
        /\ LineEnd(run.stdin, at) = at + hit
        /\ Opens(run.stdin, (at + hit) + 1)
        /\ Substr(unread, 0, hit) = Substr(run.stdin, at, at + hit)
        /\ Substr(unread, hit + 1, Size(unread)) = Substr(run.stdin, (at + hit) + 1, N)
    BY <1>2, <1>4, <2>1, InputFinds DEF N
  <2> HIDE DEF hit
  <2>3. /\ at \in LineBegins(run.stdin)
        /\ Cardinality(BeginsBefore((at + hit) + 1)) = Cardinality(BeginsBefore(at)) + 1
    BY <1>2, <1>4, <2>1, <2>2, NextLine, Zenon DEF N
  <2>4. at \in Lines(Asked(k + 1) - 1)
    BY <1>3, <1>4, <2>1, <2>3, Zenon DEF Lines
  <2>5. Line(WithoutReturn(Substr(unread, 0, hit)), Asked(k + 1) - 1)
    BY <2>2, <2>4, Zenon DEF Line, LineFrom
  <2>6. ReadTo((at + hit) + 1, k + 1, unread', good')
    <3>1. (at + hit) + 1 \in 0 .. N
      BY <1>2, <1>4, <2>2
    <3>2. Asked(k + 1) = Cardinality(BeginsBefore((at + hit) + 1))
      BY <1>3, <1>4, <2>1, <2>3, Zenon
    <3> QED
      BY <2>1, <2>2, <3>1, <3>2, Zenon DEF ReadTo, N
  <2> QED
    BY <1>2, <2>1, <2>5, <2>6, Zenon DEF k
<1>8. CASE InputRest
  <2>1. /\ good /\ NoHit(unread, <<Newline>>, 0) /\ good' = FALSE
        /\ Gives(WithoutReturn(unread)) /\ unread' = << >>
    BY <1>8 DEF InputRest
  <2>2. LineEnd(run.stdin, at) = N
    BY <1>2, <1>4, <2>1, InputFindsNone, Zenon DEF N
  <2>3. Substr(run.stdin, N, N) = << >>
    BY <1>2, SubSeqEmpty DEF Substr
  <2>4. /\ Line(WithoutReturn(unread), Asked(k + 1) - 1)
        /\ Asked(k + 1) >= Cardinality(LineBegins(run.stdin))
    <3>1. CASE at = N
      <4>1. Asked(k) = Cardinality(LineBegins(run.stdin))
        <5>1. at >= N
          BY <1>2, <3>1
        <5> QED
          BY <1>2, <1>4, <2>1, <5>1, AllBegun, Zenon DEF N
      <4>2. /\ Asked(k) >= Cardinality(LineBegins(run.stdin))
            /\ Asked(k + 1) >= Cardinality(LineBegins(run.stdin))
        BY <1>3, <1>6, <4>1
      <4>3. Lines(Asked(k)) = {}
        BY <1>2, <1>3, <4>2, PastLines, Zenon
      <4>4. unread = << >>
        BY <1>4, <2>3, <3>1, Zenon
      <4>5. WithoutReturn(unread) = << >>
        BY <4>4 DEF WithoutReturn
      <4> QED
        BY <1>3, <4>2, <4>3, <4>5, Zenon DEF Line
    <3>2. CASE at # N
      <4>1. at < N /\ N + 1 \in Nat /\ N + 1 >= N
        BY <1>2, <1>4, <3>2
      <4>2. /\ at \in LineBegins(run.stdin)
            /\ Cardinality(BeginsBefore(N + 1)) = Cardinality(BeginsBefore(at)) + 1
        BY <1>2, <1>4, <2>1, <2>2, <4>1, NextLine, Zenon DEF N
      <4>3. BeginsBefore(N + 1) = LineBegins(run.stdin)
        BY <1>2, <4>1, AllBegun, Zenon DEF N
      <4>4. Asked(k + 1) = Cardinality(LineBegins(run.stdin))
        BY <1>3, <1>4, <2>1, <4>2, <4>3, Zenon
      <4>5. at \in Lines(Asked(k + 1) - 1)
        BY <1>3, <1>4, <2>1, <4>2, Zenon DEF Lines
      <4>6. Line(WithoutReturn(unread), Asked(k + 1) - 1)
        BY <1>4, <2>2, <4>5, Zenon DEF Line, LineFrom
      <4> QED
        BY <1>6, <4>4, <4>6
    <3> QED
      BY <3>1, <3>2
  <2>5. ReadTo(N, k + 1, unread', good')
    <3>1. N \in 0 .. N
      BY <1>2
    <3> QED
      BY <2>1, <2>3, <2>4, <3>1, Zenon DEF ReadTo, N
  <2> QED
    BY <2>1, <2>4, <2>5, Zenon DEF k
<1>9. CASE InputNothing
  <2>1. ~good /\ good' = good /\ unread' = unread /\ Gives(<< >>)
    BY <1>9 DEF InputNothing, Returns, stream
  <2>2. Lines(Asked(k)) = {}
    BY <1>2, <1>3, <1>4, <2>1, PastLines, Zenon
  <2>3. Line(<< >>, Asked(k + 1) - 1)
    BY <1>3, <2>2, Zenon DEF Line
  <2>4. Asked(k + 1) >= Cardinality(LineBegins(run.stdin))
    BY <1>3, <1>4, <1>6, <2>1
  <2>5. ReadTo(at, k + 1, unread', good')
    BY <1>4, <2>1, <2>4, Zenon DEF ReadTo, N
  <2> QED
    BY <1>2, <2>1, <2>3, <2>5, Zenon DEF k
<1> QED
  BY <1>5, <1>7, <1>8, <1>9

\* eof tells whether all lines have been asked for.
LEMMA EofTells ==
  ASSUME Progress, Reading, Next, Calling({"eof"})
  PROVE  /\ \E v : Gives(v) /\ v = AllRead(Len(results) + 1)
         /\ good' \in BOOLEAN /\ \E at : ReadTo(at, Len(results) + 1, unread', good')
<1> DEFINE N == Size(run.stdin)
           k == Len(results)
           all == Cardinality(LineBegins(run.stdin))
<1>1. PICK at : ReadTo(at, k, unread, good)
  BY DEF Reading
<1>2. /\ run.stdin \in String /\ k \in Nat /\ N \in Nat
      /\ run.calls[k + 1].name = "eof" /\ good \in BOOLEAN
  BY BeginsType, RunAssumption DEF Progress, IsSequence, Calling, Call, Reading
<1>3. Asked(k) \in Nat /\ Asked(k + 1) = Asked(k)
  BY <1>2, AskedNext
<1>4. /\ at \in 0 .. N /\ unread = Substr(run.stdin, at, N) /\ at \in Nat
      /\ good => Opens(run.stdin, at) /\ Asked(k) = Cardinality(BeginsBefore(at))
      /\ ~good => at = N /\ Asked(k) >= all
  BY <1>1, <1>2 DEF ReadTo
<1>5. Gives(EofAnswer) /\ good' = (~EofAnswer) /\ unread' = unread
  BY OwnActions DEF Eof
<1>6. all \in Nat
  BY <1>2, BeginsType, Zenon
<1>7. unread = << >> <=> at = N
  BY <1>2, <1>4, RestIs DEF String, Size
<1> HIDE DEF N, k, all
<1>8. EofAnswer \in BOOLEAN /\ (EofAnswer <=> ~good \/ at = N)
  BY <1>2, <1>7, Zenon DEF EofAnswer
<1>9. CASE EofAnswer
  <2>1. at = N
    BY <1>4, <1>8, <1>9, Zenon
  <2>2. Asked(k + 1) >= all
    <3>1. CASE good
      <4>1. at >= N
        BY <1>2, <2>1
      <4>2. Asked(k) = all
        BY <1>2, <1>4, <3>1, <4>1, AllBegun, Zenon DEF N, all
      <4> QED
        BY <1>3, <1>6, <4>2
    <3>2. CASE ~good
      BY <1>3, <1>4, <3>2
    <3> QED
      BY <1>2, <3>1, <3>2, Zenon
  <2>3. EofAnswer = TRUE /\ AllRead(k + 1) = TRUE
    BY <1>8, <1>9, <2>2, Zenon DEF AllRead, all
  <2>4. ReadTo(at, k + 1, unread', good')
    BY <1>4, <1>5, <1>9, <2>1, <2>2, Zenon DEF ReadTo, N, all
  <2> QED
    BY <1>5, <1>9, <2>3, <2>4, Zenon DEF k
<1>10. CASE ~EofAnswer
  <2>1. good /\ at # N
    BY <1>2, <1>8, <1>10, Zenon
  <2>2. at < N
    BY <1>2, <1>4, <2>1
  <2>3. at \in LineBegins(run.stdin) /\ at \notin BeginsBefore(at)
    <3>1. at \in LineBegins(run.stdin)
      BY <1>2, <1>4, <2>1, <2>2, NextLine, Zenon DEF N
    <3>2. ~(at < at)
      BY <1>4
    <3> QED
      BY <3>1, <3>2, Zenon DEF BeginsBefore
  <2>4. Cardinality(BeginsBefore(at)) < all
    <3>1. /\ IsFiniteSet(LineBegins(run.stdin)) /\ BeginsBefore(at) \in SUBSET LineBegins(run.stdin)
          /\ Cardinality(BeginsBefore(at)) \in Nat
      BY <1>2, BeginsType, Zenon
    <3>2. Cardinality(BeginsBefore(at)) <= all
      BY <3>1, FS_Subset, Zenon DEF all
    <3>3. Cardinality(BeginsBefore(at)) # all
      BY <2>3, <3>1, FS_Subset, Zenon DEF all
    <3> QED
      BY <1>6, <3>1, <3>2, <3>3
  <2>5. ~(Asked(k + 1) >= all)
    BY <1>3, <1>4, <1>6, <2>1, <2>4
  <2>6. EofAnswer = FALSE /\ AllRead(k + 1) = FALSE
    <3>1. EofAnswer = FALSE
      BY <1>8, <1>10, Zenon
    <3>2. Asked(k + 1) \in Nat
      BY <1>3
    <3>3. AllRead(k + 1) = FALSE
      BY <1>6, <2>5, <3>2 DEF AllRead, all
    <3> QED
      BY <3>1, <3>3
  <2>7. ReadTo(at, k + 1, unread', good')
    BY <1>3, <1>4, <1>5, <1>10, <2>1, Zenon DEF ReadTo, N
  <2> QED
    BY <1>5, <1>10, <2>6, <2>7, Zenon DEF k
<1> QED
  BY <1>9, <1>10

\* Every other call leaves the stream alone.
LEMMA OthersReadNothing ==
  ASSUME Progress, Next, ~Calling({"input"}), ~Calling({"eof"})
  PROVE  UNCHANGED stream
  BY DEF Next, Turn, Returns, Fails, Stops, stream, vars, Ended, SplitIntoBytes, SplitAtHit,
     SplitRest, ReplaceNothing, ReplaceAtHit, ReplaceRest, Join, RepeatRefused, Repeat, FindText,
     ChangeCase, TrimFront, TrimBehind, TrimDone, ParseInt, Chr, Ord, RandInt, RandIntUndefined,
     InputLine, InputRest, InputNothing, Eof

\* A step that answers no call, or another one, reads nothing.
LEMMA AskedStays ==
  ASSUME Progress, Reading, run' = run, UNCHANGED stream,
         \/ Len(results') = Len(results)
         \/ /\ Len(results') = Len(results) + 1
            /\ run.calls[Len(results) + 1].name # "input"
  PROVE  good' \in BOOLEAN /\ \E at : ReadTo(at, Len(results'), unread', good')
<1>1. Len(results) \in Nat
  BY DEF Progress, IsSequence
<1>2. Asked(Len(results')) = Asked(Len(results))
  BY <1>1, AskedNext, Zenon
<1>3. good' = good /\ unread' = unread
  BY DEF stream
<1>4. PICK at : ReadTo(at, Len(results), unread, good)
  BY DEF Reading
<1>5. ReadTo(at, Len(results'), unread', good')
  BY <1>2, <1>3, <1>4, Zenon DEF ReadTo
<1> QED
  BY <1>3, <1>5, Zenon DEF Reading

LEMMA ReadingStep ==
  ASSUME Progress, Reading, ReadsEveryLine, [Next]_vars
  PROVE  Reading' /\ ReadsEveryLine'
<1> DEFINE Right(i, value) ==
             /\ run.calls[i].name = "input" => Line(value, Asked(i) - 1)
             /\ run.calls[i].name = "eof"   => value = AllRead(i)
<1>1. run' = run
  BY NextIs, Zenon DEF Answers, Gives, Ends, Turns, vars
<1>2. ASSUME NEW at, ReadTo(at, Len(results'), unread', good'), good' \in BOOLEAN
      PROVE  Reading'
  BY <1>1, <1>2, Zenon DEF Reading, ReadTo, Asked, BeginsBefore
<1>3. \A i \in DOMAIN results : Right(i, results[i])
  BY Zenon DEF ReadsEveryLine, Returned, Line, AllRead
<1>4. ASSUME \A i \in DOMAIN results' : Right(i, results'[i])
      PROVE  ReadsEveryLine'
  BY <1>1, <1>4, Zenon DEF ReadsEveryLine, Returned, Line, AllRead, Asked, Lines, BeginsBefore
<1> HIDE DEF Right
<1>5. CASE Answers /\ Next
  <2> DEFINE k == Len(results) + 1
  <2>1. PICK w : Gives(w)
    BY <1>5 DEF Answers
  <2>2. /\ Len(results) \in Nat /\ DOMAIN results = 1 .. Len(results)
        /\ DOMAIN results' = 1 .. k /\ Len(results') = k
        /\ \A i \in 1 .. Len(results) : results'[i] = results[i]
    BY <2>1, AppendIsNew DEF Gives, Progress, IsSequence
  <2>3. ASSUME NEW v, Gives(v)
        PROVE  results'[k] = v
    BY <2>3, AppendIsNew DEF Gives, Progress
  <2>4. ASSUME NEW name, Calling({name})
        PROVE  run.calls[k].name = name
    BY <2>4, CallTyped, Zenon DEF Calling, Call
  <2>5. ASSUME NEW name, run.calls[k].name = name
        PROVE  Calling({name})
    BY <1>5, <2>5 DEF Answers, Calling, Call
  <2>6. ASSUME Right(k, results'[k])
        PROVE  \A i \in DOMAIN results' : Right(i, results'[i])
    <3> TAKE i \in DOMAIN results'
    <3>1. CASE i = k
      BY <2>6, <3>1, Zenon
    <3>2. CASE i # k
      <4>1. i \in 1 .. Len(results)
        BY <2>2, <3>2
      <4> QED
        BY <1>3, <2>2, <4>1, Zenon
    <3> QED
      BY <3>1, <3>2
  <2>7. CASE Calling({"input"})
    <3>1. PICK v : Gives(v) /\ Line(v, Asked(k) - 1)
      BY <1>5, <2>7, InputReads, Zenon
    <3>2. good' \in BOOLEAN /\ \E at : ReadTo(at, k, unread', good')
      BY <1>5, <2>7, InputReads, Zenon
    <3>3. Right(k, results'[k])
      <4>1. run.calls[k].name = "input" /\ "input" # "eof"
        BY <2>4, <2>7
      <4> QED
        BY <2>3, <3>1, <4>1, Zenon DEF Right
    <3> QED
      BY <1>2, <1>4, <2>2, <2>6, <3>2, <3>3, Zenon
  <2>8. CASE Calling({"eof"})
    <3>1. PICK v : Gives(v) /\ v = AllRead(k)
      BY <1>5, <2>8, EofTells, Zenon
    <3>2. good' \in BOOLEAN /\ \E at : ReadTo(at, k, unread', good')
      BY <1>5, <2>8, EofTells, Zenon
    <3>3. Right(k, results'[k])
      <4>1. run.calls[k].name = "eof" /\ "input" # "eof"
        BY <2>4, <2>8
      <4> QED
        BY <2>3, <3>1, <4>1, Zenon DEF Right
    <3> QED
      BY <1>2, <1>4, <2>2, <2>6, <3>2, <3>3, Zenon
  <2>9. CASE ~Calling({"input"}) /\ ~Calling({"eof"})
    <3>1. run.calls[k].name # "input" /\ run.calls[k].name # "eof"
      BY <2>5, <2>9, Zenon
    <3>2. Right(k, results'[k])
      BY <3>1, Zenon DEF Right
    <3>3. UNCHANGED stream
      BY <1>5, <2>9, OthersReadNothing, Zenon
    <3>4. good' \in BOOLEAN /\ \E at : ReadTo(at, Len(results'), unread', good')
      BY <1>1, <2>2, <3>1, <3>3, AskedStays, Zenon
    <3> QED
      BY <1>2, <1>4, <2>6, <3>2, <3>4, Zenon
  <2> QED
    BY <2>7, <2>8, <2>9
<1>6. CASE (Ends \/ Turns) /\ Next
  <2>1. results' = results
    BY <1>6 DEF Ends, Turns
  <2>2. UNCHANGED stream
    <3>1. ASSUME Calling({"input"}) PROVE FALSE
      <4>1. PICK v : Gives(v)
        BY <1>6, <3>1, InputReads, Zenon
      <4> QED
        BY <2>1, <4>1, AppendIsNew DEF Gives, Progress
    <3>2. ASSUME Calling({"eof"}) PROVE FALSE
      <4>1. PICK v : Gives(v)
        BY <1>6, <3>2, EofTells, Zenon
      <4> QED
        BY <2>1, <4>1, AppendIsNew DEF Gives, Progress
    <3> QED
      BY <1>6, <3>1, <3>2, OthersReadNothing, Zenon
  <2>3. good' \in BOOLEAN /\ \E at : ReadTo(at, Len(results'), unread', good')
    BY <1>1, <2>1, <2>2, AskedStays, Zenon
  <2> QED
    BY <1>2, <1>3, <1>4, <2>1, <2>3, Zenon
<1>7. CASE UNCHANGED vars
  <2>1. results' = results /\ UNCHANGED stream
    BY <1>7 DEF vars
  <2>2. good' \in BOOLEAN /\ \E at : ReadTo(at, Len(results'), unread', good')
    BY <1>1, <2>1, AskedStays, Zenon
  <2> QED
    BY <1>2, <1>3, <1>4, <2>1, <2>2, Zenon
<1> QED
  BY <1>5, <1>6, <1>7, NextIs, Zenon

\* A program that reads its input line by line gets every line once and in order,
\* and eof is true exactly when no more come: whatever the input and the calls, and
\* however calls of eof come between.
THEOREM InputReadsEveryLine == Spec => []ReadsEveryLine
<1>1. Init => Progress /\ Reading /\ ReadsEveryLine
  <2> SUFFICES ASSUME Init PROVE Progress /\ Reading /\ ReadsEveryLine
    OBVIOUS
  <2>1. Progress /\ DOMAIN results = {} /\ Len(results) = 0 /\ good = TRUE /\ unread = run.stdin
    BY DEF Init, Progress, IsSequence
  <2>2. run.stdin \in String /\ Size(run.stdin) \in Nat
    BY <2>1, RunAssumption, BeginsType DEF Progress
  <2>3. /\ 0 \in 0 .. Size(run.stdin) /\ \A c \in LineBegins(run.stdin) : ~(c < 0)
    BY <2>2, BeginsType
  <2>4. Substr(run.stdin, 0, Size(run.stdin)) = run.stdin
    BY <2>2 DEF Substr, Size, String
  <2>5. BeginsBefore(0) = {}
    BY <2>3, Zenon DEF BeginsBefore
  <2>6. Asked(0) = 0
    BY AskedNext
  <2>7. ReadTo(0, Len(results), unread, good)
    BY <2>1, <2>3, <2>4, <2>5, <2>6, FS_EmptySet, Zenon DEF ReadTo, Opens
  <2> QED
    BY <2>1, <2>7, Zenon DEF Reading, ReadsEveryLine
<1>2. Progress /\ Reading /\ ReadsEveryLine /\ [Next]_vars
        => (Progress /\ Reading /\ ReadsEveryLine)'
  BY ProgressStep, ReadingStep
<1> QED
  BY <1>1, <1>2, PTL DEF Spec

---------------------------------------------------------------------------
(* Digits and numbers.                                                     *)

\* What holds of 0, and of every number after one it holds of.
LEMMA UpTo ==
  ASSUME NEW N \in Nat, NEW Good, 0 \in Good, \A n \in 0 .. N - 1 : n \in Good => n + 1 \in Good,
         NEW n \in 0 .. N
  PROVE  n \in Good
<1> DEFINE Missing == { m \in 0 .. N : m \notin Good }
<1>1. Missing = {}
  <2> SUFFICES ASSUME Missing # {} PROVE FALSE
    OBVIOUS
  <2>1. Missing \subseteq Nat
    OBVIOUS
  <2>2. PICK m \in Missing : \A y \in Missing : m <= y
    BY <2>1, MinType
  <2>3. m # 0
    BY <2>2
  <2>4. m - 1 \in 0 .. N - 1 /\ m - 1 \notin Missing /\ (m - 1) + 1 = m
    BY <2>2, <2>3
  <2> QED
    BY <2>2, <2>4
<1> QED
  BY <1>1

Digits == 48 .. 57

\* v counts the number that each beginning of some digits is.
Counting(v, d) == v[0] = 0 /\ \A n \in 1 .. Len(d) : v[n] = 10 * v[n - 1] + (d[n] - 48)

\* Up to a length of d, v has natural numbers, none more than the one it ends with.
LEMMA CountingType ==
  ASSUME NEW d \in Seq(Digits), NEW v, Counting(v, d)
  PROVE  /\ \A n \in 0 .. Len(d) : v[n] \in Nat
         /\ \A n \in 0 .. Len(d) - 1 : v[n] <= v[n + 1]
         /\ \A n \in 0 .. Len(d) : v[n] <= v[Len(d)]
<1> DEFINE Good == { n \in 0 .. Len(d) : v[n] \in Nat }
<1>0. Len(d) \in Nat /\ \A n \in 1 .. Len(d) : d[n] \in 48 .. 57
  BY DEF Digits
<1>1. \A n \in 0 .. Len(d) - 1 : n + 1 \in 1 .. Len(d) /\ v[n + 1] = 10 * v[n] + (d[n + 1] - 48)
  <2> SUFFICES ASSUME NEW n \in 0 .. Len(d) - 1
               PROVE  n + 1 \in 1 .. Len(d) /\ v[n + 1] = 10 * v[n] + (d[n + 1] - 48)
    OBVIOUS
  <2>1. n + 1 \in 1 .. Len(d) /\ (n + 1) - 1 = n
    BY <1>0
  <2> QED
    BY <2>1 DEF Counting
<1>2. \A n \in 0 .. Len(d) : v[n] \in Nat
  <2>1. 0 \in Good
    BY <1>0 DEF Counting
  <2>2. ASSUME NEW n \in 0 .. Len(d) - 1, n \in Good
        PROVE  n + 1 \in Good
    <3>1. v[n] \in Nat /\ n + 1 \in 1 .. Len(d) /\ v[n + 1] = 10 * v[n] + (d[n + 1] - 48)
      BY <1>1, <2>2
    <3>2. d[n + 1] \in 48 .. 57
      BY <1>0, <3>1
    <3>3. v[n + 1] \in Nat
      <4>1. PICK a \in Nat, b \in 48 .. 57 : a = v[n] /\ b = d[n + 1]
        BY <3>1, <3>2
      <4>2. v[n + 1] = 10 * a + (b - 48)
        BY <3>1, <4>1
      <4>3. 10 * a + (b - 48) \in Nat
        OBVIOUS
      <4> QED
        BY <4>2, <4>3
    <3>4. n + 1 \in 0 .. Len(d)
      BY <1>0, <3>1
    <3> QED
      BY <3>3, <3>4
  <2> HIDE DEF Good
  <2>3. \A n \in 0 .. Len(d) : n \in Good
    BY <1>0, <2>1, <2>2, UpTo
  <2> QED
    BY <2>3 DEF Good
<1>3. \A n \in 0 .. Len(d) - 1 : v[n] <= v[n + 1]
  <2> SUFFICES ASSUME NEW n \in 0 .. Len(d) - 1 PROVE v[n] <= v[n + 1]
    OBVIOUS
  <2>1. v[n] \in Nat /\ d[n + 1] \in 48 .. 57 /\ v[n + 1] = 10 * v[n] + (d[n + 1] - 48)
    BY <1>0, <1>1, <1>2
  <2> QED
    BY <2>1
<1>4. \A n \in 0 .. Len(d) : v[n] <= v[Len(d)]
  <2> DEFINE Low == { m \in 0 .. Len(d) : v[Len(d) - m] <= v[Len(d)] }
  <2>1. 0 \in Low
    BY <1>0, <1>2
  <2>2. ASSUME NEW m \in 0 .. Len(d) - 1, m \in Low
        PROVE  m + 1 \in Low
    <3> DEFINE k == Len(d) - (m + 1)
    <3>1. k \in 0 .. Len(d) - 1 /\ k + 1 = Len(d) - m /\ m + 1 \in 0 .. Len(d)
          /\ k \in 0 .. Len(d) /\ k + 1 \in 0 .. Len(d) /\ Len(d) \in 0 .. Len(d)
      BY <1>0
    <3> HIDE DEF k
    <3>2. v[k] <= v[k + 1] /\ v[k + 1] <= v[Len(d)]
      BY <1>3, <2>2, <3>1
    <3>3. v[k] <= v[Len(d)]
      BY <1>2, <3>1, <3>2
    <3> QED
      BY <3>1, <3>3 DEF k
  <2> HIDE DEF Low
  <2>3. \A m \in 0 .. Len(d) : m \in Low
    BY <1>0, <2>1, <2>2, UpTo
  <2> SUFFICES ASSUME NEW n \in 0 .. Len(d) PROVE v[n] <= v[Len(d)]
    OBVIOUS
  <2>4. PICK m \in 0 .. Len(d) : Len(d) - m = n
    <3>1. Len(d) - n \in 0 .. Len(d) /\ Len(d) - (Len(d) - n) = n
      BY <1>0
    <3> QED
      BY <3>1
  <2> QED
    BY <2>3, <2>4 DEF Low
<1> QED
  BY <1>2, <1>3, <1>4

\* Magnitude is the last of them.
LEMMA MagnitudeIs ==
  ASSUME NEW d \in Seq(Digits)
  PROVE  \E v : Counting(v, d) /\ Magnitude(d) = v[Len(d)]
<1>0. PICK L \in Nat : L = Len(d)
  OBVIOUS
<1> DEFINE Turned(f, n) == IF n = 0 THEN 0 ELSE 10 * f[n - 1] + (d[n] - 48)
           Body(f) == [n \in 0 .. L |-> Turned(f, n)]
           C == CHOOSE f : f = Body(f)
           Has(n) == \E f : \A m \in 0 .. n : f[m] = Turned(f, m)
           Exist == { n \in 0 .. L : Has(n) }
<1>1. Magnitude(d) = C[L]
  BY <1>0 DEF Magnitude, Size
<1>2. 0 \in Exist
  <2>1. PICK f : f = [m \in {0} |-> 0]
    OBVIOUS
  <2>2. \A m \in 0 .. 0 : f[m] = Turned(f, m)
    BY <2>1
  <2>3. Has(0)
    BY <2>2, Zenon
  <2> HIDE DEF Has
  <2> QED
    BY <2>3
<1>3. ASSUME NEW n \in 0 .. L - 1, n \in Exist
      PROVE  n + 1 \in Exist
  <2>1. PICK g : \A m \in 0 .. n : g[m] = Turned(g, m)
    BY <1>3
  <2>2. PICK b : b = Turned(g, n + 1)
    OBVIOUS
  <2>3. PICK f : f = [m \in 0 .. n + 1 |-> IF m = n + 1 THEN b ELSE g[m]]
    OBVIOUS
  <2>4. \A m \in 0 .. n : f[m] = g[m]
    BY <2>3
  <2>5. f[n + 1] = b
    BY <2>3
  <2>6. \A m \in 0 .. n + 1 : Turned(f, m) = Turned(g, m)
    BY <2>4
  <2>7. ASSUME NEW m \in 0 .. n + 1
        PROVE  f[m] = Turned(f, m)
    <3> HIDE DEF Turned
    <3>1. m \in 0 .. n \/ m = n + 1
      OBVIOUS
    <3> QED
      BY <2>1, <2>2, <2>4, <2>5, <2>6, <3>1
  <2>8. Has(n + 1)
    BY <2>7, Zenon
  <2>9. n + 1 \in 0 .. L
    OBVIOUS
  <2> HIDE DEF Has
  <2> QED
    BY <2>8, <2>9
<1>4. Has(L)
  <2> HIDE DEF Has
  <2>1. \A n \in 0 .. L - 1 : n \in Exist => n + 1 \in Exist
    BY <1>3
  <2>2. L \in 0 .. L
    OBVIOUS
  <2> HIDE DEF Exist
  <2>3. L \in Exist
    BY <1>2, <2>1, <2>2, UpTo
  <2> QED
    BY <2>3 DEF Exist
<1>5. \E f : f = Body(f)
  <2>1. PICK g : \A m \in 0 .. L : g[m] = Turned(g, m)
    BY <1>4
  <2>2. PICK f : f = [m \in 0 .. L |-> g[m]]
    OBVIOUS
  <2>3. ASSUME NEW m \in 0 .. L
        PROVE  f[m] = Turned(f, m)
    <3>1. Turned(f, m) = Turned(g, m)
      BY <2>2
    <3> HIDE DEF Turned
    <3> QED
      BY <2>1, <2>2, <3>1
  <2>4. f = Body(f)
    <3>1. f = [m \in 0 .. L |-> f[m]]
      BY <2>2
    <3> HIDE DEF Turned
    <3> QED
      BY <2>3, <3>1, Zenon
  <2> QED
    BY <2>4, Zenon
<1>6. PICK f : f = C /\ f = Body(f)
  <2> HIDE DEF Body
  <2> QED
    BY <1>5, Zenon
<1>7. \A n \in 0 .. L : f[n] = Turned(f, n)
  <2> HIDE DEF C, Turned
  <2> QED
    BY <1>6
<1> HIDE DEF C, Body
<1>8. Counting(f, d)
  BY <1>0, <1>7 DEF Counting
<1> QED
  BY <1>0, <1>1, <1>6, <1>8

\* The decimal digits of the numbers up to n.
Decimals(f, n) ==
  \A k \in 0 .. n :
    /\ f[k] \in Seq(Digits)
    /\ f[k] = IF k < 10 THEN <<48 + k>> ELSE Append(f[k \div 10], 48 + (k % 10))

\* A number divided by ten, and what is left of it.
LEMMA Tenth ==
  ASSUME NEW k \in Nat
  PROVE  /\ k \div 10 \in Nat /\ k % 10 \in 0 .. 9 /\ k = 10 * (k \div 10) + (k % 10)
         /\ k >= 10 => k \div 10 < k
         /\ \A q \in Nat, r \in 0 .. 9 : k = 10 * q + r => q = k \div 10 /\ r = k % 10
  BY SMT

LEMMA DecimalIs ==
  ASSUME NEW n \in Nat
  PROVE  \E f : Decimals(f, n) /\ DecimalOf(n) = f[n]
<1> DEFINE Turned(f, k) == IF k < 10 THEN <<48 + k>> ELSE Append(f[k \div 10], 48 + (k % 10))
           Body(f) == [k \in 0 .. n |-> Turned(f, k)]
           C == CHOOSE f : f = Body(f)
           Has(m) == \E f : \A k \in 0 .. m : f[k] = Turned(f, k)
           Exist == { m \in 0 .. n : Has(m) }
<1>0. \A k \in Nat : k >= 10 => k \div 10 \in 0 .. k - 1
  BY Tenth
<1>1. DecimalOf(n) = C[n]
  BY DEF DecimalOf
<1>2. 0 \in Exist
  <2>1. PICK f : f = [k \in {0} |-> <<48>>]
    OBVIOUS
  <2>2. \A k \in 0 .. 0 : f[k] = Turned(f, k)
    BY <2>1
  <2>3. Has(0)
    BY <2>2, Zenon
  <2> HIDE DEF Has
  <2> QED
    BY <2>3
<1>3. ASSUME NEW m \in 0 .. n - 1, m \in Exist
      PROVE  m + 1 \in Exist
  <2>1. PICK g : \A k \in 0 .. m : g[k] = Turned(g, k)
    BY <1>3
  <2>2. PICK b : b = Turned(g, m + 1)
    OBVIOUS
  <2>3. PICK f : f = [k \in 0 .. m + 1 |-> IF k = m + 1 THEN b ELSE g[k]]
    OBVIOUS
  <2>4. \A k \in 0 .. m : f[k] = g[k]
    BY <2>3
  <2>5. f[m + 1] = b
    BY <2>3
  <2>6. ASSUME NEW k \in 0 .. m + 1
        PROVE  Turned(f, k) = Turned(g, k)
    <3>1. k >= 10 => k \div 10 \in 0 .. m
      BY <1>0
    <3>2. k >= 10 => f[k \div 10] = g[k \div 10]
      BY <2>4, <3>1
    <3>3. k < 10 \/ k >= 10
      OBVIOUS
    <3> QED
      BY <3>2, <3>3
  <2>7. ASSUME NEW k \in 0 .. m + 1
        PROVE  f[k] = Turned(f, k)
    <3>1. Turned(f, k) = Turned(g, k)
      BY <2>6
    <3>2. k \in 0 .. m \/ k = m + 1
      OBVIOUS
    <3> HIDE DEF Turned
    <3> QED
      BY <2>1, <2>2, <2>4, <2>5, <3>1, <3>2
  <2>8. Has(m + 1)
    BY <2>7, Zenon
  <2>9. m + 1 \in 0 .. n
    OBVIOUS
  <2> HIDE DEF Has
  <2> QED
    BY <2>8, <2>9
<1>4. Has(n)
  <2> HIDE DEF Has
  <2>1. \A m \in 0 .. n - 1 : m \in Exist => m + 1 \in Exist
    BY <1>3
  <2>2. n \in 0 .. n
    OBVIOUS
  <2> HIDE DEF Exist
  <2>3. n \in Exist
    BY <1>2, <2>1, <2>2, UpTo
  <2> QED
    BY <2>3 DEF Exist
<1>5. \E f : f = Body(f)
  <2>1. PICK g : \A k \in 0 .. n : g[k] = Turned(g, k)
    BY <1>4
  <2>2. PICK f : f = [k \in 0 .. n |-> g[k]]
    OBVIOUS
  <2>3. ASSUME NEW k \in 0 .. n
        PROVE  f[k] = Turned(f, k)
    <3>1. k >= 10 => k \div 10 \in 0 .. n
      BY <1>0
    <3>2. k >= 10 => f[k \div 10] = g[k \div 10]
      BY <2>2, <3>1
    <3>3. k < 10 \/ k >= 10
      OBVIOUS
    <3>4. Turned(f, k) = Turned(g, k)
      BY <3>2, <3>3
    <3> HIDE DEF Turned
    <3> QED
      BY <2>1, <2>2, <3>4
  <2>4. f = Body(f)
    <3>1. f = [k \in 0 .. n |-> f[k]]
      BY <2>2
    <3> HIDE DEF Turned
    <3> QED
      BY <2>3, <3>1, Zenon
  <2> QED
    BY <2>4, Zenon
<1>6. PICK f : f = C /\ f = Body(f)
  <2> HIDE DEF Body
  <2> QED
    BY <1>5, Zenon
<1>7. \A k \in 0 .. n : f[k] = Turned(f, k)
  <2> HIDE DEF C, Turned
  <2> QED
    BY <1>6
<1> HIDE DEF C, Body
<1> DEFINE Wrong == { k \in 0 .. n : f[k] \notin Seq(Digits) }
<1>8. Wrong = {}
  <2> SUFFICES ASSUME Wrong # {} PROVE FALSE
    OBVIOUS
  <2>1. Wrong \subseteq Nat
    OBVIOUS
  <2>2. PICK k \in Wrong : \A y \in Wrong : k <= y
    BY <2>1, MinType
  <2>3. CASE k < 10
    <3>0. k \in 0 .. n /\ 48 + k \in Digits
      BY <2>2, <2>3 DEF Digits
    <3>1. f[k] = <<48 + k>>
      BY <1>7, <2>3, <3>0
    <3>2. f[k] \in Seq(Digits)
      BY <3>0, <3>1
    <3> QED
      BY <2>2, <3>2
  <2>4. CASE ~(k < 10)
    <3>1. k \div 10 \in 0 .. k - 1 /\ k % 10 \in 0 .. 9 /\ k \in 0 .. n
      BY <1>0, <2>2, <2>4, Tenth
    <3>2. k \div 10 \in 0 .. n /\ ~(k <= k \div 10) /\ 48 + (k % 10) \in Digits
      BY <3>1 DEF Digits
    <3>3. f[k \div 10] \in Seq(Digits)
      BY <2>2, <3>2
    <3>4. f[k] = Append(f[k \div 10], 48 + (k % 10))
      BY <1>7, <2>4, <3>1
    <3>5. f[k] \in Seq(Digits)
      BY <3>2, <3>3, <3>4, AppendProperties
    <3> QED
      BY <2>2, <3>5
  <2> QED
    BY <2>3, <2>4
<1>9. Decimals(f, n)
  BY <1>7, <1>8 DEF Decimals
<1> QED
  BY <1>1, <1>6, <1>9

---------------------------------------------------------------------------
(* What zeros and decimal digits count.                                    *)

\* The first k of some digits are z zeros and then s.
Reads(s, d, z, k) ==
  /\ z \in 0 .. k /\ s \in Seq(Digits) /\ Len(s) = k - z
  /\ \A i \in 1 .. z : d[i] = 48
  /\ \A i \in 1 .. k - z : s[i] = d[z + i]

\* Zeros count nothing.
LEMMA ZerosCount ==
  ASSUME NEW d \in Seq(Digits), NEW v, Counting(v, d), NEW z \in 0 .. Len(d),
         \A i \in 1 .. z : d[i] = 48
  PROVE  v[z] = 0
<1> DEFINE Good == { m \in 0 .. z : v[m] = 0 }
<1>1. z \in Nat /\ Len(d) \in Nat
  BY LenProperties
<1>2. 0 \in Good
  BY <1>1 DEF Counting
<1>3. ASSUME NEW m \in 0 .. z - 1, m \in Good
      PROVE  m + 1 \in Good
  <2>1. m + 1 \in 1 .. Len(d) /\ m + 1 \in 1 .. z /\ (m + 1) - 1 = m /\ m + 1 \in 0 .. z
    BY <1>1
  <2>2. v[m + 1] = 10 * v[m] + (d[m + 1] - 48) /\ d[m + 1] = 48 /\ v[m] = 0
    BY <1>3, <2>1 DEF Counting
  <2> QED
    BY <2>1, <2>2
<1> HIDE DEF Good
<1>4. z \in 0 .. z
  BY <1>1
<1>5. z \in Good
  BY <1>1, <1>2, <1>3, <1>4, UpTo
<1> QED
  BY <1>5 DEF Good

\* The decimal digits of a number, behind zeros, count it.
LEMMA DecimalsCount ==
  ASSUME NEW n \in Nat, NEW f, Decimals(f, n), NEW d \in Seq(Digits), NEW v, Counting(v, d),
         NEW z, Reads(f[n], d, z, Len(d))
  PROVE  v[Len(d)] = n
<1> DEFINE Wrong == { j \in 0 .. n : \E c \in 0 .. Len(d) : Reads(f[j], d, z, c) /\ v[c] # j }
<1>0. Len(d) \in Nat
  BY LenProperties
<1>1. Wrong = {}
  <2> SUFFICES ASSUME Wrong # {} PROVE FALSE
    OBVIOUS
  <2>1. Wrong \subseteq Nat
    OBVIOUS
  <2>2. PICK j \in Wrong : \A y \in Wrong : j <= y
    BY <2>1, MinType
  <2>3. PICK c \in 0 .. Len(d) : Reads(f[j], d, z, c) /\ v[c] # j
    BY <2>2
  <2>4. j \in 0 .. n /\ j \in Nat /\ c \in Nat /\ z \in 0 .. c /\ z \in Nat
    BY <2>1, <2>2, <2>3 DEF Reads
  <2>5. CASE j < 10
    <3>1. f[j] = <<48 + j>>
      BY <2>4, <2>5 DEF Decimals
    <3>2. Len(f[j]) = 1 /\ f[j][1] = 48 + j
      BY <3>1
    <3>3. c = z + 1 /\ z \in 0 .. Len(d) /\ c \in 1 .. Len(d) /\ c - 1 = z /\ 1 \in 1 .. c - z
      <4>1. c - z = 1
        BY <2>3, <3>2 DEF Reads
      <4> QED
        BY <1>0, <2>4, <4>1
    <3>4. d[c] = 48 + j
      BY <2>3, <3>2, <3>3 DEF Reads
    <3>5. v[z] = 0
      BY <2>3, <3>3, ZerosCount DEF Reads
    <3>6. v[c] = 10 * v[z] + (d[c] - 48)
      BY <3>3 DEF Counting
    <3>7. v[c] = 10 * 0 + ((48 + j) - 48)
      BY <3>4, <3>5, <3>6
    <3> QED
      BY <2>3, <2>4, <3>7
  <2>6. CASE ~(j < 10)
    <3>1. PICK q \in Nat, r \in 0 .. 9 : q = j \div 10 /\ r = j % 10 /\ j = 10 * q + r /\ q < j
      <4>1. j \in Nat /\ j >= 10
        BY <2>4, <2>6
      <4>2. /\ j \div 10 \in Nat /\ j % 10 \in 0 .. 9 /\ j = 10 * (j \div 10) + (j % 10)
            /\ j \div 10 < j
        BY <4>1, Tenth
      <4> QED
        BY <4>2, Zenon
    <3>2. f[j] = Append(f[q], 48 + r) /\ q \in 0 .. n /\ f[q] \in Seq(Digits)
      <4>1. q \in 0 .. n
        BY <2>4, <3>1
      <4> QED
        BY <2>4, <2>6, <3>1, <4>1 DEF Decimals
    <3>3. 48 + r \in Digits
      BY DEF Digits
    <3>4. PICK l \in Nat : l = Len(f[q])
      BY <3>2, LenProperties
    <3>5. /\ Len(f[j]) = l + 1 /\ f[j][l + 1] = 48 + r
          /\ \A i \in 1 .. l : f[j][i] = f[q][i]
      BY <3>2, <3>3, <3>4, AppendProperties
    <3>6. /\ c = z + (l + 1) /\ c \in 1 .. Len(d) /\ c - 1 \in 0 .. Len(d) /\ l + 1 \in 1 .. c - z
          /\ z \in 0 .. c - 1 /\ l = (c - 1) - z /\ \A i \in 1 .. l : i \in 1 .. c - z
      BY <1>0, <2>3, <2>4, <3>5 DEF Reads
    <3>7. d[c] = 48 + r
      BY <2>3, <3>5, <3>6 DEF Reads
    <3>8. Reads(f[q], d, z, c - 1)
      <4>1. \A i \in 1 .. l : f[q][i] = d[z + i]
        BY <2>3, <3>5, <3>6 DEF Reads
      <4> QED
        BY <2>3, <3>2, <3>4, <3>6, <4>1 DEF Reads
    <3>9. ~(j <= q)
      BY <2>4, <3>1
    <3>10. v[c - 1] = q
      BY <2>2, <3>2, <3>6, <3>8, <3>9
    <3>11. v[c] = 10 * v[c - 1] + (d[c] - 48)
      BY <3>6 DEF Counting
    <3>12. v[c] = 10 * q + ((48 + r) - 48)
      BY <3>7, <3>10, <3>11
    <3> QED
      BY <2>3, <3>1, <3>12
  <2> QED
    BY <2>5, <2>6
<1>2. n \in 0 .. n /\ Len(d) \in 0 .. Len(d)
  BY <1>0
<1> QED
  BY <1>1, <1>2

\* Some digits are zeros, and then the decimal digits of the number they count.
LEMMA DigitsAreDecimal ==
  ASSUME NEW d \in Seq(Digits), Len(d) # 0, NEW v, Counting(v, d),
         NEW f, Decimals(f, v[Len(d)])
  PROVE  \E z : Reads(f[v[Len(d)]], d, z, Len(d))
<1> DEFINE L == Len(d)
           N == v[Len(d)]
           Good == { m \in 0 .. L : m > 0 => \E z : Reads(f[v[m]], d, z, m) }
<1>1. L \in Nat /\ N \in Nat /\ \A m \in 0 .. L : v[m] \in Nat /\ v[m] \in 0 .. N
  <2>1. L \in Nat
    BY LenProperties
  <2>2. L \in 0 .. L
    BY <2>1
  <2> QED
    BY <2>1, <2>2, CountingType
<1>2. 0 \in Good
  BY <1>1
<1>3. ASSUME NEW m \in 0 .. L - 1, m \in Good
      PROVE  m + 1 \in Good
  <2> DEFINE c == m + 1
  <2>1. c \in 1 .. L /\ c \in 0 .. L /\ m \in 0 .. L /\ c - 1 = m /\ m \in Nat /\ c > 0
    BY <1>1
  <2>2. d[c] \in Digits
    BY <2>1, ElementOfSeq
  <2>3. v[c] = 10 * v[m] + (d[c] - 48)
    BY <2>1 DEF Counting
  <2> HIDE DEF c
  <2>4. PICK a \in Nat, r \in 0 .. 9 : a = v[m] /\ r = d[c] - 48 /\ d[c] = 48 + r
    <3>1. d[c] - 48 \in 0 .. 9 /\ d[c] = 48 + (d[c] - 48)
      BY <2>2 DEF Digits
    <3> QED
      BY <1>1, <2>1, <3>1
  <2>5. v[c] = 10 * a + r
    BY <2>3, <2>4
  <2>6. /\ v[c] \in 0 .. N /\ v[c] \in Nat /\ a \in 0 .. N
        /\ v[c] < 10 => a = 0 /\ r = v[c]
        /\ ~(v[c] < 10) => a # 0 /\ v[c] \div 10 = a /\ v[c] % 10 = r
    <3>1. a \in 0 .. N /\ v[c] \in 0 .. N /\ v[c] \in Nat
      BY <1>1, <2>1, <2>4
    <3>2. PICK w \in Nat : w = v[c]
      BY <3>1
    <3>3. w = 10 * a + r
      BY <2>5, <3>2
    <3>4. a = w \div 10 /\ r = w % 10
      BY <3>3, Tenth
    <3>5. /\ w < 10 => a = 0 /\ r = w
          /\ ~(w < 10) => a # 0
      BY <3>3
    <3> QED
      BY <3>1, <3>2, <3>4, <3>5
  <2>7. \A k \in 0 .. N : /\ f[k] \in Seq(Digits)
                          /\ f[k] = IF k < 10 THEN <<48 + k>> ELSE Append(f[k \div 10], 48 + (k % 10))
    BY DEF Decimals
  <2> HIDE DEF L, N
  <2>8. CASE v[c] < 10
    <3>1. f[v[c]] = <<48 + r>> /\ f[v[c]] \in Seq(Digits)
      BY <2>6, <2>7, <2>8
    <3>2. Len(f[v[c]]) = 1 /\ f[v[c]][1] = d[c]
      BY <2>4, <3>1
    <3>3. \A i \in 1 .. m : d[i] = 48
      <4>1. CASE m = 0
        BY <4>1
      <4>2. CASE m # 0
        <5>1. f[0] = <<48>>
          <6>1. 0 \in 0 .. N /\ 48 + 0 = 48 /\ 0 < 10
            BY <2>6, <2>8
          <6>2. f[0] = <<48 + 0>>
            BY <2>7, <6>1
          <6> QED
            BY <6>1, <6>2
        <5>2. PICK z : Reads(f[v[m]], d, z, m)
          BY <1>3, <2>1, <4>2
        <5>3. Reads(<<48>>, d, z, m)
          BY <2>4, <2>6, <2>8, <5>1, <5>2
        <5>4. z \in Nat /\ m = z + 1 /\ d[m] = 48 /\ \A i \in 1 .. z : d[i] = 48
          <6>1. Len(<<48>>) = 1 /\ <<48>>[1] = 48
            OBVIOUS
          <6>2. z \in Nat /\ m = z + 1 /\ 1 \in 1 .. m - z
            BY <2>1, <5>3, <6>1 DEF Reads
          <6> QED
            BY <5>3, <6>1, <6>2 DEF Reads
        <5> QED
          BY <5>4
      <4> QED
        BY <4>1, <4>2
    <3>4. Reads(f[v[c]], d, m, c)
      <4>1. m \in 0 .. c /\ c - m = 1 /\ \A i \in 1 .. c - m : i = 1 /\ m + i = c
        BY <2>1
      <4> QED
        BY <3>1, <3>2, <3>3, <4>1 DEF Reads
    <3> QED
      BY <2>1, <3>4 DEF c
  <2>9. CASE ~(v[c] < 10)
    <3>1. f[v[c]] = Append(f[a], 48 + r) /\ f[v[c]] \in Seq(Digits) /\ f[a] \in Seq(Digits)
      BY <2>6, <2>7, <2>9
    <3>2. m # 0
      BY <2>4, <2>6, <2>9 DEF Counting
    <3>3. PICK z : Reads(f[a], d, z, m)
      BY <1>3, <2>1, <2>4, <3>2
    <3>4. PICK l \in Nat : l = Len(f[a])
      BY <3>1, LenProperties
    <3>5. /\ Len(f[v[c]]) = l + 1 /\ f[v[c]][l + 1] = d[c]
          /\ \A i \in 1 .. l : f[v[c]][i] = f[a][i]
      BY <2>2, <2>4, <3>1, <3>4, AppendProperties
    <3>6. /\ z \in 0 .. c /\ l = m - z /\ l + 1 = c - z /\ z + (l + 1) = c
          /\ \A i \in 1 .. c - z : i \in 1 .. m - z \/ i = l + 1
      BY <2>1, <3>3, <3>4 DEF Reads, c
    <3>7. \A i \in 1 .. c - z : f[v[c]][i] = d[z + i]
      BY <3>3, <3>5, <3>6 DEF Reads
    <3>8. Reads(f[v[c]], d, z, c)
      BY <3>1, <3>3, <3>5, <3>6, <3>7 DEF Reads
    <3> QED
      BY <2>1, <3>8 DEF c
  <2> QED
    BY <2>8, <2>9
<1>4. L \in 0 .. L /\ L > 0
  BY <1>1
<1> HIDE DEF Good
<1>5. L \in Good
  <2>1. L \in Nat
    BY <1>1
  <2> HIDE DEF L
  <2> QED
    BY <2>1, <1>2, <1>3, <1>4, UpTo
<1> QED
  BY <1>4, <1>5 DEF Good

---------------------------------------------------------------------------
(* A number's text.                                                        *)

\* The greatest of some numbers up to a bound.
LEMMA MaxType ==
  ASSUME NEW N \in Nat, NEW S, S \subseteq 0 .. N, S # {}
  PROVE  Max(S) \in S /\ \A n \in S : Max(S) >= n
<1> DEFINE Below == { m \in 0 .. N : N - m \in S }
<1>1. Below \subseteq Nat /\ Below # {}
  <2>1. PICK n \in S : TRUE
    OBVIOUS
  <2>2. N - n \in 0 .. N /\ N - (N - n) = n
    BY <2>1
  <2>3. N - n \in Below
    BY <2>1, <2>2
  <2> QED
    BY <2>3
<1>2. PICK m \in Below : \A y \in Below : m <= y
  BY <1>1, MinType
<1>3. N - m \in S
  BY <1>2
<1>4. ASSUME NEW n \in S
      PROVE  N - m >= n
  <2>1. n \in 0 .. N /\ N - n \in 0 .. N /\ N - (N - n) = n
    BY <1>4
  <2>2. N - n \in Below
    BY <1>4, <2>1
  <2> QED
    BY <1>2, <2>1, <2>2
<1> HIDE DEF Below
<1> QED
  BY <1>3, <1>4 DEF Max

\* A text has a sign in front or none.
LEMMA SignIs ==
  ASSUME NEW text \in String
  PROVE  /\ Size(text) \in Nat /\ Sign(text) \in 0 .. Size(text)
         /\ Sign(text) = IF Size(text) > 0 /\ text[1] \in {43, 45} THEN 1 ELSE 0
         /\ text # << >> <=> Size(text) > 0
         /\ Size(text) > 0 => Head(text) = text[1]
<1>1. text \in Seq(0 .. 255) /\ Len(text) \in Nat
  BY DEF String
<1>2. text # << >> <=> Len(text) > 0
  BY <1>1, EmptySeq
<1>3. Head(text) = text[1]
  BY <1>1
<1> QED
  BY <1>1, <1>2, <1>3 DEF Sign, Size

\* The digits behind the sign, up to the first byte that is none.
LEMMA DigitsEndIs ==
  ASSUME NEW text \in String
  PROVE  /\ DigitsEnd(text) \in Sign(text) .. Size(text)
         /\ \A at \in Sign(text) .. DigitsEnd(text) - 1 : IsDigit(Byte(text, at))
         /\ (\A at \in Sign(text) .. Size(text) - 1 : IsDigit(Byte(text, at)))
              => DigitsEnd(text) = Size(text)
<1> DEFINE S == { n \in Sign(text) .. Size(text) :
                    \A at \in Sign(text) .. n - 1 : IsDigit(Byte(text, at)) }
           N == Size(text)
<1>1. N \in Nat /\ Sign(text) \in 0 .. N
  BY SignIs
<1>2. S \subseteq 0 .. N /\ Sign(text) \in S
  BY <1>1
<1>3. DigitsEnd(text) = Max(S)
  BY DEF DigitsEnd
<1>4. Max(S) \in S /\ \A n \in S : Max(S) >= n
  <2> HIDE DEF S, N
  <2> QED
    BY <1>1, <1>2, MaxType
<1>5. (\A at \in Sign(text) .. N - 1 : IsDigit(Byte(text, at))) => N \in S
  BY <1>1
<1>6. N \in S => Max(S) = N
  <2>1. ASSUME N \in S
        PROVE  Max(S) >= N /\ Max(S) \in 0 .. N
    <3> HIDE DEF S, N
    <3> QED
      BY <1>2, <1>4, <2>1
  <2> QED
    BY <1>1, <2>1
<1>7. /\ Max(S) \in Sign(text) .. N
      /\ \A at \in Sign(text) .. Max(S) - 1 : IsDigit(Byte(text, at))
  BY <1>4
<1> QED
  BY <1>3, <1>5, <1>6, <1>7

\* strtoll gets all of a text without a NUL.
LEMMA CStringIs ==
  ASSUME NEW text \in String, \A h \in 0 .. Size(text) - 1 : Byte(text, h) # 0
  PROVE  CString(text) = text
<1>1. NoHit(text, << 0 >>, 0)
  BY ByteHits DEF NoHit
<1> QED
  BY <1>1 DEF CString

LEMMA ZeroHasNoSign ==
  ASSUME NEW k \in Int, k = 0
  PROVE  -k = 0
<1>1. -k \in Int /\ k + (-k) = 0
  OBVIOUS
<1>2. PICK m \in Int : m = -k
  BY <1>1
<1>3. k + m = 0
  BY <1>1, <1>2, Zenon
<1>4. m = 0
  BY <1>3
<1> QED
  BY <1>2, <1>4, Zenon

\* The signs, and the zeros, that a number may have in front.
Signs == { << >>, <<43>>, <<45>> }
Zeros(z) == [k \in 1 .. z |-> 48]

\* A text that is a sign, zeros and digits, byte by byte.
IsNumeral(text, sign, z, s) ==
  /\ text \in String /\ Len(sign) \in 0 .. 1 /\ Len(s) \in Nat
  /\ Len(text) = Len(sign) + z + Len(s)
  /\ \A i \in 1 .. Len(sign) : text[i] = sign[i]
  /\ \A i \in 1 .. z : text[Len(sign) + i] = 48
  /\ \A i \in 1 .. Len(s) : text[Len(sign) + z + i] = s[i]

LEMMA NumeralIs ==
  ASSUME NEW sign \in Signs, NEW z \in Nat, NEW s \in Seq(Digits)
  PROVE  IsNumeral(sign \o Zeros(z) \o s, sign, z, s)
<1> DEFINE B == 0 .. 255
           zs == Zeros(z)
           m == Len(sign)  n == Len(s)
<1>1. sign \in Seq(B) /\ m \in 0 .. 1
  <2>1. \A b \in B : <<b>> \in Seq(B) /\ Len(<<b>>) = 1
    OBVIOUS
  <2>2. << >> \in Seq(B) /\ Len(<< >>) = 0
    OBVIOUS
  <2>3. 43 \in B /\ 45 \in B /\ 0 \in 0 .. 1 /\ 1 \in 0 .. 1
    OBVIOUS
  <2>4. sign = << >> \/ sign = <<43>> \/ sign = <<45>>
    BY DEF Signs
  <2> QED
    BY <2>1, <2>2, <2>3, <2>4, Zenon
<1>2. zs \in Seq(B) /\ Len(zs) = z /\ \A i \in 1 .. z : zs[i] = 48
  BY DEF Zeros
<1>3. s \in Seq(B) /\ n \in Nat
  <2>1. Digits \subseteq B
    BY DEF Digits
  <2> QED
    BY <2>1, SeqMonotonic, LenProperties
<1> HIDE DEF zs
<1>4. /\ sign \o zs \in Seq(B) /\ Len(sign \o zs) = m + z
      /\ \A i \in 1 .. m + z : (sign \o zs)[i] = IF i <= m THEN sign[i] ELSE zs[i - m]
  <2> HIDE DEF B
  <2>1. zs \in Seq(B) /\ Len(zs) = z
    BY <1>2
  <2>2. /\ sign \o zs \in Seq(B) /\ Len(sign \o zs) = Len(sign) + Len(zs)
        /\ \A i \in 1 .. Len(sign) + Len(zs) :
             (sign \o zs)[i] = IF i <= Len(sign) THEN sign[i] ELSE zs[i - Len(sign)]
    BY <1>1, <2>1, ConcatProperties, Zenon
  <2> QED
    BY <2>1, <2>2, Zenon
<1>5. PICK p : p = sign \o zs
  OBVIOUS
<1>6. /\ p \o s \in Seq(B) /\ Len(p \o s) = (m + z) + n
      /\ \A i \in 1 .. (m + z) + n : (p \o s)[i] = IF i <= m + z THEN p[i] ELSE s[i - (m + z)]
  <2>1. p \in Seq(B) /\ Len(p) = m + z
    BY <1>4, <1>5
  <2> HIDE DEF B
  <2>2. /\ p \o s \in Seq(B) /\ Len(p \o s) = Len(p) + Len(s)
        /\ \A i \in 1 .. Len(p) + Len(s) :
             (p \o s)[i] = IF i <= Len(p) THEN p[i] ELSE s[i - Len(p)]
    BY <1>3, <2>1, ConcatProperties, Zenon
  <2> QED
    BY <2>1, <2>2, Zenon
<1>7. PICK text : text = p \o s /\ text = sign \o Zeros(z) \o s
  BY <1>5 DEF zs
<1> HIDE DEF m, n, B
<1>8. \A i \in 1 .. m : text[i] = sign[i]
  <2>1. \A i \in 1 .. m : i \in 1 .. (m + z) + n /\ i \in 1 .. m + z /\ i <= m + z /\ i <= m
    BY <1>1, <1>3
  <2> QED
    BY <1>4, <1>5, <1>6, <1>7, <2>1
<1>9. \A i \in 1 .. z : text[m + i] = 48
  <2>1. \A i \in 1 .. z : /\ m + i \in 1 .. (m + z) + n /\ m + i \in 1 .. m + z /\ m + i <= m + z
                          /\ ~(m + i <= m) /\ (m + i) - m = i
    BY <1>1, <1>3
  <2> QED
    <3> SUFFICES ASSUME NEW i \in 1 .. z PROVE text[m + i] = 48
      OBVIOUS
    <3>1. text[m + i] = p[m + i]
      BY <1>6, <1>7, <2>1
    <3>2. p[m + i] = zs[i]
      BY <1>4, <1>5, <2>1
    <3> QED
      BY <1>2, <3>1, <3>2
<1>10. \A i \in 1 .. n : text[(m + z) + i] = s[i]
  <2>1. \A i \in 1 .. n : /\ (m + z) + i \in 1 .. (m + z) + n
                          /\ ~((m + z) + i <= m + z) /\ ((m + z) + i) - (m + z) = i
    BY <1>1, <1>3
  <2> QED
    BY <1>6, <1>7, <2>1
<1>11. IsNumeral(text, sign, z, s)
  BY <1>1, <1>3, <1>6, <1>7, <1>8, <1>9, <1>10 DEF IsNumeral, m, n, B, String
<1> QED
  BY <1>7, <1>11, Zenon

\* A number has decimal digits; behind zeros they count it.
LEMMA DecimalType ==
  ASSUME NEW k \in Nat
  PROVE  DecimalOf(k) \in Seq(Digits) /\ Len(DecimalOf(k)) \in Nat \ {0}
<1>1. PICK f : Decimals(f, k) /\ DecimalOf(k) = f[k]
  BY DecimalIs
<1>2. k \in 0 .. k
  OBVIOUS
<1>3. f[k] \in Seq(Digits) /\ Len(f[k]) \in Nat
  BY <1>1, <1>2, LenProperties DEF Decimals
<1>4. CASE k < 10
  <2>1. f[k] = <<48 + k>>
    BY <1>1, <1>2, <1>4 DEF Decimals
  <2>2. Len(f[k]) = 1
    BY <2>1
  <2> QED
    BY <1>1, <1>3, <2>2
<1>5. CASE ~(k < 10)
  <2>1. PICK q \in Nat, r \in 0 .. 9 : q = k \div 10 /\ r = k % 10 /\ q < k
    BY <1>5, Tenth
  <2>2. q \in 0 .. k /\ 48 + r \in Digits
    BY <2>1 DEF Digits
  <2>3. f[k] = Append(f[q], 48 + r) /\ f[q] \in Seq(Digits)
    BY <1>1, <1>2, <1>5, <2>1, <2>2 DEF Decimals
  <2>4. Len(f[k]) = Len(f[q]) + 1 /\ Len(f[q]) \in Nat
    BY <2>2, <2>3, AppendProperties, LenProperties
  <2> QED
    BY <1>1, <1>3, <2>4
<1> QED
  BY <1>4, <1>5

LEMMA CountsBack ==
  ASSUME NEW d \in Seq(Digits), NEW k \in Nat, NEW z, Reads(DecimalOf(k), d, z, Len(d))
  PROVE  Magnitude(d) = k
<1>1. PICK v : Counting(v, d) /\ Magnitude(d) = v[Len(d)]
  BY MagnitudeIs
<1>2. PICK f : Decimals(f, k) /\ DecimalOf(k) = f[k]
  BY DecimalIs
<1>3. Reads(f[k], d, z, Len(d))
  BY <1>2
<1>4. v[Len(d)] = k
  BY <1>1, <1>2, <1>3, DecimalsCount
<1> QED
  BY <1>1, <1>4

LEMMA ReadsBack ==
  ASSUME NEW d \in Seq(Digits), Len(d) # 0
  PROVE  Magnitude(d) \in Nat /\ \E z : Reads(DecimalOf(Magnitude(d)), d, z, Len(d))
<1>1. PICK v : Counting(v, d) /\ Magnitude(d) = v[Len(d)]
  BY MagnitudeIs
<1>2. Magnitude(d) \in Nat
  <2>1. Len(d) \in 0 .. Len(d)
    BY LenProperties
  <2> QED
    BY <1>1, <2>1, CountingType
<1>3. PICK f : Decimals(f, Magnitude(d)) /\ DecimalOf(Magnitude(d)) = f[Magnitude(d)]
  BY <1>2, DecimalIs
<1>4. \E z : Reads(f[v[Len(d)]], d, z, Len(d))
  <2>1. Decimals(f, v[Len(d)])
    BY <1>1, <1>3
  <2> QED
    BY <1>1, <2>1, DigitsAreDecimal, Zenon
<1> QED
  BY <1>1, <1>2, <1>3, <1>4

\* The number that a sign makes of another.
Signed(sign, k) == IF sign = <<45>> THEN -k ELSE k

Numeral(sign, z, k) == sign \o Zeros(z) \o DecimalOf(k)

\* A numeral is read to its end, as its number.
LEMMA NumeralParsed ==
  ASSUME NEW sign \in Signs, NEW z \in Nat, NEW k \in Nat,
         NEW text, text = Numeral(sign, z, k)
  PROVE  /\ text \in String /\ Size(text) > 0
         /\ Stop(text) = Size(text) /\ Parsed(text) = Signed(sign, k)
         /\ \A h \in 0 .. Size(text) - 1 : Byte(text, h) \in {43, 45} \cup Digits
<1> DEFINE s == DecimalOf(k)
           m == Len(sign)
           N == Size(text)
           d == Substr(text, m, N)
<1>1. s \in Seq(Digits) /\ Len(s) \in Nat \ {0}
  BY DecimalType
<1> HIDE DEF s
<1>2. text = sign \o Zeros(z) \o s
  BY DEF Numeral, s
<1>3. /\ text \in String /\ m \in 0 .. 1 /\ N \in Nat
      /\ N = m + z + Len(s)
      /\ \A i \in 1 .. m : text[i] = sign[i]
      /\ \A i \in 1 .. z : text[m + i] = 48
      /\ \A i \in 1 .. Len(s) : text[m + z + i] = s[i]
  <2>1. /\ text \in String /\ Len(sign) \in 0 .. 1
        /\ Len(text) = Len(sign) + z + Len(s)
        /\ \A i \in 1 .. Len(sign) : text[i] = sign[i]
        /\ \A i \in 1 .. z : text[Len(sign) + i] = 48
        /\ \A i \in 1 .. Len(s) : text[Len(sign) + z + i] = s[i]
    <3>1. IsNumeral(text, sign, z, s)
      BY <1>1, <1>2, NumeralIs
    <3> QED
      BY <3>1, Zenon DEF IsNumeral
  <2>2. N \in Nat /\ N = Len(text)
    BY <2>1, SignIs DEF Size
  <2> QED
    BY <2>1, <2>2, Zenon
<1>4. N > 0 /\ m < N /\ m \in Nat
  BY <1>1, <1>3
<1>5. /\ m = 1 => sign[1] \in {43, 45} /\ (sign = <<45>> <=> sign[1] = 45)
      /\ m = 0 => sign # <<45>>
  <2>1. CASE sign = << >>
    <3>1. Len(<< >>) = 0 /\ Len(<<45>>) = 1
      OBVIOUS
    <3> QED
      BY <2>1, <3>1
  <2>2. CASE sign = <<43>>
    <3>1. Len(<<43>>) = 1 /\ <<43>>[1] = 43 /\ <<45>>[1] = 45
      OBVIOUS
    <3> QED
      BY <2>2, <3>1
  <2>3. CASE sign = <<45>>
    <3>1. Len(<<45>>) = 1 /\ <<45>>[1] = 45
      OBVIOUS
    <3> QED
      BY <2>3, <3>1
  <2> QED
    BY <2>1, <2>2, <2>3 DEF Signs
<1>6. \A i \in m + 1 .. N : text[i] \in Digits
  <2> TAKE i \in m + 1 .. N
  <2>1. CASE i <= m + z
    <3>1. i - m \in 1 .. z /\ m + (i - m) = i
      BY <1>3, <2>1
    <3>2. text[i] = 48
      BY <1>3, <3>1
    <3> QED
      BY <3>2 DEF Digits
  <2>2. CASE ~(i <= m + z)
    <3>1. i - (m + z) \in 1 .. Len(s) /\ m + z + (i - (m + z)) = i
      BY <1>1, <1>3, <2>2
    <3>2. text[i] = s[i - (m + z)]
      BY <1>3, <3>1
    <3>3. s[i - (m + z)] \in Digits
      BY <1>1, <3>1, ElementOfSeq
    <3> QED
      BY <3>2, <3>3
  <2> QED
    BY <2>1, <2>2
<1> HIDE DEF m, N
<1>7. Sign(text) = m
  <2>1. Sign(text) = IF N > 0 /\ text[1] \in {43, 45} THEN 1 ELSE 0
    BY <1>3, SignIs DEF N
  <2>2. CASE m = 1
    <3>1. text[1] = sign[1]
      BY <1>3, <2>2
    <3> QED
      BY <1>4, <1>5, <2>1, <2>2, <3>1
  <2>3. CASE m = 0
    <3>1. text[1] \in Digits
      <4>1. 1 \in m + 1 .. N
        BY <1>3, <1>4, <2>3
      <4> QED
        BY <1>6, <4>1
    <3>2. text[1] \notin {43, 45}
      BY <3>1 DEF Digits
    <3> QED
      BY <2>1, <2>3, <3>2
  <2> QED
    BY <1>3, <2>2, <2>3
<1>8. \A at \in m .. N - 1 : IsDigit(Byte(text, at))
  <2> TAKE at \in m .. N - 1
  <2>1. at + 1 \in m + 1 .. N
    BY <1>3
  <2> QED
    BY <1>6, <2>1 DEF IsDigit, Byte, Digits
<1>9. DigitsEnd(text) = N
  BY <1>3, <1>7, <1>8, DigitsEndIs DEF N
<1>10. Stop(text) = N
  BY <1>3, <1>4, <1>7, <1>9 DEF Stop
<1>11. d \in Seq(0 .. 255) /\ Len(d) = N - m /\ \A i \in 1 .. N - m : d[i] = text[m + i]
  <2>1. text \in Seq(0 .. 255) /\ m <= N /\ N <= Len(text)
    BY <1>3, <1>4 DEF String, N, Size
  <2> QED
    <3>1. IsSlice(SubSeq(text, m + 1, N), 0 .. 255, text, m, N)
      BY <1>3, <1>4, <2>1, SliceIs
    <3> QED
      BY <3>1, Zenon DEF IsSlice, Substr
<1> HIDE DEF d
<1>12. d \in Seq(Digits)
  <2>1. \A i \in 1 .. Len(d) : d[i] \in Digits
    <3>1. \A i \in 1 .. N - m : m + i \in m + 1 .. N
      BY <1>3
    <3> QED
      BY <1>6, <1>11, <3>1
  <2> QED
    BY <1>11, <2>1
<1>13. Reads(s, d, z, Len(d))
  <2>1. /\ z \in 0 .. Len(d) /\ Len(s) = Len(d) - z
        /\ \A i \in 1 .. z : i \in 1 .. N - m
        /\ \A i \in 1 .. Len(s) : z + i \in 1 .. N - m /\ m + (z + i) = m + z + i
    BY <1>1, <1>3, <1>11
  <2> QED
    <3>1. \A i \in 1 .. z : d[i] = 48
      <4>1. \A i \in 1 .. z : d[i] = text[m + i]
        BY <1>11, <2>1
      <4> QED
        BY <1>3, <4>1
    <3>2. \A i \in 1 .. Len(d) - z : s[i] = d[z + i]
      <4> SUFFICES ASSUME NEW i \in 1 .. Len(s) PROVE s[i] = d[z + i]
        BY <2>1
      <4>1. d[z + i] = text[m + (z + i)] /\ m + (z + i) = m + z + i
        BY <1>11, <2>1
      <4>2. text[m + z + i] = s[i]
        BY <1>3
      <4> QED
        BY <4>1, <4>2, Zenon
    <3> QED
      BY <1>1, <2>1, <3>1, <3>2, Zenon DEF Reads
<1>14. Magnitude(d) = k
  BY <1>12, <1>13, CountsBack DEF s
<1>15. Parsed(text) = Signed(sign, k)
  <2>1. Parsed(text) = IF m = 1 /\ text[1] = 45 THEN -k ELSE k
    <3>1. Head(text) = text[1]
      BY <1>3, <1>4, SignIs DEF N
    <3>2. Substr(text, Sign(text), DigitsEnd(text)) = d
      BY <1>7, <1>9 DEF d
    <3> QED
      BY <1>7, <1>14, <3>1, <3>2 DEF Parsed
  <2>2. CASE m = 1
    <3>1. text[1] = sign[1]
      BY <1>3, <2>2
    <3> QED
      BY <1>5, <2>1, <2>2, <3>1 DEF Signed
  <2>3. CASE m = 0
    BY <1>5, <2>1, <2>3 DEF Signed
  <2> QED
    BY <1>3, <2>2, <2>3
<1>16. \A h \in 0 .. N - 1 : Byte(text, h) \in {43, 45} \cup Digits
  <2> TAKE h \in 0 .. N - 1
  <2>1. CASE h + 1 <= m
    <3>1. h + 1 = 1 /\ m = 1
      BY <1>3, <2>1
    <3>2. text[1] = sign[1]
      BY <1>3, <3>1
    <3> QED
      BY <1>5, <3>1, <3>2 DEF Byte
  <2>2. CASE ~(h + 1 <= m)
    <3>1. h + 1 \in m + 1 .. N
      BY <1>3, <2>2
    <3> QED
      BY <1>6, <3>1 DEF Byte
  <2> QED
    BY <2>1, <2>2
<1> QED
  BY <1>3, <1>4, <1>10, <1>15, <1>16 DEF N

\* What is read to its end is a numeral.
LEMMA ParsedNumeral ==
  ASSUME NEW text \in String, text # << >>, Stop(text) = Size(text)
  PROVE  \E sign \in Signs, z \in 0 .. Size(text), k \in Nat :
           text = Numeral(sign, z, k) /\ Parsed(text) = Signed(sign, k)
<1> DEFINE N == Size(text)
           m == Sign(text)
           d == Substr(text, m, N)
<1>1. /\ text \in Seq(0 .. 255) /\ N = Len(text) /\ N \in Nat /\ N > 0 /\ Head(text) = text[1]
      /\ m \in 0 .. N /\ m \in 0 .. 1 /\ (m = 1 <=> text[1] \in {43, 45})
  BY SignIs DEF String, Size
<1>2. DigitsEnd(text) = N /\ m < N
  BY <1>1 DEF Stop
<1>3. \A i \in m + 1 .. N : text[i] \in Digits
  <2> TAKE i \in m + 1 .. N
  <2>1. i - 1 \in m .. N - 1 /\ (i - 1) + 1 = i
    BY <1>1
  <2>2. IsDigit(Byte(text, i - 1))
    BY <1>2, <2>1, DigitsEndIs
  <2> QED
    BY <2>1, <2>2 DEF IsDigit, Byte, Digits
<1>4. d \in Seq(0 .. 255) /\ Len(d) = N - m /\ \A i \in 1 .. N - m : d[i] = text[m + i]
  <2>1. m \in Nat /\ m <= N /\ N <= Len(text)
    BY <1>1
  <2> HIDE DEF m, N
  <2> QED
    <3>1. N \in Nat /\ IsSlice(SubSeq(text, m + 1, N), 0 .. 255, text, m, N)
      BY <1>1, <2>1, SliceIs
    <3> QED
      BY <3>1, Zenon DEF IsSlice, Substr
<1>5. Parsed(text) = IF m = 1 /\ text[1] = 45 THEN -Magnitude(d) ELSE Magnitude(d)
  BY <1>1, <1>2 DEF Parsed
<1> HIDE DEF d, m, N
<1>6. d \in Seq(Digits) /\ Len(d) # 0
  <2>1. \A i \in 1 .. Len(d) : d[i] \in Digits
    <3>1. \A i \in 1 .. N - m : m + i \in m + 1 .. N
      BY <1>1
    <3> QED
      BY <1>3, <1>4, <3>1
  <2> QED
    BY <1>1, <1>2, <1>4, <2>1
<1>7. PICK k, z : k \in Nat /\ k = Magnitude(d) /\ Reads(DecimalOf(k), d, z, Len(d))
  BY <1>6, ReadsBack
<1> DEFINE s == DecimalOf(k)
<1>8. s \in Seq(Digits) /\ Len(s) \in Nat \ {0}
  BY <1>7, DecimalType
<1>9. /\ z \in Nat /\ z <= N - m /\ Len(s) = (N - m) - z
      /\ \A i \in 1 .. z : d[i] = 48
      /\ \A i \in 1 .. Len(s) : s[i] = d[z + i]
  BY <1>1, <1>4, <1>7 DEF Reads
<1> HIDE DEF s
<1>10. PICK sign \in Signs : /\ Len(sign) = m
                             /\ m = 1 => text[1] = sign[1]
                             /\ sign = <<45>> <=> m = 1 /\ text[1] = 45
  <2>1. /\ Len(<< >>) = 0 /\ Len(<<43>>) = 1 /\ Len(<<45>>) = 1 /\ <<43>>[1] = 43 /\ <<45>>[1] = 45
        /\ << >> # <<45>> /\ <<43>> # <<45>>
    OBVIOUS
  <2>2. CASE m = 0
    BY <2>1, <2>2 DEF Signs
  <2>3. CASE m = 1 /\ text[1] = 43
    BY <2>1, <2>3 DEF Signs
  <2>4. CASE m = 1 /\ text[1] = 45
    BY <2>1, <2>4 DEF Signs
  <2> QED
    BY <1>1, <2>2, <2>3, <2>4
<1>11. PICK t : t = sign \o Zeros(z) \o s
  OBVIOUS
<1>12. /\ t \in String /\ Len(t) = m + z + Len(s)
       /\ \A i \in 1 .. m : t[i] = sign[i]
       /\ \A i \in 1 .. z : t[m + i] = 48
       /\ \A i \in 1 .. Len(s) : t[m + z + i] = s[i]
  <2>1. /\ t \in String
        /\ Len(t) = Len(sign) + z + Len(s)
        /\ \A i \in 1 .. Len(sign) : t[i] = sign[i]
        /\ \A i \in 1 .. z : t[Len(sign) + i] = 48
        /\ \A i \in 1 .. Len(s) : t[Len(sign) + z + i] = s[i]
    <3>1. IsNumeral(t, sign, z, s)
      BY <1>8, <1>9, <1>11, NumeralIs
    <3> QED
      BY <3>1, Zenon DEF IsNumeral
  <2> QED
    BY <1>10, <2>1, Zenon
<1>13. Len(t) = N
  BY <1>1, <1>8, <1>9, <1>12
<1>14. \A i \in 1 .. N : text[i] = t[i]
  <2> TAKE i \in 1 .. N
  <2>1. CASE i <= m
    <3>1. i = 1 /\ m = 1
      BY <1>1, <2>1
    <3> QED
      BY <1>10, <1>12, <3>1
  <2>2. CASE ~(i <= m) /\ i <= m + z
    <3>1. i - m \in 1 .. z /\ i - m \in 1 .. N - m /\ m + (i - m) = i
      BY <1>1, <1>9, <2>2
    <3>2. d[i - m] = text[i] /\ d[i - m] = 48 /\ t[i] = 48
      BY <1>4, <1>9, <1>12, <3>1
    <3> QED
      BY <3>2
  <2>3. CASE ~(i <= m + z)
    <3> DEFINE j == i - (m + z)
    <3>1. j \in 1 .. Len(s) /\ m + z + j = i /\ z + j \in 1 .. N - m /\ m + (z + j) = i
      BY <1>1, <1>8, <1>9, <2>3
    <3> HIDE DEF j
    <3>2. t[i] = s[j] /\ s[j] = d[z + j]
      <4>1. t[m + z + j] = s[j]
        BY <1>12, <3>1, Zenon
      <4>2. s[j] = d[z + j]
        BY <1>9, <3>1, Zenon
      <4> QED
        BY <3>1, <4>1, <4>2, Zenon
    <3>3. d[z + j] = text[i]
      <4>1. d[z + j] = text[m + (z + j)]
        BY <1>4, <3>1, Zenon
      <4> QED
        BY <3>1, <4>1, Zenon
    <3> QED
      BY <3>2, <3>3
  <2> QED
    BY <1>1, <1>9, <2>1, <2>2, <2>3
<1>15. text = t
  <2>1. text \in Seq(0 .. 255) /\ t \in Seq(0 .. 255) /\ Len(text) = Len(t)
        /\ \A i \in 1 .. Len(text) : text[i] = t[i]
    BY <1>1, <1>12, <1>13, <1>14 DEF String
  <2> QED
    BY <2>1, SeqEqual, Zenon
<1>16. text = Numeral(sign, z, k)
  BY <1>11, <1>15 DEF Numeral, s
<1>17. Parsed(text) = Signed(sign, k)
  BY <1>5, <1>7, <1>10 DEF Signed
<1>18. z \in 0 .. N
  BY <1>1, <1>9
<1> QED
  BY <1>7, <1>16, <1>17, <1>18 DEF N

---------------------------------------------------------------------------
(* int.                                                                    *)

\* Trimmed, a text is what of it has no spaces at its ends.
LEMMA TrimmedIs ==
  ASSUME NEW text \in String,
         NEW b \in 0 .. Size(text), NEW e \in 0 .. Size(text), b <= e, Inside(text, b, e),
         ~(b < e /\ IsSpace(Byte(text, b))), ~(e > b /\ IsSpace(Byte(text, e - 1))),
         NEW x \in 0 .. Size(text), NEW y \in 0 .. Size(text), Inside(text, x, y),
         NEW u, u = Substr(text, x, y), Size(u) > 0,
         \A h \in 0 .. Size(u) - 1 : ~IsSpace(Byte(u, h))
  PROVE  Substr(text, b, e) = u
<1> DEFINE N == Size(text)
<1>1. N \in Nat /\ text \in Seq(0 .. 255) /\ N = Len(text) /\ x \in Nat /\ y \in Nat
  BY SignIs DEF String, Size
<1>2. x < y
  <2> SUFFICES ASSUME ~(x < y) PROVE FALSE
    OBVIOUS
  <2>2. u = << >>
    BY <1>1, SubSeqEmpty DEF Substr
  <2>3. Size(u) = 0
    BY <2>2 DEF Size
  <2> QED
    BY <2>3
<1>3. Size(u) = y - x /\ \A i \in 1 .. y - x : u[i] = text[x + i]
  <2>1. IsSlice(SubSeq(text, x + 1, y), 0 .. 255, text, x, y)
    BY <1>1, <1>2, SliceIs
  <2> QED
    BY <2>1, Zenon DEF IsSlice, Substr, Size
<1> HIDE DEF N
<1>4. \A at \in x .. y - 1 : ~IsSpace(Byte(text, at))
  <2> TAKE at \in x .. y - 1
  <2>1. /\ at - x \in 0 .. Size(u) - 1 /\ (at - x) + 1 \in 1 .. y - x
        /\ x + ((at - x) + 1) = at + 1
    BY <1>1, <1>3
  <2>2. ~IsSpace(Byte(u, at - x))
    BY <2>1
  <2>3. Byte(u, at - x) = Byte(text, at)
    BY <1>3, <2>1 DEF Byte
  <2> QED
    BY <2>2, <2>3
<1>5. /\ x \in x .. y - 1 /\ y - 1 \in x .. y - 1
      /\ \A at \in x .. y - 1 : at \in 0 .. N - 1
      /\ \A at \in b .. e - 1 : at \in 0 .. N - 1
  BY <1>1, <1>2 DEF N
<1>6. x \in b .. e - 1 /\ y - 1 \in b .. e - 1
  BY <1>4, <1>5 DEF Inside, N
<1>7. b < e /\ b \in b .. e - 1 /\ e - 1 \in b .. e - 1
  BY <1>6
<1>8. ~IsSpace(Byte(text, b)) /\ ~IsSpace(Byte(text, e - 1))
  BY <1>7
<1>9. b \in x .. y - 1 /\ e - 1 \in x .. y - 1
  BY <1>5, <1>7, <1>8 DEF Inside, N
<1>10. b = x /\ e = y
  BY <1>1, <1>6, <1>9
<1> QED
  BY <1>10

\* What trimming has dropped so far is spaces at the ends.
Trimming ==
  Calling({"trim", "int"}) => begin + cut <= Size(Arg(1)) /\ Inside(Arg(1), begin, End)

\* Only their own actions run trim and int.
LEMMA TrimActions ==
  ASSUME Progress, Next
  PROVE  /\ Calling({"trim", "int"}) => TrimFront \/ TrimBehind \/ TrimDone \/ ParseInt
         /\ Calling({"int"}) => TrimFront \/ TrimBehind \/ ParseInt
<1>1. ASSUME NEW names, Calling(names) PROVE ~Ended
  BY <1>1, CallTyped DEF Ended, Calling
<1> QED
  BY <1>1 DEF Next, Calling, SplitIntoBytes, SplitAtHit, SplitRest, ReplaceNothing, ReplaceAtHit,
     ReplaceRest, Join, FindText, ChangeCase, TrimFront, TrimBehind, TrimDone, ParseInt, Chr, Ord,
     InputLine, InputRest, InputNothing, Eof, RepeatRefused, Repeat, RandInt, RandIntUndefined

\* The text of a call of trim or int.
LEMMA TrimTyped ==
  ASSUME Progress, Calling({"trim", "int"})
  PROVE  Arg(1) \in String /\ Size(Arg(1)) \in Nat /\ begin \in Nat /\ cut \in Nat
<1>1. Arg(1) \in String
  BY CallTyped DEF Typed, Arg, Calling
<1> QED
  BY <1>1, SignIs DEF Progress

LEMMA TrimmingStep ==
  ASSUME Progress, Trimming, [Next]_vars
  PROVE  Trimming'
<1>1. CASE Answers
  <2>1. begin' = 0 /\ cut' = 0
    BY <1>1 DEF Answers, Gives
  <2>2. ASSUME Calling({"trim", "int"})'
        PROVE  Size(Arg(1))' \in Nat
    BY <2>2, ProgressStep, CallTyped DEF Size, Typed, Arg, Calling, Call, String
  <2> QED
    BY <2>1, <2>2 DEF Trimming, Inside, End
<1>2. CASE Ends
  BY <1>2 DEF Ends, Trimming, Calling
<1>3. CASE UNCHANGED vars
  BY <1>3 DEF vars, loop, Trimming, Calling, Arg, Call, End, Inside
<1>4. ASSUME Turns, Next, Calling({"trim", "int"})'
      PROVE  Trimming'
  <2>1. Calling({"trim", "int"}) /\ Arg(1)' = Arg(1)
    BY <1>4 DEF Turns, Calling, Call, Arg
  <2> DEFINE text == Arg(1)
             N == Size(text)
  <2>2. text \in String /\ N \in Nat /\ begin \in Nat /\ cut \in Nat /\ text' = text
    BY <2>1, TrimTyped
  <2>3. begin + cut <= N /\ Inside(text, begin, N - cut)
    BY <2>1 DEF Trimming, End
  <2>4. TrimFront \/ TrimBehind
    <3>1. ~TrimDone /\ ~ParseInt
      BY <1>4, AppendIsNew DEF TrimDone, ParseInt, Fails, Stops, Returns, Gives, Turns, Calling,
         Progress
    <3> QED
      BY <1>4, <2>1, <3>1, TrimActions
  <2>5. \A at \in 0 .. N - 1 : at \notin begin .. (N - cut) - 1 => IsSpace(Byte(text, at))
    BY <2>3 DEF Inside
  <2>6. CASE TrimFront
    <3>1. begin < N - cut /\ IsSpace(Byte(text, begin)) /\ begin' = begin + 1 /\ cut' = cut
      BY <2>6 DEF TrimFront, SpaceInFront, End
    <3>2. \A at \in 0 .. N - 1 : at \notin begin + 1 .. (N - cut) - 1
                                   => at \notin begin .. (N - cut) - 1 \/ at = begin
      BY <2>2
    <3>3. Inside(text, begin + 1, N - cut)
      BY <2>5, <3>1, <3>2, Zenon DEF Inside
    <3>4. (begin + 1) + cut <= N
      BY <2>2, <3>1
    <3> QED
      BY <2>1, <3>1, <3>3, <3>4 DEF Trimming, End, Inside, Size, Byte
  <2>7. CASE TrimBehind
    <3>1. N - cut > begin /\ IsSpace(Byte(text, (N - cut) - 1)) /\ begin' = begin /\ cut' = cut + 1
      BY <2>7 DEF TrimBehind, SpaceBehind, End
    <3>2. \A at \in 0 .. N - 1 : at \notin begin .. (N - (cut + 1)) - 1
                                   => at \notin begin .. (N - cut) - 1 \/ at = (N - cut) - 1
      BY <2>2
    <3>3. Inside(text, begin, N - (cut + 1))
      BY <2>5, <3>1, <3>2, Zenon DEF Inside
    <3>4. begin + (cut + 1) <= N
      BY <2>2, <3>1
    <3> QED
      BY <2>1, <3>1, <3>3, <3>4 DEF Trimming, End, Inside, Size, Byte
  <2> QED
    BY <2>4, <2>6, <2>7
<1> QED
  BY <1>1, <1>2, <1>3, <1>4, NextIs DEF Trimming

\* A number that int gives is written in its text.
LEMMA IntGives ==
  ASSUME Progress, Trimming, Calling({"int"}), ParseInt, NEW v, Gives(v),
         NoHit(Arg(1), << 0 >>, 0)
  PROVE  Written(Arg(1), v)
<1> DEFINE text == Arg(1)
           N == Size(text)
           t == Trimmed
<1>1. /\ text \in String /\ N \in Nat /\ begin \in Nat /\ cut \in Nat
      /\ begin + cut <= N /\ Inside(text, begin, End)
  BY TrimTyped DEF Trimming, Calling
<1>2. PICK e \in 0 .. N : e = End /\ begin <= e /\ begin \in 0 .. N
  <2>1. N - cut \in 0 .. N /\ begin <= N - cut /\ begin \in 0 .. N
    BY <1>1
  <2> QED
    BY <2>1 DEF End
<1>3. t = Substr(text, begin, e)
  BY <1>2 DEF Trimmed
<1>4. t \in Seq(0 .. 255) /\ Len(t) = e - begin /\ \A i \in 1 .. e - begin : t[i] = text[begin + i]
  <2>1. text \in Seq(0 .. 255) /\ e \in Nat /\ e <= Len(text)
    BY <1>1, <1>2 DEF String, Size
  <2>2. IsSlice(SubSeq(text, begin + 1, e), 0 .. 255, text, begin, e)
    BY <1>1, <1>2, <2>1, SliceIs
  <2> QED
    BY <1>3, <2>2, Zenon DEF IsSlice, Substr
<1>5. /\ ~SpaceInFront /\ ~SpaceBehind
      /\ LET s == CString(t)
         IN IF t = << >> \/ Stop(s) # Size(s) THEN Fails
             ELSE IF Stop(s) = 0 THEN Returns(0)
             ELSE IF Parsed(s) \notin IntRange THEN Fails ELSE Returns(Parsed(s))
  BY DEF ParseInt
<1> HIDE DEF t, text, N
<1>6. t \in String /\ Size(t) = e - begin
  BY <1>4 DEF String, Size
<1>7. \A h \in 0 .. Size(t) - 1 : Byte(t, h) # 0
  <2> SUFFICES ASSUME NEW h \in 0 .. Size(t) - 1 PROVE Byte(t, h) # 0
    OBVIOUS
  <2>1. h + 1 \in 1 .. e - begin /\ begin + h \in 0 .. N - 1 /\ begin + (h + 1) = (begin + h) + 1
    BY <1>1, <1>2, <1>6
  <2>2. Byte(t, h) = Byte(text, begin + h)
    BY <1>4, <2>1 DEF Byte
  <2>3. \A at \in 0 .. N - 1 : Byte(text, at) # 0
    BY <1>1, ByteHits DEF NoHit, N, text
  <2> QED
    BY <2>1, <2>2, <2>3
<1>8. CString(t) = t
  BY <1>6, <1>7, CStringIs
<1>9. ~Fails
  BY AppendIsNew DEF Fails, Stops, Gives, Progress
<1>10. t # << >> /\ Stop(t) = Size(t) /\ Size(t) > 0
  BY <1>5, <1>6, <1>8, <1>9, SignIs
<1>11. Gives(Parsed(t))
  BY <1>5, <1>8, <1>9, <1>10 DEF Returns
<1>12. v = Parsed(t)
  <2>1. results' = Append(results, v) /\ results' = Append(results, Parsed(t)) /\ IsSequence(results)
    BY <1>11 DEF Gives, Progress
  <2>2. /\ Append(results, v)[Len(results) + 1] = v
        /\ Append(results, Parsed(t))[Len(results) + 1] = Parsed(t)
    BY <2>1, AppendIsNew, Zenon
  <2> QED
    BY <2>1, <2>2, Zenon
<1>13. PICK sign \in Signs, z \in 0 .. Size(t), k \in Nat :
         t = Numeral(sign, z, k) /\ Parsed(t) = Signed(sign, k)
  BY <1>6, <1>10, ParsedNumeral
<1>14. PICK n \in Int : n = v /\ n = Signed(sign, k)
  BY <1>12, <1>13 DEF Signed
<1>15. /\ (IF n < 0 THEN -n ELSE n) = k
       /\ sign \in IF n = 0 THEN { << >>, <<43>>, <<45>> }
                    ELSE IF n > 0 THEN { << >>, <<43>> } ELSE {<<45>>}
  BY <1>14 DEF Signed, Signs
<1>16. z \in 0 .. N
  BY <1>1, <1>2, <1>6
<1>17. Substr(text, begin, e) =
         sign \o [i \in 1 .. z |-> 48] \o DecimalOf(IF n < 0 THEN -n ELSE n)
  BY <1>3, <1>13, <1>15 DEF Numeral, Zeros
<1>18. Inside(text, begin, e)
  BY <1>1, <1>2
<1>19. Written(text, n)
  <2>1. begin \in 0 .. N /\ e \in 0 .. N
    BY <1>2
  <2> QED
    BY <1>15, <1>16, <1>17, <1>18, <2>1, Zenon DEF Written, N
<1> QED
  BY <1>14, <1>19 DEF text

\* int refuses no text that a number which fits is written in.
LEMMA IntFails ==
  ASSUME Progress, Trimming, Calling({"int"}), ParseInt, Fails, NEW n \in IntRange
  PROVE  ~Written(Arg(1), n)
<1> DEFINE text == Arg(1)
           N == Size(text)
<1> SUFFICES ASSUME Written(text, n) PROVE FALSE
  OBVIOUS
<1>1. /\ text \in String /\ N \in Nat /\ begin \in Nat /\ cut \in Nat
      /\ begin + cut <= N /\ Inside(text, begin, End) /\ n \in Int
  BY TrimTyped, WordsType DEF Trimming, Calling, IntRange
<1>2. PICK e \in 0 .. N : e = End /\ begin <= e /\ begin \in 0 .. N
  <2>1. N - cut \in 0 .. N /\ begin <= N - cut /\ begin \in 0 .. N
    BY <1>1
  <2> QED
    BY <2>1 DEF End
<1>3. PICK x \in 0 .. N, y \in 0 .. N, z \in 0 .. N :
        \E sign \in IF n = 0 THEN { << >>, <<43>>, <<45>> }
                     ELSE IF n > 0 THEN { << >>, <<43>> } ELSE {<<45>>} :
          /\ Inside(text, x, y)
          /\ Substr(text, x, y) =
               sign \o [i \in 1 .. z |-> 48] \o DecimalOf(IF n < 0 THEN -n ELSE n)
  BY DEF Written
<1>4. PICK sign \in IF n = 0 THEN { << >>, <<43>>, <<45>> }
                     ELSE IF n > 0 THEN { << >>, <<43>> } ELSE {<<45>>} :
          /\ Inside(text, x, y)
          /\ Substr(text, x, y) =
               sign \o [i \in 1 .. z |-> 48] \o DecimalOf(IF n < 0 THEN -n ELSE n)
  BY <1>3
<1>5. PICK k \in Nat : k = IF n < 0 THEN -n ELSE n
  BY <1>1
<1>6. sign \in Signs /\ Signed(sign, k) = n
  <2>1. << >> # <<45>> /\ <<43>> # <<45>>
    OBVIOUS
  <2>2. CASE n < 0
    <3>1. sign = <<45>> /\ -k = n
      BY <1>1, <1>4, <1>5, <2>2
    <3> QED
      BY <3>1 DEF Signed, Signs
  <2>3. CASE n = 0
    <3>1. sign \in { << >>, <<43>>, <<45>> } /\ k = 0 /\ -k = 0 /\ n = 0
      <4>1. k = n
        BY <1>5, <2>3
      <4>2. sign \in { << >>, <<43>>, <<45>> }
        BY <1>4, <2>3, Zenon
      <4>3. k = 0 /\ -k = 0
        <5>1. k = 0
          BY <2>3, <4>1, Zenon
        <5>2. k \in Int
          OBVIOUS
        <5> QED
          BY <5>1, <5>2, ZeroHasNoSign, Zenon
      <4> QED
        BY <2>3, <4>1, <4>2, <4>3, Zenon
    <3> QED
      BY <3>1, Zenon DEF Signed, Signs
  <2>4. CASE n > 0
    <3>1. sign \in { << >>, <<43>> } /\ k = n
      BY <1>1, <1>4, <1>5, <2>4
    <3> QED
      BY <2>1, <3>1, Zenon DEF Signed, Signs
  <2> QED
    BY <1>1, <2>2, <2>3, <2>4
<1>7. PICK u : u = Substr(text, x, y) /\ u = Numeral(sign, z, k)
  BY <1>4, <1>5 DEF Numeral, Zeros
<1>8. /\ u \in String /\ Size(u) > 0 /\ Stop(u) = Size(u) /\ Parsed(u) = n
      /\ \A h \in 0 .. Size(u) - 1 : Byte(u, h) \in {43, 45} \cup Digits
  <2>1. z \in Nat
    BY <1>1
  <2> QED
    BY <1>6, <1>7, <2>1, NumeralParsed
<1>9. \A h \in 0 .. Size(u) - 1 : Byte(u, h) # 0 /\ ~IsSpace(Byte(u, h))
  <2>1. \A b \in {43, 45} \cup Digits : b # 0 /\ ~IsSpace(b)
    BY DEF Digits, IsSpace
  <2> QED
    BY <1>8, <2>1
<1>10. CString(u) = u
  BY <1>8, <1>9, CStringIs
<1>11. /\ ~(begin < e /\ IsSpace(Byte(text, begin))) /\ ~(e > begin /\ IsSpace(Byte(text, e - 1)))
  BY <1>2 DEF ParseInt, SpaceInFront, SpaceBehind
<1>12. Inside(text, begin, e)
  BY <1>1, <1>2
<1>13. Trimmed = u
  <2>1. /\ text \in String /\ begin \in 0 .. Size(text) /\ e \in 0 .. Size(text) /\ begin <= e
        /\ x \in 0 .. Size(text) /\ y \in 0 .. Size(text)
    BY <1>1, <1>2
  <2>2. /\ u = Substr(text, x, y) /\ Size(u) > 0 /\ Inside(text, x, y) /\ Inside(text, begin, e)
        /\ \A h \in 0 .. Size(u) - 1 : ~IsSpace(Byte(u, h))
    BY <1>4, <1>7, <1>8, <1>9, <1>12
  <2>3. Substr(text, begin, e) = u
    <3> HIDE DEF text
    <3> QED
      BY <1>11, <2>1, <2>2, TrimmedIs, Zenon
  <2> QED
    BY <1>2, <2>3 DEF Trimmed
<1>14. u # << >> /\ Stop(u) # 0
  BY <1>8, SignIs
<1>15. Returns(n)
  BY <1>8, <1>10, <1>13, <1>14 DEF ParseInt
<1> QED
  BY <1>15, AppendIsNew DEF Returns, Gives, Fails, Stops, Progress

LEMMA NumbersStep ==
  ASSUME Progress, Trimming, NumbersAsWritten, [Next]_vars
  PROVE  NumbersAsWritten'
<1> DEFINE Text(i) == run.calls[i].args[1]
           Read(i, value) == NoHit(Text(i), << 0 >>, 0) => Written(Text(i), value)
           Unwritten(i) == \A n \in IntRange : ~Written(Text(i), n)
<1>1. /\ \A i \in DOMAIN run.calls : Returned(i, "int") => Read(i, results[i])
      /\ \A i \in DOMAIN run.calls : Failed(i, "int") => Unwritten(i)
  BY Zenon DEF NumbersAsWritten
<1>2. ASSUME run' = run,
             \A i \in DOMAIN run.calls : Returned(i, "int")' => Read(i, results'[i]),
             \A i \in DOMAIN run.calls : Failed(i, "int")' => Unwritten(i)
      PROVE  NumbersAsWritten'
  BY <1>2, Zenon DEF NumbersAsWritten
<1> HIDE DEF Read, Unwritten
<1>3. CASE Ended \/ Turns \/ UNCHANGED vars
  <2>1. run' = run /\ results' = results /\ status' = status
    BY <1>3 DEF Ended, Turns, vars
  <2> QED
    BY <1>1, <1>2, <2>1, Zenon DEF Returned, Failed
<1>4. CASE Answers /\ Next
  <2> DEFINE k == Len(results) + 1
  <2>1. PICK v : Gives(v)
    BY <1>4 DEF Answers
  <2>2. /\ Len(results) \in Nat /\ DOMAIN results = 1 .. Len(results)
        /\ DOMAIN results' = 1 .. k /\ run' = run /\ status' = status /\ status = "running"
        /\ results'[k] = v /\ \A i \in 1 .. Len(results) : results'[i] = results[i]
    BY <1>4, <2>1, AppendIsNew DEF Gives, Progress, IsSequence, Answers
  <2>3. ASSUME run.calls[k].name = "int"
        PROVE  Read(k, v)
    <3>1. Calling({"int"})
      BY <1>4, <2>3 DEF Answers, Calling, Call
    <3>2. ParseInt
      <4>1. results' # results
        BY <2>1, AppendIsNew DEF Gives, Progress
      <4> QED
        BY <1>4, <3>1, <4>1, TrimActions DEF TrimFront, TrimBehind, Turn
    <3>3. Arg(1) = Text(k)
      BY DEF Arg, Call
    <3> QED
      BY <2>1, <3>1, <3>2, <3>3, IntGives, Zenon DEF Read
  <2>4. ASSUME NEW i \in DOMAIN run.calls, Returned(i, "int")'
        PROVE  Read(i, results'[i])
    <3>1. i \in 1 .. k /\ run.calls[i].name = "int"
      BY <2>2, <2>4 DEF Returned
    <3>2. CASE i = k
      BY <2>2, <2>3, <3>1, <3>2, Zenon
    <3>3. CASE i # k
      <4>1. i \in 1 .. Len(results)
        BY <2>2, <3>1, <3>3
      <4> QED
        BY <1>1, <2>2, <3>1, <4>1, Zenon DEF Returned
    <3> QED
      BY <3>2, <3>3
  <2>5. ASSUME NEW i \in DOMAIN run.calls, Failed(i, "int")'
        PROVE  Unwritten(i)
    BY <2>2, <2>5 DEF Failed
  <2> QED
    BY <1>2, <2>2, <2>4, <2>5, Zenon
<1>5. CASE Ends /\ Next
  <2>1. run' = run /\ results' = results /\ status = "running" /\ status' # status
    BY <1>5 DEF Ends
  <2>2. ASSUME NEW i \in DOMAIN run.calls, Failed(i, "int")'
        PROVE  Unwritten(i)
    <3>1. i = Len(results) + 1 /\ run.calls[i].name = "int" /\ status' = "failed"
      BY <2>1, <2>2 DEF Failed
    <3>2. Calling({"int"})
      <4>1. Len(results) < Len(run.calls)
        BY <1>5 DEF Ends
      <4> QED
        BY <2>1, <3>1, <4>1 DEF Calling, Call
    <3>3. ParseInt
      BY <1>5, <2>1, <3>2, TrimActions DEF TrimFront, TrimBehind, Turn
    <3>4. Fails
      <4>1. ASSUME NEW w, Returns(w) PROVE FALSE
        BY <2>1, <4>1, AppendIsNew DEF Returns, Gives, Progress
      <4> QED
        BY <3>3, <4>1, Zenon DEF ParseInt
    <3>5. Arg(1) = Text(i)
      BY <3>1 DEF Arg, Call
    <3> QED
      BY <3>2, <3>3, <3>4, <3>5, IntFails, Zenon DEF Unwritten
  <2>3. ASSUME NEW i \in DOMAIN run.calls, Returned(i, "int")'
        PROVE  Read(i, results'[i])
    BY <1>1, <2>1, <2>3, Zenon DEF Returned
  <2> QED
    BY <1>2, <2>1, <2>2, <2>3, Zenon
<1> QED
  BY <1>3, <1>4, <1>5, NextIs, Zenon

\* int reads numbers as they are written: for every width of `int` and every text,
\* it gives the number that a sign, zeros and decimal digits between spaces are, and
\* it fails on no text that is one which fits. Only what is behind a NUL it ignores.
THEOREM IntReadsNumbers == Spec => []NumbersAsWritten
<1>1. Init => Progress /\ Trimming /\ NumbersAsWritten
  <2> SUFFICES ASSUME Init PROVE Progress /\ Trimming /\ NumbersAsWritten
    OBVIOUS
  <2>1. Progress /\ DOMAIN results = {} /\ status = "running" /\ begin = 0 /\ cut = 0
    BY DEF Init, Progress, IsSequence
  <2>2. Trimming
    BY <2>1, TrimTyped DEF Trimming, Inside, End
  <2>3. NumbersAsWritten
    BY <2>1 DEF NumbersAsWritten, Returned, Failed
  <2> QED
    BY <2>1, <2>2, <2>3
<1>2. Progress /\ Trimming /\ NumbersAsWritten /\ [Next]_vars
        => (Progress /\ Trimming /\ NumbersAsWritten)'
  BY ProgressStep, TrimmingStep, NumbersStep
<1> QED
  BY <1>1, <1>2, PTL DEF Spec

---------------------------------------------------------------------------
(* Pieces of text put together.                                            *)

\* F has what the first pieces of p, one after another, are.
Flattens(F, p, n) == F[0] = << >> /\ \A i \in 1 .. n : F[i] = F[i - 1] \o p[i]

LEMMA FlattenIs ==
  ASSUME NEW S, NEW p \in Seq(Seq(S))
  PROVE  \E F : /\ Flattens(F, p, Len(p)) /\ FlattenSeq(p) = F[Len(p)]
                /\ \A i \in 0 .. Len(p) : F[i] \in Seq(S)
<1>0. PICK n \in Nat : n = Len(p)
  BY LenProperties
<1>1. \A i \in 1 .. n : p[i] \in Seq(S)
  BY <1>0, ElementOfSeq
<1>2. CASE n = 0
  <2>1. p = << >>
    BY <1>0, <1>2, EmptySeq
  <2>2. FlattenSeq(p) = << >>
    BY <1>0, <1>2, <2>1 DEF FlattenSeq
  <2>3. PICK F : F = [i \in {0} |-> << >>]
    OBVIOUS
  <2>4. F[0] = << >> /\ 1 .. 0 = {} /\ 0 .. 0 = {0}
    BY <2>3
  <2>5. << >> \in Seq(S)
    OBVIOUS
  <2>6. Flattens(F, p, Len(p)) /\ FlattenSeq(p) = F[Len(p)]
    <3>1. Len(p) = 0
      BY <1>0, <1>2
    <3> QED
      BY <2>2, <2>4, <3>1, Zenon DEF Flattens
  <2>7. \A i \in 0 .. Len(p) : F[i] \in Seq(S)
    <3>1. \A i \in 0 .. Len(p) : i = 0
      BY <1>0, <1>2
    <3> QED
      BY <2>4, <2>5, <3>1
  <2> QED
    BY <2>6, <2>7
<1>3. CASE n # 0
  <2> DEFINE Turned(f, i) == IF i = 1 THEN p[i] ELSE f[i - 1] \o p[i]
             Body(f) == [i \in 1 .. n |-> Turned(f, i)]
             C == CHOOSE f : f = Body(f)
             Has(m) == \E f : \A i \in 1 .. m : f[i] = Turned(f, i)
             Exist == { m \in 0 .. n : Has(m) }
  <2>1. FlattenSeq(p) = C[n]
    BY <1>0, <1>3 DEF FlattenSeq
  <2>2. 0 \in Exist
    OBVIOUS
  <2>3. ASSUME NEW m \in 0 .. n - 1, m \in Exist
        PROVE  m + 1 \in Exist
    <3>1. PICK g : \A i \in 1 .. m : g[i] = Turned(g, i)
      BY <2>3
    <3>2. PICK b : b = Turned(g, m + 1)
      OBVIOUS
    <3>3. PICK f : f = [i \in 1 .. m + 1 |-> IF i = m + 1 THEN b ELSE g[i]]
      OBVIOUS
    <3>4. \A i \in 1 .. m : f[i] = g[i]
      BY <3>3
    <3>5. f[m + 1] = b
      BY <3>3
    <3>6. \A i \in 1 .. m + 1 : Turned(f, i) = Turned(g, i)
      BY <3>4
    <3>7. ASSUME NEW i \in 1 .. m + 1
          PROVE  f[i] = Turned(f, i)
      <4> HIDE DEF Turned
      <4>1. i \in 1 .. m \/ i = m + 1
        OBVIOUS
      <4> QED
        BY <3>1, <3>2, <3>4, <3>5, <3>6, <4>1
    <3>8. Has(m + 1)
      BY <3>7, Zenon
    <3>9. m + 1 \in 0 .. n
      OBVIOUS
    <3> HIDE DEF Has
    <3> QED
      BY <3>8, <3>9
  <2>4. Has(n)
    <3> HIDE DEF Has
    <3>1. \A m \in 0 .. n - 1 : m \in Exist => m + 1 \in Exist
      BY <2>3
    <3>2. n \in 0 .. n
      OBVIOUS
    <3> HIDE DEF Exist
    <3>3. n \in Exist
      BY <2>2, <3>1, <3>2, UpTo
    <3> QED
      BY <3>3 DEF Exist
  <2>5. \E f : f = Body(f)
    <3>1. PICK g : \A i \in 1 .. n : g[i] = Turned(g, i)
      BY <2>4
    <3>2. PICK f : f = [i \in 1 .. n |-> g[i]]
      OBVIOUS
    <3>3. ASSUME NEW i \in 1 .. n
          PROVE  f[i] = Turned(f, i)
      <4>1. Turned(f, i) = Turned(g, i)
        BY <3>2
      <4> HIDE DEF Turned
      <4> QED
        BY <3>1, <3>2, <4>1
    <3>4. f = Body(f)
      <4>1. f = [i \in 1 .. n |-> f[i]]
        BY <3>2
      <4> HIDE DEF Turned
      <4> QED
        BY <3>3, <4>1, Zenon
    <3> QED
      BY <3>4, Zenon
  <2>6. PICK f : f = C /\ f = Body(f)
    <3> HIDE DEF Body
    <3> QED
      BY <2>5, Zenon
  <2>7. \A i \in 1 .. n : f[i] = Turned(f, i)
    <3> HIDE DEF C, Turned
    <3> QED
      BY <2>6
  <2> HIDE DEF C, Body
  <2>8. PICK F : F = [i \in 0 .. n |-> IF i = 0 THEN << >> ELSE f[i]]
    OBVIOUS
  <2>9. F[0] = << >> /\ \A i \in 1 .. n : F[i] = f[i]
    BY <2>8
  <2>10. ASSUME NEW i \in 1 .. n
         PROVE  F[i] = F[i - 1] \o p[i]
    <3>1. CASE i = 1
      <4>1. F[i] = p[i] /\ F[i - 1] = << >> /\ p[i] \in Seq(S)
        BY <1>1, <2>7, <2>9, <3>1
      <4> QED
        BY <4>1, ConcatEmptySeq
    <3>2. CASE i # 1
      <4>1. i - 1 \in 1 .. n
        BY <3>2
      <4> QED
        BY <2>7, <2>9, <3>2, <4>1
    <3> QED
      BY <3>1, <3>2
  <2>11. Flattens(F, p, n)
    BY <2>9, <2>10 DEF Flattens
  <2> DEFINE Good == { i \in 0 .. n : F[i] \in Seq(S) }
  <2>12. 0 \in Good
    <3>1. << >> \in Seq(S) /\ 0 \in 0 .. n
      OBVIOUS
    <3> QED
      BY <2>9, <3>1
  <2>13. ASSUME NEW i \in 0 .. n - 1, i \in Good
         PROVE  i + 1 \in Good
    <3>1. i + 1 \in 1 .. n /\ (i + 1) - 1 = i /\ i + 1 \in 0 .. n
      OBVIOUS
    <3>2. F[i + 1] = F[i] \o p[i + 1] /\ p[i + 1] \in Seq(S) /\ F[i] \in Seq(S)
      BY <1>1, <2>10, <2>13, <3>1
    <3>3. F[i + 1] \in Seq(S)
      BY <3>2, ConcatProperties
    <3> QED
      BY <3>1, <3>3
  <2> HIDE DEF Good
  <2>14. \A i \in 0 .. n : i \in Good
    BY <2>12, <2>13, UpTo
  <2>15. FlattenSeq(p) = F[n]
    BY <1>3, <2>1, <2>6, <2>9
  <2> QED
    BY <1>0, <2>11, <2>14, <2>15 DEF Good
<1> QED
  BY <1>2, <1>3

\* The first pieces tell what they are put together.
LEMMA FlattensAgree ==
  ASSUME NEW n \in Nat, NEW F, NEW p, Flattens(F, p, n),
         NEW G, NEW q, Flattens(G, q, n), SaysWhat(n, p, 0, q, 0)
  PROVE  F[n] = G[n]
<1> DEFINE Good == { i \in 0 .. n : F[i] = G[i] }
<1>1. 0 \in Good
  BY DEF Flattens
<1>2. ASSUME NEW i \in 0 .. n - 1, i \in Good
      PROVE  i + 1 \in Good
  <2>1. i + 1 \in 1 .. n /\ (i + 1) - 1 = i /\ i + 1 \in 0 .. n
    OBVIOUS
  <2>2. F[i + 1] = F[i] \o p[i + 1] /\ G[i + 1] = G[i] \o q[i + 1]
    BY <2>1 DEF Flattens
  <2>3. p[i + 1] = q[i + 1]
    <3>1. 0 + (i + 1) = i + 1
      OBVIOUS
    <3> QED
      BY <2>1, <3>1, Zenon DEF SaysWhat
  <2> QED
    BY <1>2, <2>1, <2>2, <2>3
<1>3. n \in 0 .. n
  OBVIOUS
<1> HIDE DEF Good
<1>4. n \in Good
  BY <1>1, <1>2, <1>3, UpTo
<1> QED
  BY <1>4 DEF Good

\* The first n pieces of p, put together.
First(p, n) == FlattenSeq(SubSeq(p, 1, n))

LEMMA FirstIs ==
  ASSUME NEW S, NEW p \in Seq(Seq(S))
  PROVE  /\ Len(p) \in Nat
         /\ First(p, 0) = << >> /\ First(p, Len(p)) = FlattenSeq(p)
         /\ \A n \in 0 .. Len(p) : First(p, n) \in Seq(S)
         /\ \A n \in 0 .. Len(p) - 1 : First(p, n + 1) = First(p, n) \o p[n + 1]
<1>1. PICK F : /\ Flattens(F, p, Len(p)) /\ FlattenSeq(p) = F[Len(p)]
               /\ \A i \in 0 .. Len(p) : F[i] \in Seq(S)
  BY FlattenIs
<1>2. PICK N \in Nat : N = Len(p)
  BY LenProperties
<1>3. ASSUME NEW n \in 0 .. N
      PROVE  First(p, n) = F[n]
  <2> DEFINE q == SubSeq(p, 0 + 1, n)
  <2>1. IsSlice(q, Seq(S), p, 0, n)
    BY <1>2, SliceIs
  <2> HIDE DEF q
  <2>2. q \in Seq(Seq(S)) /\ Len(q) = n /\ \A i \in 1 .. n : p[i] = q[i]
    BY <2>1 DEF IsSlice
  <2>3. PICK G : Flattens(G, q, n) /\ FlattenSeq(q) = G[n]
    BY <2>2, FlattenIs
  <2>4. Flattens(F, p, n)
    <3>1. \A i \in 1 .. n : i \in 1 .. N
      OBVIOUS
    <3>2. Flattens(F, p, N)
      BY <1>1, <1>2
    <3> QED
      BY <3>1, <3>2, Zenon DEF Flattens
  <2>5. F[n] = G[n]
    <3>1. n \in Nat
      OBVIOUS
    <3>2. SaysWhat(n, p, 0, q, 0)
      BY <2>2 DEF SaysWhat
    <3> QED
      BY <2>3, <2>4, <3>1, <3>2, FlattensAgree
  <2>6. First(p, n) = FlattenSeq(q)
    BY DEF First, q
  <2> QED
    BY <2>3, <2>5, <2>6
<1>4. ASSUME NEW n \in 0 .. N - 1
      PROVE  First(p, n + 1) = First(p, n) \o p[n + 1]
  <2>1. n \in 0 .. N /\ n + 1 \in 0 .. N /\ n + 1 \in 1 .. N /\ (n + 1) - 1 = n
    OBVIOUS
  <2>2. F[n + 1] = F[n] \o p[n + 1]
    BY <1>1, <1>2, <2>1 DEF Flattens
  <2> QED
    BY <1>3, <2>1, <2>2
<1>5. 0 \in 0 .. N /\ N \in 0 .. N
  OBVIOUS
<1> QED
  BY <1>1, <1>2, <1>3, <1>4, <1>5 DEF Flattens

\* Of texts, they are a text.
LEMMA FirstTexts ==
  ASSUME NEW p \in Seq(String)
  PROVE  /\ Len(p) \in Nat /\ \A i \in 1 .. Len(p) : p[i] \in String
         /\ First(p, 0) = << >> /\ First(p, Len(p)) = FlattenSeq(p)
         /\ \A n \in 0 .. Len(p) : First(p, n) \in String
         /\ \A n \in 0 .. Len(p) - 1 : First(p, n + 1) = First(p, n) \o p[n + 1]
<1>1. PICK S : S = 0 .. 255
  OBVIOUS
<1>2. String = Seq(S)
  BY <1>1 DEF String
<1>3. p \in Seq(Seq(S))
  BY <1>2
<1>4. \A i \in 1 .. Len(p) : p[i] \in String
  BY ElementOfSeq
<1> QED
  BY <1>2, <1>3, <1>4, FirstIs

LEMMA NothingInFront ==
  ASSUME NEW x \in String
  PROVE  << >> \o x = x /\ x \o << >> = x
  BY ConcatEmptySeq DEF String

\* Texts are put together in any order.
LEMMA TextsAssociate ==
  ASSUME NEW x \in String, NEW y \in String, NEW z \in String
  PROVE  (x \o y) \o z = x \o (y \o z)
<1>1. PICK S : S = 0 .. 255
  OBVIOUS
<1>2. x \in Seq(S) /\ y \in Seq(S) /\ z \in Seq(S)
  BY <1>1 DEF String
<1> QED
  BY <1>2

\* A byte more, or none more, of a text.
LEMMA SliceGrows ==
  ASSUME NEW text \in String, NEW b \in Nat, NEW n \in Nat, b <= n, n < Size(text)
  PROVE  /\ Substr(text, b, n) \in String /\ Substr(text, n, n) = << >>
         /\ Substr(text, b, n + 1) = Substr(text, b, n) \o <<text[n + 1]>>
<1>1. /\ text \in Seq(0 .. 255) /\ n <= Len(text) /\ n + 1 \in Nat /\ n + 1 <= Len(text)
      /\ b <= n + 1 /\ n + 1 \in 1 .. Len(text)
  BY DEF String, Size
<1> DEFINE s == Substr(text, b, n)
           t == Substr(text, b, n + 1)
           u == s \o <<text[n + 1]>>
<1>2. IsSlice(s, 0 .. 255, text, b, n) /\ IsSlice(t, 0 .. 255, text, b, n + 1)
  BY <1>1, SliceIs DEF Substr
<1>3. text[n + 1] \in 0 .. 255
  BY <1>1, ElementOfSeq
<1> HIDE DEF s, t
<1>4. /\ s \in Seq(0 .. 255) /\ Len(s) = n - b /\ \A i \in 1 .. n - b : s[i] = text[b + i]
      /\ t \in Seq(0 .. 255) /\ Len(t) = (n + 1) - b /\ \A i \in 1 .. (n + 1) - b : t[i] = text[b + i]
  BY <1>2, Zenon DEF IsSlice
<1>5. <<text[n + 1]>> \in Seq(0 .. 255) /\ Len(<<text[n + 1]>>) = 1
  BY <1>3
<1>6. /\ u \in Seq(0 .. 255) /\ Len(u) = Len(s) + Len(<<text[n + 1]>>)
      /\ \A i \in 1 .. Len(s) + Len(<<text[n + 1]>>) :
           u[i] = IF i <= Len(s) THEN s[i] ELSE <<text[n + 1]>>[i - Len(s)]
  BY <1>4, <1>5, ConcatProperties, Zenon
<1> HIDE DEF u
<1>7. Len(u) = Len(t)
  BY <1>4, <1>5, <1>6
<1>8. ASSUME NEW i \in 1 .. Len(t)
      PROVE  t[i] = u[i]
  <2>1. i \in 1 .. (n + 1) - b /\ i \in 1 .. Len(s) + Len(<<text[n + 1]>>) /\ t[i] = text[b + i]
    BY <1>4, <1>5
  <2>2. CASE i <= Len(s)
    <3>1. i \in 1 .. n - b
      BY <1>4, <2>1, <2>2
    <3> QED
      BY <1>4, <1>6, <2>1, <2>2, <3>1
  <2>3. CASE ~(i <= Len(s))
    <3>1. i - Len(s) = 1 /\ b + i = n + 1
      BY <1>4, <2>1, <2>3
    <3>2. <<text[n + 1]>>[1] = text[n + 1]
      OBVIOUS
    <3> QED
      BY <1>6, <2>1, <2>3, <3>1, <3>2, Zenon
  <2> QED
    BY <2>2, <2>3
<1>9. t = u
  BY <1>4, <1>6, <1>7, <1>8, SeqEqual
<1>10. Substr(text, n, n) = << >>
  BY SubSeqEmpty DEF Substr
<1> QED
  BY <1>4, <1>9, <1>10 DEF s, t, u, String

\* The single bytes of a text are together the text.
LEMMA BytesTogether ==
  ASSUME NEW text \in String, NEW p, p = [i \in 1 .. Size(text) |-> <<text[i]>>]
  PROVE  FlattenSeq(p) = text /\ Len(p) = Size(text)
<1>1. PICK N \in Nat : N = Size(text) /\ N = Len(text)
  BY DEF String, Size
<1>2. text \in Seq(0 .. 255) /\ \A i \in 1 .. N : text[i] \in 0 .. 255
  BY <1>1 DEF String
<1>3. \A i \in 1 .. N : <<text[i]>> \in String
  <2>1. \A x \in 0 .. 255 : <<x>> \in Seq(0 .. 255)
    OBVIOUS
  <2> QED
    BY <1>2, <2>1, Zenon DEF String
<1>4. p \in Seq(String) /\ Len(p) = N /\ \A i \in 1 .. N : p[i] = <<text[i]>>
  BY <1>1, <1>3
<1> DEFINE Good == { n \in 0 .. N : First(p, n) = Substr(text, 0, n) }
<1>5. /\ First(p, 0) = << >> /\ First(p, N) = FlattenSeq(p)
      /\ \A n \in 0 .. N - 1 : First(p, n + 1) = First(p, n) \o p[n + 1]
  BY <1>4, FirstIs DEF String
<1>6. 0 \in Good
  <2>1. Substr(text, 0, 0) = << >>
    BY SubSeqEmpty DEF Substr
  <2> QED
    BY <1>5, <2>1
<1>7. ASSUME NEW n \in 0 .. N - 1, n \in Good
      PROVE  n + 1 \in Good
  <2>1. n + 1 \in 0 .. N /\ n + 1 \in 1 .. N /\ 0 \in Nat /\ n \in Nat /\ 0 <= n /\ n < Size(text)
    BY <1>1
  <2>2. Substr(text, 0, n + 1) = Substr(text, 0, n) \o <<text[n + 1]>>
    BY <2>1, SliceGrows
  <2>3. First(p, n + 1) = First(p, n) \o <<text[n + 1]>>
    BY <1>4, <1>5, <2>1
  <2> QED
    BY <1>7, <2>1, <2>2, <2>3
<1> HIDE DEF Good
<1>8. N \in 0 .. N
  OBVIOUS
<1>9. N \in Good
  BY <1>6, <1>7, <1>8, UpTo
<1>10. Substr(text, 0, N) = text
  BY <1>1, <1>2 DEF Substr
<1> QED
  BY <1>1, <1>4, <1>5, <1>9, <1>10 DEF Good

---------------------------------------------------------------------------
(* repeat and join.                                                        *)

\* After b turns repeat has the first b of its units.
Units(a) == [k \in 1 .. a[2] |-> a[1]]
Repeating(a, b, u) == a[2] >= 0 => b \in 0 .. a[2] /\ u = First(Units(a), b)

LEMMA RepeatingIs ==
  ASSUME NEW a \in String \X IntRange
  PROVE  /\ Repeating(a, 0, << >>)
         /\ \A b, u : Repeating(a, b, u) /\ a[2] >= 0 =>
              /\ b < a[2]    => Repeating(a, b + 1, u \o a[1])
              /\ ~(b < a[2]) => u = FlattenSeq(Units(a))
<1>1. a[1] \in String /\ a[2] \in Int
  BY WordsType DEF IntRange
<1> SUFFICES ASSUME a[2] >= 0
             PROVE  /\ Repeating(a, 0, << >>)
                    /\ \A b, u : Repeating(a, b, u) =>
                         /\ b < a[2]    => Repeating(a, b + 1, u \o a[1])
                         /\ ~(b < a[2]) => u = FlattenSeq(Units(a))
  BY Zenon DEF Repeating
<1>2. PICK N \in Nat : N = a[2]
  BY <1>1
<1>3. PICK p : p = Units(a)
  OBVIOUS
<1>4. p \in Seq(String) /\ Len(p) = N /\ \A i \in 1 .. N : p[i] = a[1]
  BY <1>1, <1>2, <1>3 DEF Units
<1>5. /\ First(p, 0) = << >> /\ First(p, N) = FlattenSeq(p)
      /\ \A n \in 0 .. N - 1 : First(p, n + 1) = First(p, n) \o p[n + 1]
  BY <1>4, FirstIs DEF String
<1>6. Repeating(a, 0, << >>)
  BY <1>2, <1>3, <1>5 DEF Repeating
<1>7. ASSUME NEW b, NEW u, Repeating(a, b, u)
      PROVE  /\ b < a[2]    => Repeating(a, b + 1, u \o a[1])
             /\ ~(b < a[2]) => u = FlattenSeq(Units(a))
  <2>1. b \in 0 .. N /\ u = First(p, b)
    BY <1>2, <1>3, <1>7 DEF Repeating
  <2>2. ASSUME b < N
        PROVE  Repeating(a, b + 1, u \o a[1])
    <3>1. b \in 0 .. N - 1 /\ b + 1 \in 1 .. N /\ b + 1 \in 0 .. N
      BY <2>1, <2>2
    <3>2. First(p, b + 1) = u \o a[1]
      BY <1>4, <1>5, <2>1, <3>1
    <3> QED
      BY <1>2, <1>3, <3>1, <3>2 DEF Repeating
  <2>3. ASSUME ~(b < N)
        PROVE  u = FlattenSeq(Units(a))
    <3>1. b = N
      BY <2>1, <2>3
    <3> QED
      BY <1>3, <1>5, <2>1, <3>1
  <2> QED
    BY <1>2, <2>2, <2>3
<1> QED
  BY <1>6, <1>7

\* The parts of a text as join writes them, each but the first behind a separator.
Joints(parts, separator) ==
  [i \in 1 .. Len(parts) |-> IF i = 1 THEN parts[i] ELSE separator \o parts[i]]
Joining(a, b, u) == b \in 0 .. Len(a[1]) /\ u = First(Joints(a[1], a[2]), b)

LEMMA JointsType ==
  ASSUME NEW parts \in Seq(String), NEW sep \in String
  PROVE  /\ Joints(parts, sep) \in Seq(String) /\ Len(Joints(parts, sep)) = Len(parts)
         /\ Len(parts) \in Nat
         /\ \A i \in 1 .. Len(parts) :
              Joints(parts, sep)[i] = IF i = 1 THEN parts[i] ELSE sep \o parts[i]
<1>1. PICK N \in Nat : N = Len(parts)
  BY LenProperties
<1>2. \A i \in 1 .. N : parts[i] \in String
  BY <1>1
<1>3. \A i \in 1 .. N : sep \o parts[i] \in String
  BY <1>2, ConcatProperties DEF String
<1>4. PICK f : f = Joints(parts, sep)
  OBVIOUS
<1>5. /\ f = [i \in 1 .. N |-> IF i = 1 THEN parts[i] ELSE sep \o parts[i]]
      /\ \A i \in 1 .. N : (IF i = 1 THEN parts[i] ELSE sep \o parts[i]) \in String
  BY <1>1, <1>2, <1>3, <1>4 DEF Joints
<1>6. f \in Seq(String) /\ Len(f) = N
      /\ \A i \in 1 .. N : f[i] = IF i = 1 THEN parts[i] ELSE sep \o parts[i]
  BY <1>5
<1> QED
  BY <1>1, <1>4, <1>6

LEMMA JoiningIs ==
  ASSUME NEW a \in Seq(String) \X String
  PROVE  /\ Joining(a, 0, << >>)
         /\ \A b, u : Joining(a, b, u) =>
              /\ b < Len(a[1]) =>
                   Joining(a, b + 1, u \o (IF b > 0 THEN a[2] ELSE << >>) \o a[1][b + 1])
              /\ ~(b < Len(a[1])) => u = Between(a[1], a[2])
<1>1. a[1] \in Seq(String) /\ a[2] \in String
  OBVIOUS
<1>2. PICK N \in Nat : N = Len(a[1])
  BY <1>1, LenProperties
<1>3. PICK p : p = Joints(a[1], a[2])
  OBVIOUS
<1>4. p \in Seq(String) /\ Len(p) = N
      /\ \A i \in 1 .. N : p[i] = IF i = 1 THEN a[1][i] ELSE a[2] \o a[1][i]
  BY <1>1, <1>2, <1>3, JointsType
<1>5. /\ First(p, 0) = << >> /\ First(p, N) = FlattenSeq(p)
      /\ \A n \in 0 .. N : First(p, n) \in String
      /\ \A n \in 0 .. N - 1 : First(p, n + 1) = First(p, n) \o p[n + 1]
  BY <1>4, FirstIs DEF String
<1>6. Joining(a, 0, << >>)
  BY <1>2, <1>3, <1>5 DEF Joining
<1>7. ASSUME NEW b, NEW u, Joining(a, b, u)
      PROVE  /\ b < Len(a[1]) =>
                  Joining(a, b + 1, u \o (IF b > 0 THEN a[2] ELSE << >>) \o a[1][b + 1])
             /\ ~(b < Len(a[1])) => u = Between(a[1], a[2])
  <2>1. b \in 0 .. N /\ u = First(p, b) /\ u \in String
    BY <1>2, <1>3, <1>5, <1>7 DEF Joining
  <2>2. ASSUME b < N
        PROVE  Joining(a, b + 1, u \o (IF b > 0 THEN a[2] ELSE << >>) \o a[1][b + 1])
    <3>1. b \in 0 .. N - 1 /\ b + 1 \in 1 .. N /\ b + 1 \in 0 .. N
      BY <2>1, <2>2
    <3>2. First(p, b + 1) = u \o p[b + 1]
      BY <1>5, <2>1, <3>1
    <3>3. a[1][b + 1] \in String
      BY <1>1, <1>2, <3>1
    <3>4. u \o (IF b > 0 THEN a[2] ELSE << >>) \o a[1][b + 1] = u \o p[b + 1]
      <4>1. CASE b > 0
        <5>1. p[b + 1] = a[2] \o a[1][b + 1]
          BY <1>4, <2>1, <3>1, <4>1
        <5>2. (u \o a[2]) \o a[1][b + 1] = u \o (a[2] \o a[1][b + 1])
          <6>1. PICK x \in String, y \in String, z \in String :
                  x = u /\ y = a[2] /\ z = a[1][b + 1]
            BY <1>1, <2>1, <3>3
          <6>2. (x \o y) \o z = x \o (y \o z)
            BY TextsAssociate
          <6> QED
            BY <6>1, <6>2, Zenon
        <5> QED
          BY <4>1, <5>1, <5>2
      <4>2. CASE ~(b > 0)
        <5>1. p[b + 1] = a[1][b + 1]
          BY <1>4, <2>1, <3>1, <4>2
        <5>2. u \o << >> = u
          BY <2>1, ConcatEmptySeq DEF String
        <5> QED
          BY <4>2, <5>1, <5>2
      <4> QED
        BY <4>1, <4>2
    <3> QED
      BY <1>2, <1>3, <3>1, <3>2, <3>4 DEF Joining
  <2>3. ASSUME ~(b < N)
        PROVE  u = Between(a[1], a[2])
    <3>1. b = N
      BY <2>1, <2>3
    <3>2. Between(a[1], a[2]) = FlattenSeq(p)
      BY <1>3 DEF Between, Joints
    <3> QED
      BY <1>5, <2>1, <3>1, <3>2
  <2> QED
    BY <1>2, <2>2, <2>3
<1> QED
  BY <1>6, <1>7

---------------------------------------------------------------------------
(* Hits and slices.                                                        *)

\* A text's length, and what it is made of.
LEMMA TextType ==
  ASSUME NEW text \in String
  PROVE  /\ text \in Seq(0 .. 255) /\ Size(text) \in Nat /\ Len(text) = Size(text)
         /\ text = << >> <=> Size(text) = 0
  BY DEF String, Size

\* The first hit is one, and there is none before it.
LEMMA HitIs ==
  ASSUME NEW text \in String, NEW what \in String, NEW from \in Nat, ~NoHit(text, what, from),
         NEW hit, hit = FirstHit(text, what, from)
  PROVE  /\ hit \in from .. Size(text) /\ hit \in Nat /\ Occurs(text, what, hit)
         /\ hit + Size(what) <= Size(text)
         /\ \A at \in from .. hit - 1 : ~Occurs(text, what, at)
<1> DEFINE H == Hits(text, what, from)
<1>1. Size(text) \in Nat /\ Size(what) \in Nat
  BY TextType
<1>2. H \subseteq Nat /\ H # {}
  BY <1>1 DEF Hits, NoHit
<1>3. hit \in H /\ \A n \in H : hit <= n
  BY <1>2, MinType DEF FirstHit
<1>4. hit \in from .. Size(text) /\ Occurs(text, what, hit) /\ hit \in Nat
  BY <1>1, <1>3 DEF Hits
<1>5. ASSUME NEW at \in from .. hit - 1, Occurs(text, what, at)
      PROVE  FALSE
  <2>1. at \in from .. Size(text) /\ ~(hit <= at)
    BY <1>1, <1>4
  <2>2. at \in H
    BY <1>5, <2>1 DEF Hits
  <2> QED
    BY <1>3, <2>1, <2>2, Zenon
<1>6. hit + Size(what) <= Size(text)
  BY <1>4 DEF Occurs
<1> QED
  BY <1>4, <1>5, <1>6

\* What is a hit with none before it is the first.
LEMMA HitFound ==
  ASSUME NEW text \in String, NEW what \in String, NEW from \in Nat,
         NEW x \in from .. Size(text), Occurs(text, what, x),
         \A at \in from .. x - 1 : ~Occurs(text, what, at)
  PROVE  ~NoHit(text, what, from) /\ FirstHit(text, what, from) = x
<1>1. Size(text) \in Nat
  BY TextType
<1>2. x \in Hits(text, what, from)
  BY DEF Hits
<1>3. ~NoHit(text, what, from)
  BY <1>2 DEF NoHit
<1>4. PICK h : h = FirstHit(text, what, from)
  OBVIOUS
<1>5. h \in from .. Size(text) /\ Occurs(text, what, h) /\ \A at \in from .. h - 1 : ~Occurs(text, what, at)
  BY <1>3, <1>4, HitIs
<1>6. ~(x \in from .. h - 1) /\ ~(h \in from .. x - 1)
  BY <1>5, Zenon
<1>7. h = x
  BY <1>1, <1>5, <1>6
<1> QED
  BY <1>3, <1>4, <1>7

\* Two slices that meet.
LEMMA SlicesMeet ==
  ASSUME NEW text \in String, NEW a \in Nat, NEW b \in Nat, NEW c \in Nat,
         a <= b, b <= c, c <= Size(text)
  PROVE  Substr(text, a, b) \o Substr(text, b, c) = Substr(text, a, c)
<1> DEFINE s == Substr(text, a, b)
           t == Substr(text, b, c)
           v == Substr(text, a, c)
           u == s \o t
<1>1. text \in Seq(0 .. 255) /\ b <= Len(text) /\ c <= Len(text) /\ a <= c
  <2>1. text \in Seq(0 .. 255) /\ Len(text) = Size(text) /\ Size(text) \in Nat
    BY TextType
  <2> QED
    BY <2>1
<1>2. IsSlice(s, 0 .. 255, text, a, b) /\ IsSlice(t, 0 .. 255, text, b, c)
      /\ IsSlice(v, 0 .. 255, text, a, c)
  BY <1>1, SliceIs DEF Substr
<1> HIDE DEF s, t, v
<1>3. /\ s \in Seq(0 .. 255) /\ Len(s) = b - a /\ \A i \in 1 .. b - a : s[i] = text[a + i]
      /\ t \in Seq(0 .. 255) /\ Len(t) = c - b /\ \A i \in 1 .. c - b : t[i] = text[b + i]
      /\ v \in Seq(0 .. 255) /\ Len(v) = c - a /\ \A i \in 1 .. c - a : v[i] = text[a + i]
  BY <1>2, Zenon DEF IsSlice
<1>4. /\ u \in Seq(0 .. 255) /\ Len(u) = Len(s) + Len(t)
      /\ \A i \in 1 .. Len(s) + Len(t) : u[i] = IF i <= Len(s) THEN s[i] ELSE t[i - Len(s)]
  BY <1>3, ConcatProperties, Zenon
<1> HIDE DEF u
<1>5. Len(u) = Len(v)
  BY <1>3, <1>4
<1>6. ASSUME NEW i \in 1 .. Len(u)
      PROVE  u[i] = v[i]
  <2>1. i \in 1 .. Len(s) + Len(t) /\ i \in 1 .. c - a
    BY <1>3, <1>4
  <2>2. CASE i <= Len(s)
    <3>1. i \in 1 .. b - a
      BY <1>3, <2>1, <2>2
    <3> QED
      BY <1>3, <1>4, <2>1, <2>2, <3>1
  <2>3. CASE ~(i <= Len(s))
    <3>1. i - Len(s) \in 1 .. c - b /\ b + (i - Len(s)) = a + i
      BY <1>3, <1>4, <2>1, <2>3
    <3>2. u[i] = t[i - Len(s)]
      BY <1>4, <2>1, <2>3, Zenon
    <3> QED
      BY <1>3, <2>1, <3>1, <3>2
  <2> QED
    BY <2>2, <2>3
<1>7. u = v
  BY <1>3, <1>4, <1>5, <1>6, SeqEqual
<1> QED
  BY <1>7 DEF s, t, u, v

\* What occurs in the rest of a text occurs in the text.
LEMMA RestOccurs ==
  ASSUME NEW text \in String, NEW what \in String, NEW at \in 0 .. Size(text),
         NEW u, u = Substr(text, at, Size(text)), NEW h \in 0 .. Size(u)
  PROVE  Occurs(u, what, h) <=> Occurs(text, what, at + h)
<1>1. text \in Seq(0 .. 255) /\ Size(text) \in Nat /\ Len(text) = Size(text) /\ Size(what) \in Nat
  BY TextType
<1>2. u \in Seq(0 .. 255) /\ Size(u) = Size(text) - at
  BY <1>1, RestIs
<1>3. u \in String
  BY <1>2 DEF String
<1>4. Size(u) \in Nat /\ Len(u) = Size(u)
  BY <1>3, TextType
<1>5. PICK m \in Nat : m = Size(what)
  BY <1>1
<1>6. h + m <= Size(u) <=> (at + h) + m <= Size(text)
  BY <1>1, <1>2
<1>7. ASSUME h + m <= Size(u)
      PROVE  Substr(u, h, h + m) = Substr(text, at + h, (at + h) + m)
  <2>1. /\ h \in Nat /\ h + m \in Nat /\ h <= h + m /\ h + m <= Len(u)
        /\ at + h \in Nat /\ (at + h) + m \in Nat /\ at + h <= (at + h) + m
        /\ (at + h) + m <= Len(text) /\ (h + m) - h = ((at + h) + m) - (at + h)
    BY <1>1, <1>4, <1>6, <1>7
  <2>2. SaysWhat((h + m) - h, u, h, text, at + h)
    <3>1. PICK n \in Nat : n = Size(text) - at
      BY <1>1
    <3>2. IsSlice(SubSeq(text, at + 1, Size(text)), 0 .. 255, text, at, Size(text))
      <4>1. at \in Nat /\ at <= Size(text) /\ Size(text) <= Len(text)
        BY <1>1
      <4> QED
        BY <1>1, <4>1, SliceIs
    <3>3. \A i \in 1 .. n : u[i] = text[at + i]
      BY <3>1, <3>2 DEF IsSlice, Substr
    <3>4. \A i \in 1 .. (h + m) - h : h + i \in 1 .. n /\ at + (h + i) = (at + h) + i
      BY <1>2, <1>7, <3>1
    <3> QED
      BY <3>3, <3>4 DEF SaysWhat
  <2> QED
    BY <1>1, <1>2, <2>1, <2>2, SlicesEqual DEF Substr
<1> QED
  BY <1>5, <1>6, <1>7, Zenon DEF Occurs

\* The first hit in the rest of a text is the next one in the text.
LEMMA RestHits ==
  ASSUME NEW text \in String, NEW what \in String, NEW at \in 0 .. Size(text),
         NEW u, u = Substr(text, at, Size(text))
  PROVE  /\ u \in String
         /\ NoHit(u, what, 0) <=> NoHit(text, what, at)
         /\ ~NoHit(text, what, at) => FirstHit(u, what, 0) = FirstHit(text, what, at) - at
<1>1. text \in Seq(0 .. 255) /\ Size(text) \in Nat /\ at \in Nat
  BY TextType
<1>2. u \in Seq(0 .. 255) /\ Size(u) = Size(text) - at
  BY <1>1, RestIs
<1>3. u \in String
  BY <1>2 DEF String
<1>4. Size(u) \in Nat
  BY <1>3, TextType
<1>5. \A h \in 0 .. Size(u) : Occurs(u, what, h) <=> Occurs(text, what, at + h)
  BY RestOccurs
<1>6. ASSUME ~NoHit(text, what, at)
      PROVE  ~NoHit(u, what, 0) /\ FirstHit(u, what, 0) = FirstHit(text, what, at) - at
  <2>1. PICK x : x = FirstHit(text, what, at)
    OBVIOUS
  <2>2. x \in at .. Size(text) /\ Occurs(text, what, x)
        /\ \A k \in at .. x - 1 : ~Occurs(text, what, k)
    BY <1>1, <1>6, <2>1, HitIs
  <2>3. x - at \in 0 .. Size(u) /\ at + (x - at) = x
    BY <1>1, <1>2, <2>2
  <2>4. Occurs(u, what, x - at)
    BY <1>5, <2>2, <2>3
  <2>5. ASSUME NEW k \in 0 .. (x - at) - 1
        PROVE  ~Occurs(u, what, k)
    <3>1. k \in 0 .. Size(u) /\ at + k \in at .. x - 1
      BY <1>1, <1>2, <2>2, <2>3
    <3> QED
      BY <1>5, <2>2, <3>1
  <2>6. 0 \in Nat
    OBVIOUS
  <2> QED
    BY <1>3, <2>1, <2>3, <2>4, <2>5, <2>6, HitFound
<1>7. ASSUME ~NoHit(u, what, 0)
      PROVE  ~NoHit(text, what, at)
  <2>1. PICK h \in 0 .. Size(u) : Occurs(u, what, h)
    BY <1>7 DEF NoHit, Hits
  <2>2. Occurs(text, what, at + h) /\ at + h \in at .. Size(text)
    BY <1>1, <1>2, <1>5, <2>1
  <2> QED
    BY <2>2 DEF NoHit, Hits
<1> QED
  BY <1>3, <1>6, <1>7

---------------------------------------------------------------------------
(* Parts around a separator.                                               *)

\* A single part is the text, and without the first part it begins behind the separator.
LEMMA BetweenOne ==
  ASSUME NEW q \in Seq(String), NEW sep \in String, Len(q) = 1
  PROVE  Between(q, sep) = q[1]
<1>1. PICK p : p = Joints(q, sep)
  OBVIOUS
<1>2. p \in Seq(String) /\ Len(p) = 1 /\ p[1] = q[1]
  <2>1. 1 \in 1 .. Len(q)
    OBVIOUS
  <2> QED
    BY <1>1, <2>1, JointsType
<1>3. /\ First(p, 0) = << >> /\ First(p, 1) = FlattenSeq(p)
      /\ First(p, 0 + 1) = First(p, 0) \o p[0 + 1]
  <2>1. /\ First(p, 0) = << >> /\ First(p, Len(p)) = FlattenSeq(p)
        /\ \A n \in 0 .. Len(p) - 1 : First(p, n + 1) = First(p, n) \o p[n + 1]
    BY <1>2, FirstTexts
  <2>2. 0 \in 0 .. Len(p) - 1
    BY <1>2
  <2> QED
    BY <1>2, <2>1, <2>2
<1>4. << >> \o q[1] = q[1]
  <2>1. 1 \in 1 .. Len(q)
    OBVIOUS
  <2>2. q[1] \in String
    BY <2>1, ElementOfSeq
  <2> QED
    BY <2>2, NothingInFront
<1>5. FlattenSeq(p) = q[1]
  <2>1. First(p, 1) = << >> \o q[1]
    <3>1. 0 + 1 = 1
      OBVIOUS
    <3> QED
      BY <1>2, <1>3, <3>1, Zenon
  <2> QED
    BY <1>3, <1>4, <2>1
<1> QED
  BY <1>1, <1>5 DEF Between, Joints

LEMMA BetweenGoesOn ==
  ASSUME NEW q \in Seq(String), NEW t \in Seq(String), NEW sep \in String,
         Len(t) \in Nat \ {0}, Len(q) = Len(t) + 1, \A j \in 1 .. Len(t) : t[j] = q[j + 1]
  PROVE  Between(q, sep) = q[1] \o (sep \o Between(t, sep))
<1>1. PICK n \in Nat : n = Len(t) /\ n # 0 /\ Len(q) = n + 1
  OBVIOUS
<1>2. PICK p, r : p = Joints(q, sep) /\ r = Joints(t, sep)
  OBVIOUS
<1>3. /\ p \in Seq(String) /\ Len(p) = n + 1
      /\ \A i \in 1 .. n + 1 : p[i] = IF i = 1 THEN q[i] ELSE sep \o q[i]
      /\ r \in Seq(String) /\ Len(r) = n
      /\ \A i \in 1 .. n : r[i] = IF i = 1 THEN t[i] ELSE sep \o t[i]
  BY <1>1, <1>2, JointsType
<1>4. /\ First(p, 0) = << >> /\ First(p, n + 1) = FlattenSeq(p)
      /\ \A i \in 0 .. n : First(p, i + 1) = First(p, i) \o p[i + 1]
      /\ First(r, 0) = << >> /\ First(r, n) = FlattenSeq(r)
      /\ \A i \in 0 .. n : First(r, i) \in String
      /\ \A i \in 0 .. n - 1 : First(r, i + 1) = First(r, i) \o r[i + 1]
  <2>1. (n + 1) - 1 = n
    BY <1>1
  <2>2. /\ First(p, 0) = << >> /\ First(p, n + 1) = FlattenSeq(p)
        /\ \A i \in 0 .. (n + 1) - 1 : First(p, i + 1) = First(p, i) \o p[i + 1]
    BY <1>3, FirstTexts
  <2>3. /\ First(r, 0) = << >> /\ First(r, n) = FlattenSeq(r)
        /\ \A i \in 0 .. n : First(r, i) \in String
        /\ \A i \in 0 .. n - 1 : First(r, i + 1) = First(r, i) \o r[i + 1]
    BY <1>3, FirstTexts
  <2> QED
    BY <2>1, <2>2, <2>3
<1>5. /\ q[1] \in String /\ \A i \in 1 .. n : t[i] \in String
      /\ \A i \in 1 .. n : t[i] = q[i + 1]
      /\ \A i \in 1 .. n : r[i] \in String
  <2>1. 1 \in 1 .. Len(q)
    BY <1>1
  <2>2. \A i \in 1 .. n : r[i] \in String
    BY <1>3, ElementOfSeq
  <2> QED
    BY <1>1, <2>1, <2>2
<1> DEFINE Good == { k \in 0 .. n - 1 :
                       First(p, k + 2) = q[1] \o (sep \o First(r, k + 1)) }
<1>6. 0 \in Good
  <2>1. /\ 0 \in 0 .. n - 1 /\ 0 \in 0 .. n /\ 1 \in 0 .. n /\ 1 \in 1 .. n /\ 1 \in 1 .. n + 1
        /\ 2 \in 1 .. n + 1 /\ 0 + 1 = 1 /\ 1 + 1 = 2 /\ 0 + 2 = 2
    BY <1>1
  <2>2. First(p, 1) = << >> \o p[1] /\ First(p, 2) = First(p, 1) \o p[2]
        /\ First(r, 1) = << >> \o r[1]
    BY <1>4, <2>1
  <2>3. p[1] = q[1] /\ p[2] = sep \o t[1] /\ r[1] = t[1]
    <3>1. p[1] = q[1] /\ p[2] = sep \o q[2] /\ r[1] = t[1]
      BY <1>3, <2>1
    <3>2. t[1] = q[2]
      BY <1>5, <2>1, Zenon
    <3> QED
      BY <3>1, <3>2
  <2>4. << >> \o q[1] = q[1] /\ << >> \o t[1] = t[1]
    <3>1. q[1] \in String /\ t[1] \in String
      BY <1>5, <2>1
    <3> QED
      BY <3>1, NothingInFront
  <2> QED
    BY <2>1, <2>2, <2>3, <2>4
<1>7. ASSUME NEW k \in 0 .. (n - 1) - 1, k \in Good
      PROVE  k + 1 \in Good
  <2>1. /\ k + 1 \in 0 .. n - 1 /\ k + 2 \in 0 .. n /\ k + 2 \in 1 .. n /\ k + 3 \in 1 .. n + 1
        /\ (k + 1) + 1 = k + 2 /\ (k + 1) + 2 = k + 3 /\ (k + 2) + 1 = k + 3 /\ k + 3 # 1
        /\ k + 2 # 1 /\ k + 1 \in 0 .. n
    BY <1>1
  <2>2. First(p, k + 3) = First(p, k + 2) \o p[k + 3] /\ First(r, k + 2) = First(r, k + 1) \o r[k + 2]
    BY <1>4, <2>1
  <2>3. p[k + 3] = sep \o q[k + 3] /\ r[k + 2] = sep \o t[k + 2] /\ t[k + 2] = q[k + 3]
    BY <1>3, <1>5, <2>1
  <2>4. First(p, k + 2) = q[1] \o (sep \o First(r, k + 1))
    BY <1>7
  <2>5. PICK a \in String, b \in String, c \in String :
          a = q[1] /\ b = First(r, k + 1) /\ c = r[k + 2]
    <3>1. q[1] \in String /\ First(r, k + 1) \in String /\ r[k + 2] \in String
      BY <1>4, <1>5, <2>1
    <3> QED
      BY <3>1, Zenon
  <2>6. (a \o (sep \o b)) \o c = a \o (sep \o (b \o c))
    <3>1. sep \o b \in String
      BY ConcatProperties DEF String
    <3>2. (a \o (sep \o b)) \o c = a \o ((sep \o b) \o c)
      BY <3>1, TextsAssociate
    <3>3. (sep \o b) \o c = sep \o (b \o c)
      BY TextsAssociate
    <3> QED
      BY <3>2, <3>3
  <2> QED
    BY <2>1, <2>2, <2>3, <2>4, <2>5, <2>6
<1>8. n - 1 \in Nat /\ n - 1 \in 0 .. n - 1 /\ (n - 1) + 2 = n + 1 /\ (n - 1) + 1 = n
  BY <1>1
<1> HIDE DEF Good
<1>9. n - 1 \in Good
  BY <1>6, <1>7, <1>8, UpTo
<1>10. FlattenSeq(p) = q[1] \o (sep \o FlattenSeq(r))
  BY <1>4, <1>8, <1>9 DEF Good
<1> QED
  BY <1>2, <1>10 DEF Between, Joints

---------------------------------------------------------------------------
(* split.                                                                  *)

\* A part, and the separator behind it.
IsCut(text, sep, from, to, part) ==
  /\ from \in 0 .. Size(text) /\ ~NoHit(text, sep, from)
  /\ part = Substr(text, from, FirstHit(text, sep, from))
  /\ to = After(FirstHit(text, sep, from), sep)

\* The parts so far, cut at the places that s has, the last of them at b.
Cuts(s, parts, text, sep, b) ==
  /\ s[0] = 0 /\ s[Len(parts)] = b
  /\ \A i \in 1 .. Len(parts) : IsCut(text, sep, s[i - 1], s[i], parts[i])

Splitting(a, b, parts) ==
  /\ parts \in Seq(String) /\ b \in 0 .. Size(a[1])
  /\ \E s : Cuts(s, parts, a[1], a[2], b)

LEMMA SplittingBegins ==
  ASSUME NEW a \in String \X String
  PROVE  Splitting(a, 0, << >>)
<1>1. a[1] \in String
  OBVIOUS
<1>2. << >> \in Seq(String) /\ 0 \in 0 .. Size(a[1])
  BY <1>1, TextType
<1>3. PICK s : s = [i \in {0} |-> 0]
  OBVIOUS
<1>4. s[0] = 0 /\ Len(<< >>) = 0 /\ 1 .. 0 = {}
  BY <1>3
<1>5. Cuts(s, << >>, a[1], a[2], 0)
  BY <1>4, Zenon DEF Cuts
<1> QED
  BY <1>2, <1>5, Zenon DEF Splitting

\* A part of a text is a text.
LEMMA SliceType ==
  ASSUME NEW text \in String, NEW b \in Nat, NEW c \in Nat, b <= c, c <= Size(text)
  PROVE  Substr(text, b, c) \in String /\ Size(Substr(text, b, c)) = c - b
<1>1. text \in Seq(0 .. 255) /\ c <= Len(text)
  BY TextType
<1>2. IsSlice(Substr(text, b, c), 0 .. 255, text, b, c)
  BY <1>1, SliceIs DEF Substr
<1> QED
  BY <1>2, Zenon DEF IsSlice, Size, String

LEMMA SplittingGoesOn ==
  ASSUME NEW a \in String \X String, NEW b, NEW parts, Splitting(a, b, parts),
         ~NoHit(a[1], a[2], b),
         NEW hit, hit = FirstHit(a[1], a[2], b)
  PROVE  Splitting(a, After(hit, a[2]), Append(parts, Substr(a[1], b, hit)))
<1>1. PICK text \in String, sep \in String : text = a[1] /\ sep = a[2]
  OBVIOUS
<1>2. parts \in Seq(String) /\ b \in 0 .. Size(text) /\ b \in Nat
  BY <1>1, TextType DEF Splitting
<1>3. PICK s : Cuts(s, parts, text, sep, b)
  BY <1>1 DEF Splitting
<1>4. /\ hit \in b .. Size(text) /\ hit \in Nat /\ hit + Size(sep) <= Size(text)
      /\ Size(sep) \in Nat /\ Size(text) \in Nat
  BY <1>1, <1>2, HitIs, TextType
<1>5. PICK to : to = After(hit, sep)
  OBVIOUS
<1>6. to \in 0 .. Size(text)
  BY <1>4, <1>5 DEF After
<1>7. PICK part : part = Substr(text, b, hit)
  OBVIOUS
<1>8. part \in String
  BY <1>2, <1>4, <1>7, SliceType
<1>9. PICK n \in Nat : n = Len(parts)
  BY <1>2, LenProperties
<1> DEFINE all == Append(parts, part)
<1>10. /\ all \in Seq(String) /\ Len(all) = n + 1 /\ all[n + 1] = part
       /\ \A i \in 1 .. n : all[i] = parts[i]
  BY <1>2, <1>8, <1>9
<1> HIDE DEF all
<1>11. PICK r : r = [i \in 0 .. n + 1 |-> IF i = n + 1 THEN to ELSE s[i]]
  OBVIOUS
<1>12. r[n + 1] = to /\ \A i \in 0 .. n : r[i] = s[i]
  BY <1>11
<1>13. IsCut(text, sep, b, to, part)
  BY <1>1, <1>2, <1>5, <1>7 DEF IsCut
<1>14. ASSUME NEW i \in 1 .. n + 1
       PROVE  IsCut(text, sep, r[i - 1], r[i], all[i])
  <2>1. CASE i = n + 1
    <3>1. r[i - 1] = b
      <4>1. i - 1 = n /\ n \in 0 .. n
        BY <2>1
      <4>2. s[n] = b
        BY <1>3, <1>9 DEF Cuts
      <4> QED
        BY <1>12, <4>1, <4>2
    <3> QED
      BY <1>10, <1>12, <1>13, <2>1, <3>1
  <2>2. CASE i # n + 1
    <3>1. i \in 1 .. n /\ i \in 0 .. n /\ i - 1 \in 0 .. n
      BY <2>2
    <3>2. IsCut(text, sep, s[i - 1], s[i], parts[i])
      BY <1>3, <1>9, <3>1 DEF Cuts
    <3> QED
      BY <1>10, <1>12, <3>1, <3>2
  <2> QED
    BY <2>1, <2>2
<1>15. r[0] = 0
  <2>1. s[0] = 0 /\ 0 \in 0 .. n
    BY <1>3 DEF Cuts
  <2> QED
    BY <1>12, <2>1
<1>16. Cuts(r, all, text, sep, to)
  BY <1>10, <1>12, <1>14, <1>15 DEF Cuts
<1>17. Splitting(a, to, all)
  BY <1>1, <1>6, <1>10, <1>16, Zenon DEF Splitting
<1> QED
  BY <1>1, <1>5, <1>7, <1>17 DEF all

\* What is behind the last hit ends the text.
LEMMA SplittingEnds ==
  ASSUME NEW a \in String \X String, NEW b, NEW parts, Splitting(a, b, parts),
         NoHit(a[1], a[2], b)
  PROVE  PartsOf(Append(parts, Substr(a[1], b, Size(a[1]))), a[1], a[2])
<1>1. PICK text \in String, sep \in String : text = a[1] /\ sep = a[2]
  OBVIOUS
<1>2. PICK N \in Nat, m \in Nat : N = Size(text) /\ m = Size(sep)
  BY TextType
<1>3. parts \in Seq(String) /\ b \in 0 .. N /\ b \in Nat
  BY <1>1, <1>2 DEF Splitting
<1>4. PICK s : Cuts(s, parts, text, sep, b)
  BY <1>1 DEF Splitting
<1>5. PICK n \in Nat : n = Len(parts)
  BY <1>3, LenProperties
<1>6. PICK last \in String : last = Substr(text, b, N)
  BY <1>2, <1>3, SliceType
<1>7. PICK q : q = Append(parts, last)
  OBVIOUS
<1>8. /\ q \in Seq(String) /\ Len(q) = n + 1 /\ q[n + 1] = last
      /\ \A i \in 1 .. n : q[i] = parts[i]
  BY <1>3, <1>5, <1>7
<1>9. /\ s[0] = 0 /\ s[n] = b
      /\ \A f \in 0 .. n - 1 : IsCut(text, sep, s[f], s[f + 1], q[f + 1])
  <2>1. ASSUME NEW f \in 0 .. n - 1
        PROVE  IsCut(text, sep, s[f], s[f + 1], q[f + 1])
    <3>1. f + 1 \in 1 .. n /\ (f + 1) - 1 = f
      OBVIOUS
    <3>2. IsCut(text, sep, s[(f + 1) - 1], s[f + 1], parts[f + 1])
      BY <1>4, <1>5, <3>1 DEF Cuts
    <3> QED
      BY <1>8, <3>1, <3>2
  <2> QED
    BY <1>4, <1>5, <2>1 DEF Cuts
<1>10. \A f \in 0 .. n : s[f] \in 0 .. N
  <2> TAKE f \in 0 .. n
  <2>1. CASE f = n
    BY <1>3, <1>9, <2>1
  <2>2. CASE f # n
    <3>1. f \in 0 .. n - 1
      BY <2>2
    <3> QED
      BY <1>2, <1>9, <3>1 DEF IsCut
  <2> QED
    BY <2>1, <2>2
<1> DEFINE Rest(f) == SubSeq(q, f + 1, n + 1)
<1>11. ASSUME NEW f \in 0 .. n
       PROVE  /\ Rest(f) \in Seq(String) /\ Len(Rest(f)) = (n + 1) - f
              /\ \A i \in 1 .. (n + 1) - f : Rest(f)[i] = q[f + i]
  <2>1. f \in Nat /\ n + 1 \in Nat /\ f <= n + 1 /\ n + 1 <= Len(q)
    BY <1>8
  <2>2. IsSlice(SubSeq(q, f + 1, n + 1), String, q, f, n + 1)
    BY <1>8, <2>1, SliceIs
  <2> QED
    BY <2>2, Zenon DEF IsSlice
<1> HIDE DEF Rest
<1> DEFINE Good == { k \in 0 .. n : Between(Rest(n - k), sep) = Substr(text, s[n - k], N) }
<1>12. 0 \in Good
  <2>1. n - 0 = n /\ n \in 0 .. n /\ 0 \in 0 .. n /\ (n + 1) - n = 1 /\ 1 \in 1 .. 1
    OBVIOUS
  <2>2. Rest(n) \in Seq(String) /\ Len(Rest(n)) = 1 /\ Rest(n)[1] = q[n + 1]
    BY <1>11, <2>1
  <2>3. Between(Rest(n), sep) = last
    BY <1>8, <2>2, BetweenOne
  <2> QED
    BY <1>6, <1>9, <2>1, <2>3
<1>13. ASSUME NEW k \in 0 .. n - 1, k \in Good
       PROVE  k + 1 \in Good
  <2>1. PICK f \in 0 .. n - 1 : f = n - (k + 1)
    OBVIOUS
  <2>2. /\ f + 1 = n - k /\ f \in 0 .. n /\ f + 1 \in 0 .. n /\ k + 1 \in 0 .. n
        /\ (n + 1) - f \in Nat /\ (n + 1) - (f + 1) \in Nat \ {0}
        /\ (n + 1) - f = ((n + 1) - (f + 1)) + 1
        /\ 1 \in 1 .. (n + 1) - f
    BY <2>1
  <2>3. PICK x \in 0 .. N, y \in 0 .. N : x = s[f] /\ y = s[f + 1]
    BY <1>10, <2>2
  <2>4. PICK h : h = FirstHit(text, sep, x)
    OBVIOUS
  <2>5. IsCut(text, sep, x, y, q[f + 1])
    BY <1>9, <2>1, <2>3
  <2>6. /\ h \in x .. N /\ h \in Nat /\ h + m <= N /\ Occurs(text, sep, h)
        /\ y = h + m /\ q[f + 1] = Substr(text, x, h)
    <3>1. x \in Nat /\ ~NoHit(text, sep, x) /\ y = After(h, sep) /\ q[f + 1] = Substr(text, x, h)
      BY <2>4, <2>5 DEF IsCut
    <3>2. h \in x .. Size(text) /\ h \in Nat /\ h + Size(sep) <= Size(text) /\ Occurs(text, sep, h)
      BY <2>4, <3>1, HitIs
    <3> QED
      BY <1>2, <3>1, <3>2 DEF After
  <2>7. Between(Rest(f), sep) = Rest(f)[1] \o (sep \o Between(Rest(f + 1), sep))
    <3>1. /\ Rest(f) \in Seq(String) /\ Rest(f + 1) \in Seq(String)
          /\ Len(Rest(f + 1)) = (n + 1) - (f + 1) /\ Len(Rest(f)) = (n + 1) - f
      BY <1>11, <2>2
    <3>2. ASSUME NEW j \in 1 .. Len(Rest(f + 1))
          PROVE  Rest(f + 1)[j] = Rest(f)[j + 1]
      <4>1. j \in 1 .. (n + 1) - (f + 1) /\ j + 1 \in 1 .. (n + 1) - f
            /\ f + (j + 1) = (f + 1) + j
        BY <2>2, <3>1
      <4> QED
        BY <1>11, <2>2, <4>1
    <3>3. Len(Rest(f + 1)) \in Nat \ {0} /\ Len(Rest(f)) = Len(Rest(f + 1)) + 1
      BY <2>2, <3>1
    <3> QED
      BY <3>1, <3>2, <3>3, BetweenGoesOn
  <2>8. Rest(f)[1] = Substr(text, x, h)
    BY <1>11, <2>2, <2>6
  <2>9. Between(Rest(f + 1), sep) = Substr(text, y, N)
    <3>1. Between(Rest(n - k), sep) = Substr(text, s[n - k], N)
      BY <1>13
    <3> QED
      BY <2>2, <2>3, <3>1
  <2>10. sep = Substr(text, h, y)
    BY <1>2, <2>6 DEF Occurs
  <2>11. sep \o Substr(text, y, N) = Substr(text, h, N)
    <3>1. h \in Nat /\ h <= y /\ y <= N /\ y \in Nat /\ N <= Size(text)
      BY <1>2, <2>6
    <3>2. Substr(text, h, y) \o Substr(text, y, N) = Substr(text, h, N)
      BY <3>1, SlicesMeet
    <3> QED
      BY <2>10, <3>2, Zenon
  <2>12. Substr(text, x, h) \o Substr(text, h, N) = Substr(text, x, N)
    <3>1. x \in Nat /\ x <= h /\ h <= N /\ N <= Size(text)
      BY <1>2, <2>6
    <3> QED
      BY <2>6, <3>1, SlicesMeet
  <2>13. Between(Rest(f), sep) = Substr(text, x, N)
    BY <2>7, <2>8, <2>9, <2>11, <2>12
  <2> QED
    BY <2>1, <2>2, <2>3, <2>13
<1>14. \A k \in 0 .. n : k \in Good
  <2> HIDE DEF Good
  <2> QED
    BY <1>12, <1>13, UpTo
<1>15. ASSUME NEW f \in 0 .. n
       PROVE  Between(Rest(f), sep) = Substr(text, s[f], N)
  <2>1. n - f \in 0 .. n /\ n - (n - f) = f
    OBVIOUS
  <2>2. n - f \in Good
    BY <1>14, <2>1
  <2> QED
    BY <2>1, <2>2
<1> HIDE DEF Good
<1>16. Between(q, sep) = text
  <2>1. 0 \in 0 .. n /\ Rest(0) = q
    <3>1. Rest(0) \in Seq(String) /\ Len(Rest(0)) = n + 1 /\ \A i \in 1 .. n + 1 : Rest(0)[i] = q[i]
      <4>1. 0 \in 0 .. n /\ (n + 1) - 0 = n + 1 /\ \A i \in 1 .. n + 1 : 0 + i = i
        OBVIOUS
      <4> QED
        BY <1>11, <4>1
    <3> QED
      BY <1>8, <3>1, SeqEqual
  <2>2. Substr(text, 0, N) = text
    BY <1>2, TextType DEF Substr
  <2> QED
    BY <1>9, <1>15, <2>1, <2>2
<1>17. ASSUME NEW i \in 1 .. n + 1, NEW tail, tail = Between(SubSeq(q, i, n + 1), sep)
       PROVE  IF i = n + 1 THEN NoHit(tail, sep, 0) ELSE FirstHit(tail, sep, 0) = Size(q[i])
  <2>1. PICK f \in 0 .. n : i = f + 1
    <3>1. i - 1 \in 0 .. n /\ i = (i - 1) + 1
      OBVIOUS
    <3> QED
      BY <3>1
  <2>2. PICK x \in 0 .. N : x = s[f]
    BY <1>10
  <2>3. tail = Substr(text, x, Size(text))
    BY <1>2, <1>15, <1>17, <2>1, <2>2 DEF Rest
  <2>4. /\ NoHit(tail, sep, 0) <=> NoHit(text, sep, x)
        /\ ~NoHit(text, sep, x) => FirstHit(tail, sep, 0) = FirstHit(text, sep, x) - x
    <3>1. x \in 0 .. Size(text)
      BY <1>2
    <3> QED
      BY <2>3, <3>1, RestHits
  <2>5. CASE i = n + 1
    <3>1. x = b
      BY <1>9, <2>1, <2>2, <2>5
    <3> QED
      BY <1>1, <2>4, <2>5, <3>1
  <2>6. CASE i # n + 1
    <3>1. f \in 0 .. n - 1
      BY <2>1, <2>6
    <3>2. ~NoHit(text, sep, x) /\ q[i] = Substr(text, x, FirstHit(text, sep, x))
      BY <1>9, <2>1, <2>2, <3>1 DEF IsCut
    <3>3. FirstHit(text, sep, x) \in x .. Size(text) /\ x \in Nat /\ FirstHit(text, sep, x) \in Nat
      BY <3>2, HitIs
    <3>4. Size(q[i]) = FirstHit(text, sep, x) - x
      <4>1. PICK h \in Nat : h = FirstHit(text, sep, x)
        BY <3>3
      <4>2. x <= h /\ h <= Size(text) /\ x \in Nat
        BY <1>2, <3>3, <4>1
      <4> QED
        BY <3>2, <4>1, <4>2, SliceType
    <3> QED
      BY <2>4, <2>6, <3>2, <3>4
  <2> QED
    BY <2>5, <2>6
<1>18. q # << >>
  BY <1>8
<1>19. PartsOf(q, text, sep)
  BY <1>8, <1>16, <1>17, <1>18 DEF PartsOf
<1> QED
  BY <1>1, <1>2, <1>6, <1>7, <1>19

---------------------------------------------------------------------------
(* replace.                                                                *)

\* An occurrence counts when it overlaps none before it that does.
LEMMA CountedIs ==
  ASSUME NEW text \in String, NEW what \in String
  PROVE  /\ Counted(text, what) \subseteq 0 .. Size(text)
         /\ \A at \in 0 .. Size(text) :
              at \in Counted(text, what) <=>
                /\ Occurs(text, what, at)
                /\ \A p \in 0 .. at - 1 : p + Size(what) > at => p \notin Counted(text, what)
<1>1. PICK N \in Nat : N = Size(text)
  BY TextType
<1> DEFINE Counts(f, at) == /\ Occurs(text, what, at)
                            /\ \A p \in 0 .. at - 1 : p + Size(what) > at => ~f[p]
           Body(f) == [at \in 0 .. N |-> Counts(f, at)]
           C == CHOOSE f : f = Body(f)
           Has(m) == \E f : \A at \in 0 .. m : f[at] = Counts(f, at)
           Exist == { m \in 0 .. N : Has(m) }
<1>2. Counted(text, what) = { at \in 0 .. N : C[at] }
  BY <1>1 DEF Counted
<1>3. ASSUME NEW f, NEW g, NEW at \in Nat, \A p \in 0 .. at - 1 : f[p] = g[p]
      PROVE  Counts(f, at) = Counts(g, at)
  <2>1. Counts(f, at) <=> Counts(g, at)
    BY <1>3
  <2>2. Counts(f, at) \in BOOLEAN /\ Counts(g, at) \in BOOLEAN
    BY Zenon
  <2> HIDE DEF Counts
  <2> QED
    BY <2>1, <2>2
<1> HIDE DEF Counts
<1>4. 0 \in Exist
  <2>1. PICK b : b = Counts(<< >>, 0)
    OBVIOUS
  <2>2. PICK f : f = [at \in {0} |-> b]
    OBVIOUS
  <2>3. f[0] = b /\ 0 \in Nat /\ \A p \in 0 .. 0 - 1 : f[p] = << >>[p]
    BY <2>2
  <2>4. Counts(f, 0) = Counts(<< >>, 0)
    BY <1>3, <2>3
  <2>5. \A at \in 0 .. 0 : at = 0
    OBVIOUS
  <2>6. Has(0)
    BY <2>1, <2>3, <2>4, <2>5, Zenon
  <2> HIDE DEF Has
  <2> QED
    BY <2>6
<1>5. ASSUME NEW m \in 0 .. N - 1, m \in Exist
      PROVE  m + 1 \in Exist
  <2>1. PICK g : \A at \in 0 .. m : g[at] = Counts(g, at)
    BY <1>5
  <2>2. PICK b : b = Counts(g, m + 1)
    OBVIOUS
  <2>3. PICK f : f = [at \in 0 .. m + 1 |-> IF at = m + 1 THEN b ELSE g[at]]
    OBVIOUS
  <2>4. /\ \A at \in 0 .. m : f[at] = g[at]
        /\ f[m + 1] = b
    BY <2>3
  <2>5. ASSUME NEW at \in 0 .. m + 1
        PROVE  f[at] = Counts(f, at)
    <3>1. at \in Nat /\ \A p \in 0 .. at - 1 : p \in 0 .. m
      OBVIOUS
    <3>2. Counts(f, at) = Counts(g, at)
      BY <1>3, <2>4, <3>1
    <3>3. at \in 0 .. m \/ at = m + 1
      OBVIOUS
    <3> QED
      BY <2>1, <2>2, <2>4, <3>2, <3>3, Zenon
  <2>6. Has(m + 1)
    BY <2>5, Zenon
  <2> HIDE DEF Has
  <2>7. m + 1 \in 0 .. N
    OBVIOUS
  <2> QED
    BY <2>6, <2>7
<1>6. Has(N)
  <2> HIDE DEF Has
  <2>1. N \in 0 .. N
    OBVIOUS
  <2> HIDE DEF Exist
  <2>2. N \in Exist
    BY <1>4, <1>5, <2>1, UpTo
  <2> QED
    BY <2>2 DEF Exist
<1>7. \E f : f = Body(f)
  <2>1. PICK g : \A at \in 0 .. N : g[at] = Counts(g, at)
    BY <1>6
  <2>2. PICK f : f = [at \in 0 .. N |-> g[at]]
    OBVIOUS
  <2>3. ASSUME NEW at \in 0 .. N
        PROVE  f[at] = Counts(f, at)
    <3>1. at \in Nat /\ \A p \in 0 .. at - 1 : f[p] = g[p]
      BY <2>2
    <3>2. Counts(f, at) = Counts(g, at)
      BY <1>3, <3>1
    <3> QED
      BY <2>1, <2>2, <3>2
  <2>4. f = [at \in 0 .. N |-> f[at]]
    BY <2>2
  <2>5. f = Body(f)
    BY <2>3, <2>4, Zenon
  <2> QED
    BY <2>5, Zenon
<1>8. PICK f : f = C /\ f = Body(f)
  <2> HIDE DEF Body
  <2> QED
    BY <1>7, Zenon
<1>9. \A at \in 0 .. N : f[at] = Counts(f, at)
  <2> HIDE DEF C
  <2> QED
    BY <1>8
<1> HIDE DEF C, Body
<1>10. \A at : at \in Counted(text, what) <=> at \in 0 .. N /\ f[at]
  BY <1>2, <1>8
<1>11. ASSUME NEW at \in 0 .. N
       PROVE  at \in Counted(text, what) <=>
                /\ Occurs(text, what, at)
                /\ \A p \in 0 .. at - 1 : p + Size(what) > at => p \notin Counted(text, what)
  <2>1. at \in Counted(text, what) <=> Counts(f, at)
    BY <1>9, <1>10, Zenon
  <2>2. \A p \in 0 .. at - 1 : p \in 0 .. N
    BY <1>1
  <2> QED
    BY <1>10, <2>1, <2>2, Zenon DEF Counts
<1>12. Counted(text, what) \subseteq 0 .. N
  BY <1>10, Zenon
<1> QED
  BY <1>1, <1>11, <1>12

\* What is written for each byte of a text.
Covers(counted, m, at) == \E p \in counted : p < at /\ at < p + m
Pieces(text, what, with) ==
  [i \in 1 .. Size(text) |->
     IF i - 1 \in Counted(text, what) THEN with
     ELSE IF Covers(Counted(text, what), Size(what), i - 1) THEN << >> ELSE <<text[i]>>]

ArePieces(p, text, counted, m, with) ==
  /\ Len(p) = Size(text)
  /\ \A at \in 0 .. Size(text) - 1 :
       p[at + 1] = IF at \in counted THEN with
                   ELSE IF Covers(counted, m, at) THEN << >> ELSE <<text[at + 1]>>

LEMMA PiecesAre ==
  ASSUME NEW text \in String, NEW what \in String, NEW with \in String
  PROVE  /\ Pieces(text, what, with) \in Seq(String)
         /\ ArePieces(Pieces(text, what, with), text, Counted(text, what), Size(what), with)
         /\ Len(Pieces(text, what, with)) = Size(text)
         /\ Replaced(text, what, with) = FlattenSeq(Pieces(text, what, with))
<1>1. PICK N \in Nat : N = Size(text) /\ N = Len(text)
  BY TextType
<1>2. text \in Seq(0 .. 255) /\ \A i \in 1 .. N : text[i] \in 0 .. 255
  BY <1>1 DEF String
<1>3. /\ \A i \in 1 .. N : <<text[i]>> \in String
      /\ << >> \in String
  <2>1. (\A x \in 0 .. 255 : <<x>> \in Seq(0 .. 255)) /\ << >> \in Seq(0 .. 255)
    OBVIOUS
  <2> QED
    BY <1>2, <2>1, Zenon DEF String
<1> DEFINE Piece(i) == IF i - 1 \in Counted(text, what) THEN with
                       ELSE IF Covers(Counted(text, what), Size(what), i - 1) THEN << >>
                       ELSE <<text[i]>>
<1>4. \A i \in 1 .. N : Piece(i) \in String
  BY <1>3, Zenon
<1>5. PICK p : p = Pieces(text, what, with)
  OBVIOUS
<1>6. p = [i \in 1 .. N |-> Piece(i)]
  BY <1>1, <1>5 DEF Pieces
<1>7. p \in Seq(String) /\ Len(p) = N /\ \A i \in 1 .. N : p[i] = Piece(i)
  <2> HIDE DEF Piece
  <2> QED
    BY <1>4, <1>6
<1>8. \A at \in 0 .. N - 1 : p[at + 1] =
         IF at \in Counted(text, what) THEN with
         ELSE IF Covers(Counted(text, what), Size(what), at) THEN << >> ELSE <<text[at + 1]>>
  <2> TAKE at \in 0 .. N - 1
  <2>1. at + 1 \in 1 .. N /\ (at + 1) - 1 = at
    OBVIOUS
  <2> QED
    BY <1>7, <2>1
<1>9. Replaced(text, what, with) = FlattenSeq(p)
  BY <1>5 DEF Replaced, Pieces, Covers
<1>10. ArePieces(p, text, Counted(text, what), Size(what), with)
  BY <1>1, <1>7, <1>8, Zenon DEF ArePieces
<1> QED
  BY <1>1, <1>5, <1>7, <1>9, <1>10

\* Pieces that are the bytes of a text, one after another, are a slice of it.
LEMMA PlainRun ==
  ASSUME NEW text \in String, NEW p \in Seq(String), Len(p) = Size(text),
         NEW b \in Nat, NEW h \in Nat, b <= h, h <= Size(text),
         \A at \in b .. h - 1 : p[at + 1] = <<text[at + 1]>>
  PROVE  First(p, h) = First(p, b) \o Substr(text, b, h)
<1>1. PICK N \in Nat : N = Size(text)
  BY TextType
<1>2. /\ \A n \in 0 .. N : First(p, n) \in String
      /\ \A n \in 0 .. N - 1 : First(p, n + 1) = First(p, n) \o p[n + 1]
  BY <1>1, FirstTexts
<1>3. PICK u \in String : u = First(p, b)
  BY <1>1, <1>2
<1> DEFINE Good == { k \in 0 .. h - b : First(p, b + k) = u \o Substr(text, b, b + k) }
<1>4. 0 \in Good
  <2>1. Substr(text, b, b) = << >>
    BY SubSeqEmpty DEF Substr
  <2>2. u \o << >> = u
    BY NothingInFront
  <2>3. 0 \in 0 .. h - b /\ b + 0 = b
    OBVIOUS
  <2> QED
    BY <1>3, <2>1, <2>2, <2>3
<1>5. ASSUME NEW k \in 0 .. (h - b) - 1, k \in Good
      PROVE  k + 1 \in Good
  <2>1. PICK n \in Nat : n = b + k
    OBVIOUS
  <2>2. /\ n \in b .. h - 1 /\ n \in 0 .. N - 1 /\ b <= n /\ n < Size(text) /\ n + 1 = b + (k + 1)
        /\ k + 1 \in 0 .. h - b
    BY <1>1, <2>1
  <2>3. First(p, n + 1) = First(p, n) \o p[n + 1] /\ p[n + 1] = <<text[n + 1]>>
    BY <1>2, <2>2
  <2>4. /\ Substr(text, b, n) \in String
        /\ Substr(text, b, n + 1) = Substr(text, b, n) \o <<text[n + 1]>>
    BY <2>2, SliceGrows
  <2>5. First(p, n) = u \o Substr(text, b, n)
    BY <1>5, <2>1
  <2>6. PICK x \in String, y \in String : x = Substr(text, b, n) /\ y = <<text[n + 1]>>
    <3>1. n + 1 \in 1 .. Len(p)
      BY <1>1, <2>2
    <3>2. p[n + 1] \in String
      BY <3>1, FirstTexts
    <3> QED
      BY <2>3, <2>4, <3>2
  <2>7. (u \o x) \o y = u \o (x \o y)
    BY TextsAssociate
  <2>8. First(p, n + 1) = u \o Substr(text, b, n + 1)
    BY <2>3, <2>4, <2>5, <2>6, <2>7, Zenon
  <2> QED
    BY <2>2, <2>8
<1>6. h - b \in Nat /\ h - b \in 0 .. h - b /\ b + (h - b) = h
  OBVIOUS
<1> HIDE DEF Good
<1>7. h - b \in Good
  BY <1>4, <1>5, <1>6, UpTo
<1> QED
  BY <1>3, <1>6, <1>7 DEF Good

\* Pieces that are nothing add nothing.
LEMMA EmptyRun ==
  ASSUME NEW p \in Seq(String), NEW b \in Nat, NEW h \in Nat, b <= h, h <= Len(p),
         \A at \in b .. h - 1 : p[at + 1] = << >>
  PROVE  First(p, h) = First(p, b)
<1>1. PICK N \in Nat : N = Len(p)
  BY FirstTexts
<1>2. /\ \A n \in 0 .. N : First(p, n) \in String
      /\ \A n \in 0 .. N - 1 : First(p, n + 1) = First(p, n) \o p[n + 1]
  BY <1>1, FirstTexts
<1> DEFINE Good == { k \in 0 .. h - b : First(p, b + k) = First(p, b) }
<1>3. 0 \in Good
  <2>1. 0 \in 0 .. h - b /\ b + 0 = b
    OBVIOUS
  <2> QED
    BY <2>1
<1>4. ASSUME NEW k \in 0 .. (h - b) - 1, k \in Good
      PROVE  k + 1 \in Good
  <2>1. PICK n \in Nat : n = b + k
    OBVIOUS
  <2>2. n \in b .. h - 1 /\ n \in 0 .. N - 1 /\ n \in 0 .. N /\ n + 1 = b + (k + 1)
        /\ k + 1 \in 0 .. h - b
    BY <1>1, <2>1
  <2>3. First(p, n + 1) = First(p, n) \o << >> /\ First(p, n) \in String
    BY <1>2, <2>2
  <2>4. First(p, n + 1) = First(p, n)
    BY <2>3, NothingInFront
  <2>5. First(p, n) = First(p, b)
    BY <1>4, <2>1
  <2> QED
    BY <2>2, <2>4, <2>5
<1>5. h - b \in Nat /\ h - b \in 0 .. h - b /\ b + (h - b) = h
  OBVIOUS
<1> HIDE DEF Good
<1>6. h - b \in Good
  BY <1>3, <1>4, <1>5, UpTo
<1> QED
  BY <1>5, <1>6 DEF Good

\* No occurrence that counts before x reaches behind y; and between them none starts.
ReachNot(text, what, x, y) == \A p \in Counted(text, what) : p < x => p + Size(what) <= y
NoneStarts(text, what, x, y) == \A at \in x .. y - 1 : ~Occurs(text, what, at)

\* What replace has built so far is the pieces before b.
Replacing(a, b, u) ==
  /\ b \in 0 .. Size(a[1])
  /\ u = First(Pieces(a[1], a[2], a[3]), b)
  /\ ReachNot(a[1], a[2], b, b)

LEMMA ReplacingBegins ==
  ASSUME NEW a \in String \X String \X String
  PROVE  Replacing(a, 0, << >>)
<1>1. a[1] \in String /\ a[2] \in String /\ a[3] \in String
  OBVIOUS
<1>2. 0 \in 0 .. Size(a[1])
  BY <1>1, TextType
<1>3. First(Pieces(a[1], a[2], a[3]), 0) = << >>
  <2>1. Pieces(a[1], a[2], a[3]) \in Seq(String)
    BY <1>1, PiecesAre
  <2> QED
    BY <2>1, FirstTexts
<1>4. ReachNot(a[1], a[2], 0, 0)
  <2>1. Counted(a[1], a[2]) \subseteq 0 .. Size(a[1])
    BY <1>1, CountedIs
  <2>2. \A p \in 0 .. Size(a[1]) : ~(p < 0)
    BY <1>1, TextType
  <2> QED
    BY <2>1, <2>2, Zenon DEF ReachNot
<1> QED
  BY <1>2, <1>3, <1>4, Zenon DEF Replacing

\* Where nothing occurs before h, the bytes up to h stay as they are.
LEMMA NothingReplaced ==
  ASSUME NEW text \in String, NEW what \in String, NEW with \in String,
         NEW b \in 0 .. Size(text), NEW h \in b .. Size(text),
         ReachNot(text, what, b, b), NoneStarts(text, what, b, h)
  PROVE  /\ First(Pieces(text, what, with), h) =
              First(Pieces(text, what, with), b) \o Substr(text, b, h)
         /\ ReachNot(text, what, h, b)
<1>1. PICK N \in Nat, m \in Nat : N = Size(text) /\ m = Size(what)
  BY TextType
<1>2. PICK C : C = Counted(text, what)
  OBVIOUS
<1>3. /\ C \subseteq 0 .. N
      /\ \A at \in 0 .. N : at \in C => Occurs(text, what, at)
  BY <1>1, <1>2, CountedIs
<1>4. PICK p \in Seq(String) : p = Pieces(text, what, with)
  BY PiecesAre
<1>5. /\ Len(p) = N
      /\ \A at \in 0 .. N - 1 :
           p[at + 1] = IF at \in C THEN with ELSE IF Covers(C, m, at) THEN << >> ELSE <<text[at + 1]>>
  <2>1. ArePieces(p, text, Counted(text, what), Size(what), with)
    BY <1>4, PiecesAre
  <2> QED
    BY <1>1, <1>2, <2>1, Zenon DEF ArePieces
<1>6. b \in Nat /\ h \in Nat /\ b <= h /\ h <= N
  BY <1>1
<1>7. \A at \in b .. h - 1 : at \in 0 .. N /\ at \in 0 .. N - 1
  BY <1>6
<1>8. \A at \in b .. h - 1 : at \notin C
  BY <1>3, <1>7 DEF NoneStarts
<1>9. ASSUME NEW x \in C, x < h
      PROVE  x + m <= b
  <2>1. x \in 0 .. N
    BY <1>3
  <2>2. x < b
    BY <1>6, <1>8, <1>9, <2>1
  <2> QED
    BY <1>1, <1>2, <2>2 DEF ReachNot
<1>10. ASSUME NEW at \in b .. h - 1
       PROVE  p[at + 1] = <<text[at + 1]>>
  <2>1. ~Covers(C, m, at)
    <3> SUFFICES ASSUME NEW x \in C, x < at, at < x + m
                 PROVE  FALSE
      BY DEF Covers
    <3>1. x \in 0 .. N /\ at \in 0 .. N
      BY <1>3, <1>7
    <3>2. x < h
      BY <1>6, <3>1
    <3>3. x + m <= b
      BY <1>9, <3>2
    <3> QED
      BY <1>6, <3>1, <3>3
  <2> QED
    BY <1>5, <1>7, <1>8, <2>1
<1>11. First(p, h) = First(p, b) \o Substr(text, b, h)
  <2>1. Len(p) = Size(text) /\ h <= Size(text)
    BY <1>1, <1>5, <1>6
  <2> QED
    BY <1>6, <1>10, <2>1, PlainRun
<1>12. ReachNot(text, what, h, b)
  BY <1>1, <1>2, <1>9 DEF ReachNot
<1> QED
  BY <1>4, <1>11, <1>12

\* The next occurrence counts: its first byte is the new text, and its others nothing.
LEMMA HitReplaced ==
  ASSUME NEW text \in String, NEW what \in String, NEW with \in String, what # << >>,
         NEW b \in 0 .. Size(text), NEW h \in b .. Size(text), Occurs(text, what, h),
         ReachNot(text, what, h, b), NEW to, to = h + Size(what)
  PROVE  /\ First(Pieces(text, what, with), to) = First(Pieces(text, what, with), h) \o with
         /\ ReachNot(text, what, to, to)
<1>1. PICK N \in Nat, m \in Nat \ {0} : N = Size(text) /\ m = Size(what)
  BY TextType
<1>2. PICK C : C = Counted(text, what)
  OBVIOUS
<1>3. /\ C \subseteq 0 .. N
      /\ \A at \in 0 .. N :
           at \in C <=> /\ Occurs(text, what, at)
                        /\ \A p \in 0 .. at - 1 : p + m > at => p \notin C
  BY <1>1, <1>2, CountedIs
<1>4. PICK p \in Seq(String) : p = Pieces(text, what, with)
  BY PiecesAre
<1>5. /\ Len(p) = N
      /\ \A at \in 0 .. N - 1 :
           p[at + 1] = IF at \in C THEN with ELSE IF Covers(C, m, at) THEN << >> ELSE <<text[at + 1]>>
  <2>1. ArePieces(p, text, Counted(text, what), Size(what), with)
    BY <1>4, PiecesAre
  <2> QED
    BY <1>1, <1>2, <2>1, Zenon DEF ArePieces
<1>6. b \in Nat /\ h \in Nat /\ b <= h /\ h + m <= N /\ h \in 0 .. N /\ h \in 0 .. N - 1
  BY <1>1 DEF Occurs
<1>7. \A x \in C : x < h => x + m <= b
  BY <1>1, <1>2 DEF ReachNot
<1>8. h \in C
  <2>1. ASSUME NEW x \in 0 .. h - 1, x + m > h, x \in C
        PROVE  FALSE
    <3>1. x < h
      BY <1>6
    <3>2. x + m <= b
      BY <1>7, <2>1, <3>1
    <3> QED
      BY <1>6, <2>1, <3>2
  <2> QED
    BY <1>3, <1>6, <2>1
<1>9. ASSUME NEW at \in h + 1 .. (h + m) - 1
      PROVE  at \in 0 .. N - 1 /\ at \notin C /\ Covers(C, m, at)
  <2>1. at \in 0 .. N - 1 /\ at \in 0 .. N /\ h \in 0 .. at - 1 /\ h + m > at /\ h < at /\ at < h + m
    BY <1>6
  <2>2. at \notin C
    BY <1>3, <1>8, <2>1, Zenon
  <2>3. Covers(C, m, at)
    BY <1>8, <2>1, Zenon DEF Covers
  <2> QED
    BY <2>1, <2>2, <2>3
<1>10. ASSUME NEW x \in C, x < h + m
       PROVE  x + m <= h + m
  <2>1. x \in 0 .. N
    BY <1>3
  <2>2. x \notin h + 1 .. (h + m) - 1
    BY <1>9
  <2> QED
    BY <1>6, <1>10, <2>1, <2>2
<1>11. First(p, h + 1) = First(p, h) \o with
  <2>1. p[h + 1] = with
    BY <1>5, <1>6, <1>8
  <2>2. \A n \in 0 .. N - 1 : First(p, n + 1) = First(p, n) \o p[n + 1]
    BY <1>5, FirstTexts
  <2> QED
    BY <1>6, <2>1, <2>2
<1>12. First(p, h + m) = First(p, h + 1)
  <2>1. h + 1 \in Nat /\ h + m \in Nat /\ h + 1 <= h + m /\ h + m <= Len(p)
    BY <1>5, <1>6
  <2>2. \A at \in h + 1 .. (h + m) - 1 : p[at + 1] = << >>
    BY <1>5, <1>9
  <2> QED
    BY <2>1, <2>2, EmptyRun
<1>13. ReachNot(text, what, h + Size(what), h + Size(what))
  BY <1>1, <1>2, <1>10 DEF ReachNot
<1> QED
  BY <1>1, <1>4, <1>6, <1>11, <1>12, <1>13

LEMMA ReplacingGoesOn ==
  ASSUME NEW a \in String \X String \X String, NEW b, NEW u, Replacing(a, b, u),
         a[2] # << >>, ~NoHit(a[1], a[2], b),
         NEW hit, hit = FirstHit(a[1], a[2], b)
  PROVE  Replacing(a, After(hit, a[2]), u \o Substr(a[1], b, hit) \o a[3])
<1>1. PICK text \in String, what \in String, with \in String :
        text = a[1] /\ what = a[2] /\ with = a[3]
  OBVIOUS
<1>2. PICK p : p = Pieces(text, what, with)
  OBVIOUS
<1>3. /\ b \in 0 .. Size(text) /\ b \in Nat /\ u = First(p, b)
      /\ ReachNot(text, what, b, b)
  BY <1>1, <1>2, TextType DEF Replacing
<1>4. /\ hit \in b .. Size(text) /\ hit \in Nat /\ Occurs(text, what, hit)
      /\ NoneStarts(text, what, b, hit)
  BY <1>1, <1>3, HitIs DEF NoneStarts
<1>5. /\ First(p, hit) = u \o Substr(text, b, hit)
      /\ ReachNot(text, what, hit, b)
  BY <1>2, <1>3, <1>4, NothingReplaced
<1>6. PICK to : to = After(hit, what) /\ to = hit + Size(what)
  BY DEF After
<1>7. First(p, to) = First(p, hit) \o with /\ ReachNot(text, what, to, to)
  <2>1. what # << >>
    BY <1>1
  <2>2. PICK h \in b .. Size(text) : h = hit /\ to = h + Size(what)
    BY <1>4, <1>6
  <2>3. Occurs(text, what, h) /\ ReachNot(text, what, h, b)
    BY <1>4, <1>5, <2>2
  <2>4. /\ First(Pieces(text, what, with), to) = First(Pieces(text, what, with), h) \o with
        /\ ReachNot(text, what, to, to)
    BY <1>3, <2>1, <2>2, <2>3, HitReplaced
  <2> QED
    BY <1>2, <2>2, <2>4, Zenon
<1>8. to \in 0 .. Size(text)
  BY <1>4, <1>6, TextType DEF Occurs
<1>9. First(p, to) = u \o Substr(text, b, hit) \o with
  BY <1>5, <1>7
<1> QED
  BY <1>1, <1>2, <1>6, <1>7, <1>8, <1>9, Zenon DEF Replacing

LEMMA ReplacingEnds ==
  ASSUME NEW a \in String \X String \X String, NEW b, NEW u, Replacing(a, b, u),
         NoHit(a[1], a[2], b)
  PROVE  u \o Substr(a[1], b, Size(a[1])) = Replaced(a[1], a[2], a[3])
<1>1. PICK text \in String, what \in String, with \in String :
        text = a[1] /\ what = a[2] /\ with = a[3]
  OBVIOUS
<1>2. PICK p \in Seq(String) : p = Pieces(text, what, with)
  BY PiecesAre
<1>3. /\ b \in 0 .. Size(text) /\ b \in Nat /\ u = First(p, b) /\ Size(text) \in Nat
      /\ ReachNot(text, what, b, b)
  BY <1>1, <1>2, TextType DEF Replacing
<1>4. NoneStarts(text, what, b, Size(text))
  <2>1. \A at \in b .. Size(text) - 1 : at \in b .. Size(text)
    BY <1>3
  <2> QED
    BY <1>1, <2>1 DEF NoHit, Hits, NoneStarts
<1>5. Size(text) \in b .. Size(text)
  BY <1>3
<1>6. First(p, Size(text)) = u \o Substr(text, b, Size(text))
  BY <1>2, <1>3, <1>4, <1>5, NothingReplaced
<1>7. Replaced(text, what, with) = First(p, Size(text))
  <2>1. Replaced(text, what, with) = FlattenSeq(p) /\ Len(p) = Size(text)
    BY <1>2, PiecesAre
  <2> QED
    BY <2>1, FirstTexts
<1> QED
  BY <1>1, <1>6, <1>7

---------------------------------------------------------------------------
(* The builtins on text keep what is documented.                           *)

\* What is documented of a call that returned r.
SplitAs(a, r) == IF a[2] = << >> THEN FlattenSeq(r) = a[1] /\ Len(r) = Size(a[1])
                 ELSE PartsOf(r, a[1], a[2])
ReplaceAs(a, r) == r = IF a[2] = << >> THEN a[1] ELSE Replaced(a[1], a[2], a[3])
TrimAs(a, r) ==
  /\ \E x, y \in 0 .. Size(a[1]) : Inside(a[1], x, y) /\ r = Substr(a[1], x, y)
  /\ r # << >> => ~IsSpace(Head(r)) /\ ~IsSpace(Last(r))
FindAs(a, r) ==
  /\ r = -1 <=> NoHit(a[1], a[2], 0)
  /\ r # -1 => Occurs(a[1], a[2], r) /\ \A at \in 0 .. r - 1 : ~Occurs(a[1], a[2], at)

Documented(name, a, r) ==
  /\ name = "split"   => SplitAs(a, r)
  /\ name = "join"    => r = Between(a[1], a[2])
  /\ name = "replace" => ReplaceAs(a, r)
  /\ name = "repeat"  => r = FlattenSeq(Units(a))
  /\ name = "trim"    => TrimAs(a, r)
  /\ name = "find"    => FindAs(a, r)

LEMMA TextDocumented ==
  TextAsDocumented <=>
    \A i \in DOMAIN results : Documented(run.calls[i].name, run.calls[i].args, results[i])
  BY Zenon DEF TextAsDocumented, Documented, Returned, SplitAs, ReplaceAs, TrimAs, FindAs, Units

\* How far a call is.
Stage(c, b, u) ==
  /\ c.name = "repeat" => Repeating(c.args, b, u)
  /\ c.name = "join"   => Joining(c.args, b, u)
  /\ c.name = "split" /\ c.args[2] # << >>   => Splitting(c.args, b, u)
  /\ c.name = "replace" /\ c.args[2] # << >> => Replacing(c.args, b, u)

Open   == status = "running" /\ Len(results) < Len(run.calls)
Staged == Open => Stage(Call, begin, built)

LEMMA StageBegins ==
  ASSUME NEW c, Typed(c)
  PROVE  Stage(c, 0, << >>)
<1>1. CASE c.name = "repeat"
  <2>1. c.args \in String \X IntRange
    BY <1>1 DEF Typed
  <2> QED
    BY <1>1, <2>1, RepeatingIs DEF Stage
<1>2. CASE c.name = "join"
  <2>1. c.args \in Seq(String) \X String
    BY <1>2 DEF Typed
  <2> QED
    BY <1>2, <2>1, JoiningIs DEF Stage
<1>3. CASE c.name = "split"
  <2>1. c.args \in String \X String
    BY <1>3 DEF Typed
  <2> QED
    BY <1>3, <2>1, SplittingBegins DEF Stage
<1>4. CASE c.name = "replace"
  <2>1. c.args \in String \X String \X String
    BY <1>4 DEF Typed
  <2> QED
    BY <1>4, <2>1, ReplacingBegins DEF Stage
<1> QED
  BY <1>1, <1>2, <1>3, <1>4 DEF Stage

\* The call under way has the arguments that its name asks for.
LEMMA OpenTyped ==
  ASSUME Progress, Open
  PROVE  Typed(Call)
<1>1. Calling({Call.name})
  BY DEF Open, Calling
<1> QED
  BY <1>1, CallTyped

\* A call answers once.
LEMMA OneAnswer ==
  ASSUME Progress, NEW v, Gives(v), NEW w, Gives(w)
  PROVE  v = w
<1>1. Append(results, v) = Append(results, w)
  BY DEF Gives
<1>2. Append(results, v)[Len(results) + 1] = v /\ Append(results, w)[Len(results) + 1] = w
  BY AppendIsNew DEF Progress
<1> QED
  BY <1>1, <1>2

\* A turn of a loop is one of these.
LEMMA TurnActions ==
  ASSUME Progress, Next, Turns
  PROVE  \/ SplitAtHit \/ ReplaceAtHit \/ Join \/ Repeat \/ TrimFront \/ TrimBehind
<1>1. ASSUME NEW v, Gives(v) PROVE FALSE
  BY <1>1, AppendIsNew DEF Gives, Turns, Progress
<1>2. ASSUME NEW how, how # "running", status = "running", Stops(how) PROVE FALSE
  BY <1>2 DEF Stops, Turns
<1>3. ~Ended
  <2>1. Ended => begin' = begin /\ cut' = cut
    BY DEF Ended, vars, loop
  <2>2. ~(begin + cut > begin + cut)
    BY DEF Progress
  <2> QED
    BY <2>1, <2>2, Zenon DEF Turns
<1>4. ~SplitIntoBytes /\ ~SplitRest /\ ~ReplaceNothing /\ ~ReplaceRest /\ ~FindText /\ ~ChangeCase
  BY <1>1, Zenon DEF SplitIntoBytes, SplitRest, ReplaceNothing, ReplaceRest, FindText, ChangeCase,
     Returns
<1>5. ~TrimDone /\ ~InputLine /\ ~InputRest /\ ~InputNothing /\ ~Eof
  BY <1>1, Zenon DEF TrimDone, InputLine, InputRest, InputNothing, Eof, Returns
<1>6. ~RepeatRefused /\ ~RandIntUndefined
  BY <1>2 DEF RepeatRefused, RandIntUndefined, Calling, Fails
<1>7. ~ParseInt /\ ~Chr /\ ~Ord /\ ~RandInt
  <2>1. ASSUME NEW names, Calling(names), Fails PROVE FALSE
    BY <1>2, <2>1 DEF Fails, Calling
  <2> QED
    BY <1>1, <2>1, Zenon DEF ParseInt, Chr, Ord, RandInt, Returns
<1> QED
  BY <1>3, <1>4, <1>5, <1>6, <1>7, Zenon DEF Next

\* A turn gets a call one stage further.
LEMMA StageGoesOn ==
  ASSUME Progress, Staged, Next, Turns, Open
  PROVE  Stage(Call, begin', built')
<1>1. Typed(Call) /\ Stage(Call, begin, built)
  BY OpenTyped DEF Staged
<1>2. CASE SplitAtHit
  <2>1. Call.name = "split" /\ Call.args[2] # << >>
    BY <1>2 DEF SplitAtHit, Calling, Sought, Arg
  <2>2. Call.args \in String \X String /\ Splitting(Call.args, begin, built)
    BY <1>1, <2>1 DEF Typed, Stage
  <2>3. PICK hit : hit = FirstHit(Call.args[1], Call.args[2], begin)
    OBVIOUS
  <2>4. /\ ~NoHit(Call.args[1], Call.args[2], begin)
        /\ built' = Append(built, Substr(Call.args[1], begin, hit))
        /\ begin' = After(hit, Call.args[2])
    BY <1>2, <2>3 DEF SplitAtHit, Arg
  <2>5. Splitting(Call.args, begin', built')
    BY <2>2, <2>3, <2>4, SplittingGoesOn
  <2> QED
    BY <2>1, <2>5 DEF Stage
<1>3. CASE ReplaceAtHit
  <2>1. Call.name = "replace" /\ Call.args[2] # << >>
    BY <1>3 DEF ReplaceAtHit, Calling, Sought, Arg
  <2>2. Call.args \in String \X String \X String /\ Replacing(Call.args, begin, built)
    BY <1>1, <2>1 DEF Typed, Stage
  <2>3. PICK hit : hit = FirstHit(Call.args[1], Call.args[2], begin)
    OBVIOUS
  <2>4. /\ ~NoHit(Call.args[1], Call.args[2], begin)
        /\ built' = built \o Substr(Call.args[1], begin, hit) \o Call.args[3]
        /\ begin' = After(hit, Call.args[2])
    BY <1>3, <2>3 DEF ReplaceAtHit, Arg
  <2>5. Replacing(Call.args, begin', built')
    BY <2>1, <2>2, <2>3, <2>4, ReplacingGoesOn
  <2> QED
    BY <2>1, <2>5 DEF Stage
<1>4. CASE Join
  <2>1. Call.name = "join"
    BY <1>4 DEF Join, Calling
  <2>2. Call.args \in Seq(String) \X String /\ Joining(Call.args, begin, built)
    BY <1>1, <2>1 DEF Typed, Stage
  <2>3. ~Returns(built)
    BY AppendIsNew DEF Returns, Gives, Turns, Progress
  <2>4. /\ begin < Len(Call.args[1])
        /\ built' = built \o (IF begin > 0 THEN Call.args[2] ELSE << >>) \o Call.args[1][begin + 1]
        /\ begin' = begin + 1
    BY <1>4, <2>3 DEF Join, Arg
  <2>5. Joining(Call.args, begin', built')
    BY <2>2, <2>4, JoiningIs
  <2> QED
    BY <2>1, <2>5 DEF Stage
<1>5. CASE Repeat
  <2>1. Call.name = "repeat"
    BY <1>5 DEF Repeat, Calling
  <2>2. Call.args \in String \X IntRange /\ Repeating(Call.args, begin, built)
    BY <1>1, <2>1 DEF Typed, Stage
  <2>3. ~Returns(built)
    BY AppendIsNew DEF Returns, Gives, Turns, Progress
  <2>4. /\ Call.args[2] >= 0 /\ begin < Call.args[2]
        /\ built' = built \o Call.args[1]
        /\ begin' = begin + 1
    BY <1>5, <2>3 DEF Repeat, Arg
  <2>5. Repeating(Call.args, begin', built')
    BY <2>2, <2>4, RepeatingIs
  <2> QED
    BY <2>1, <2>5 DEF Stage
<1>6. CASE TrimFront \/ TrimBehind
  BY <1>6 DEF TrimFront, TrimBehind, Calling, Stage
<1> QED
  BY <1>2, <1>3, <1>4, <1>5, <1>6, TurnActions

LEMMA StagedStep ==
  ASSUME Progress, Staged, [Next]_vars
  PROVE  Staged'
<1>1. PICK c, b, u : c = Call' /\ b = begin' /\ u = built'
  OBVIOUS
<1>2. ASSUME Open' => Stage(c, b, u)
      PROVE  Staged'
  BY <1>1, <1>2 DEF Staged
<1>3. CASE Answers
  <2>1. b = 0 /\ u = << >>
    BY <1>1, <1>3 DEF Answers, Gives
  <2>2. ASSUME Open'
        PROVE  Typed(c)
    <3>1. Progress'
      BY ProgressStep
    <3>2. PICK i : i = Len(results') + 1
      OBVIOUS
    <3>3. run \in Runs /\ run' = run /\ c = run.calls[i]
      BY <1>1, <1>3, <3>2 DEF Answers, Gives, Progress, Call
    <3>4. Len(results') \in Nat /\ Len(run.calls) \in Nat /\ Len(results') < Len(run.calls)
      BY <2>2, <3>1, <3>3, RunAssumption DEF Open, Progress, IsSequence
    <3>5. i \in 1 .. Len(run.calls)
      BY <3>2, <3>4
    <3> QED
      BY <3>3, <3>5, RunAssumption
  <2> QED
    BY <1>2, <2>1, <2>2, StageBegins
<1>4. CASE Ends
  BY <1>2, <1>4 DEF Ends, Open
<1>5. CASE Turns /\ Next
  <2>1. Open' => Open /\ c = Call
    BY <1>1, <1>5 DEF Turns, Open, Call
  <2>2. Open => Stage(Call, b, u)
    BY <1>1, <1>5, StageGoesOn
  <2> QED
    BY <1>2, <2>1, <2>2
<1>6. CASE UNCHANGED vars
  BY <1>6 DEF vars, loop, Staged, Open, Call
<1> QED
  BY <1>3, <1>4, <1>5, <1>6, NextIs

\* What is left when there is no space at either end is trimmed.
LEMMA TrimmedAs ==
  ASSUME NEW a, NEW text \in String, text = a[1],
         NEW b \in 0 .. Size(text), NEW e \in 0 .. Size(text), b <= e, Inside(text, b, e),
         ~(b < e /\ IsSpace(Byte(text, b))), ~(e > b /\ IsSpace(Byte(text, e - 1))),
         NEW r, r = Substr(text, b, e)
  PROVE  TrimAs(a, r)
<1>1. Size(text) \in Nat /\ text \in Seq(0 .. 255) /\ Len(text) = Size(text)
  BY TextType
<1>2. b \in Nat /\ e \in Nat /\ e <= Len(text)
  BY <1>1
<1>3. r \in Seq(0 .. 255) /\ Len(r) = e - b /\ \A i \in 1 .. e - b : r[i] = text[b + i]
  <2>1. IsSlice(SubSeq(text, b + 1, e), 0 .. 255, text, b, e)
    BY <1>1, <1>2, SliceIs
  <2> QED
    BY <2>1, Zenon DEF IsSlice, Substr
<1>4. ASSUME r # << >>
      PROVE  ~IsSpace(Head(r)) /\ ~IsSpace(Last(r))
  <2>1. Len(r) \in Nat /\ Len(r) # 0
    BY <1>3, <1>4
  <2>2. b < e /\ 1 \in 1 .. e - b /\ e - b \in 1 .. e - b /\ b + (e - b) = e /\ (e - 1) + 1 = e
    BY <1>2, <1>3, <2>1
  <2>3. Head(r) = r[1] /\ Last(r) = r[e - b]
    BY <1>3, <2>1 DEF Last
  <2>4. r[1] = Byte(text, b) /\ r[e - b] = Byte(text, e - 1)
    BY <1>3, <2>2 DEF Byte
  <2>5. ~IsSpace(Byte(text, b)) /\ ~IsSpace(Byte(text, e - 1))
    BY <2>2
  <2> QED
    BY <2>3, <2>4, <2>5
<1>5. \E x, y \in 0 .. Size(text) : Inside(text, x, y) /\ r = Substr(text, x, y)
  BY Zenon
<1> QED
  BY <1>4, <1>5, Zenon DEF TrimAs

\* The leftmost occurrence is found.
LEMMA FoundAs ==
  ASSUME NEW a \in String \X String,
         NEW r, r = IF NoHit(a[1], a[2], 0) THEN -1 ELSE FirstHit(a[1], a[2], 0)
  PROVE  FindAs(a, r)
<1>1. PICK text \in String, what \in String : text = a[1] /\ what = a[2]
  OBVIOUS
<1>2. CASE NoHit(text, what, 0)
  BY <1>1, <1>2 DEF FindAs
<1>3. CASE ~NoHit(text, what, 0)
  <2>1. r = FirstHit(text, what, 0) /\ 0 \in Nat
    BY <1>1, <1>3
  <2>2. r \in Nat /\ Occurs(text, what, r) /\ \A at \in 0 .. r - 1 : ~Occurs(text, what, at)
    BY <1>3, <2>1, HitIs
  <2>3. r # -1
    BY <2>2
  <2> QED
    BY <1>1, <1>3, <2>2, <2>3, Zenon DEF FindAs
<1> QED
  BY <1>2, <1>3

\* Only its own actions run a call.
LEMMA TextActions ==
  ASSUME Progress, Next, Open
  PROVE  /\ Call.name = "split" => SplitIntoBytes \/ SplitAtHit \/ SplitRest
         /\ Call.name = "replace" => ReplaceNothing \/ ReplaceAtHit \/ ReplaceRest
         /\ Call.name = "join" => Join
         /\ Call.name = "repeat" => Repeat \/ RepeatRefused
         /\ Call.name = "trim" => TrimFront \/ TrimBehind \/ TrimDone
         /\ Call.name = "find" => FindText
<1>1. ~Ended
  <2>1. Calling({Call.name})
    BY DEF Open, Calling
  <2>2. Len(results) # Len(run.calls)
    BY RunAssumption DEF Progress, IsSequence, Open
  <2> QED
    BY <2>2 DEF Ended, Open
<1> QED
  BY <1>1 DEF Next, Calling, SplitIntoBytes, SplitAtHit, SplitRest, ReplaceNothing, ReplaceAtHit,
     ReplaceRest, Join, FindText, ChangeCase, TrimFront, TrimBehind, TrimDone, ParseInt, Chr, Ord,
     InputLine, InputRest, InputNothing, Eof, RepeatRefused, Repeat, RandInt, RandIntUndefined

\* What a call returns is what is documented.
LEMMA AnswersDocumented ==
  ASSUME Progress, Staged, Trimming, Next, Open, NEW v, Gives(v)
  PROVE  Documented(Call.name, Call.args, v)
<1>1. Typed(Call) /\ Stage(Call, begin, built)
  BY OpenTyped DEF Staged
<1>2. results' # results
  BY AppendIsNew DEF Gives, Progress
<1>3. ASSUME NEW w, Returns(w) PROVE v = w
  BY <1>3, OneAnswer DEF Returns
<1>4. ASSUME Call.name = "split" PROVE SplitAs(Call.args, v)
  <2>1. SplitIntoBytes \/ SplitRest
    BY <1>2, <1>4, TextActions DEF SplitAtHit, Turn
  <2>2. Call.args \in String \X String
    BY <1>1, <1>4 DEF Typed
  <2>3. CASE SplitIntoBytes
    <3>1. /\ Call.args[2] = << >>
          /\ v = [i \in 1 .. Size(Call.args[1]) |-> <<Call.args[1][i]>>]
      BY <1>3, <2>3 DEF SplitIntoBytes, Arg
    <3>2. Call.args[1] \in String
      BY <2>2
    <3> QED
      BY <3>1, <3>2, BytesTogether DEF SplitAs
  <2>4. CASE SplitRest
    <3>1. /\ Call.args[2] # << >> /\ NoHit(Call.args[1], Call.args[2], begin)
          /\ v = Append(built, Substr(Call.args[1], begin, Size(Call.args[1])))
      BY <1>3, <2>4 DEF SplitRest, Sought, Arg
    <3>2. Splitting(Call.args, begin, built)
      BY <1>1, <1>4, <3>1 DEF Stage
    <3> QED
      BY <2>2, <3>1, <3>2, SplittingEnds DEF SplitAs
  <2> QED
    BY <2>1, <2>3, <2>4
<1>5. ASSUME Call.name = "join" PROVE v = Between(Call.args[1], Call.args[2])
  <2>1. Join /\ Call.args \in Seq(String) \X String /\ Joining(Call.args, begin, built)
    BY <1>1, <1>5, TextActions DEF Typed, Stage
  <2>2. ~(begin < Len(Call.args[1])) /\ Returns(built)
    BY <1>2, <2>1 DEF Join, Turn, Arg
  <2> QED
    BY <1>3, <2>1, <2>2, JoiningIs
<1>6. ASSUME Call.name = "replace" PROVE ReplaceAs(Call.args, v)
  <2>1. ReplaceNothing \/ ReplaceRest
    BY <1>2, <1>6, TextActions DEF ReplaceAtHit, Turn
  <2>2. Call.args \in String \X String \X String
    BY <1>1, <1>6 DEF Typed
  <2>3. CASE ReplaceNothing
    BY <1>3, <2>3 DEF ReplaceNothing, Arg, ReplaceAs
  <2>4. CASE ReplaceRest
    <3>1. /\ Call.args[2] # << >> /\ NoHit(Call.args[1], Call.args[2], begin)
          /\ v = built \o Substr(Call.args[1], begin, Size(Call.args[1]))
      BY <1>3, <2>4 DEF ReplaceRest, Sought, Arg
    <3>2. Replacing(Call.args, begin, built)
      BY <1>1, <1>6, <3>1 DEF Stage
    <3> QED
      BY <2>2, <3>1, <3>2, ReplacingEnds DEF ReplaceAs
  <2> QED
    BY <2>1, <2>3, <2>4
<1>7. ASSUME Call.name = "repeat" PROVE v = FlattenSeq(Units(Call.args))
  <2>1. Call.args \in String \X IntRange /\ Repeating(Call.args, begin, built)
    BY <1>1, <1>7 DEF Typed, Stage
  <2>2. Repeat
    BY <1>2, <1>7, TextActions DEF RepeatRefused, Fails, Stops
  <2>3. Call.args[2] >= 0 /\ ~(begin < Call.args[2]) /\ Returns(built)
    BY <1>2, <2>2 DEF Repeat, Turn, Arg
  <2> QED
    BY <1>3, <2>1, <2>3, RepeatingIs
<1>8. ASSUME Call.name = "trim" PROVE TrimAs(Call.args, v)
  <2>1. TrimDone
    BY <1>2, <1>8, TextActions DEF TrimFront, TrimBehind, Turn
  <2>2. Calling({"trim", "int"})
    BY <1>8 DEF Open, Calling
  <2>3. PICK text \in String : text = Call.args[1]
    BY <2>2, TrimTyped DEF Arg
  <2>4. /\ begin + cut <= Size(text) /\ Inside(text, begin, Size(text) - cut)
        /\ Size(text) \in Nat /\ begin \in Nat /\ cut \in Nat
    BY <2>2, <2>3, TrimTyped DEF Trimming, Arg, End
  <2>5. v = Substr(text, begin, Size(text) - cut)
    BY <1>3, <2>1, <2>3 DEF TrimDone, Trimmed, Arg, End
  <2>6. PICK e \in Nat : e = Size(text) - cut
    BY <2>4
  <2>7. ~(begin < e /\ IsSpace(Byte(text, begin))) /\ ~(e > begin /\ IsSpace(Byte(text, e - 1)))
    BY <2>1, <2>3, <2>6 DEF TrimDone, SpaceInFront, SpaceBehind, Arg, End
  <2>8. PICK b \in Nat : b = begin
    BY <2>4
  <2>9. b \in 0 .. Size(text) /\ e \in 0 .. Size(text) /\ b <= e
    BY <2>4, <2>6, <2>8
  <2> QED
    BY <2>3, <2>4, <2>5, <2>6, <2>7, <2>8, <2>9, TrimmedAs
<1>9. ASSUME Call.name = "find" PROVE FindAs(Call.args, v)
  <2>1. FindText /\ Call.args \in String \X String
    BY <1>1, <1>9, TextActions DEF Typed
  <2> QED
    BY <1>3, <2>1, FoundAs DEF FindText, Arg
<1> QED
  BY <1>4, <1>5, <1>6, <1>7, <1>8, <1>9, Zenon DEF Documented

LEMMA DocumentedStep ==
  ASSUME Progress, Staged, Trimming, TextAsDocumented, [Next]_vars
  PROVE  TextAsDocumented'
<1> DEFINE Fine(i, r) == Documented(run.calls[i].name, run.calls[i].args, r)
<1>1. \A i \in DOMAIN results : Fine(i, results[i])
  BY TextDocumented
<1>2. ASSUME run' = run, \A i \in DOMAIN results' : Fine(i, results'[i])
      PROVE  TextAsDocumented'
  <2>1. \A i \in DOMAIN results' :
          Documented(run'.calls[i].name, run'.calls[i].args, results'[i])
    BY <1>2, Zenon
  <2> QED
    BY <2>1, Zenon DEF TextAsDocumented, Documented, Returned, SplitAs, ReplaceAs, TrimAs, FindAs,
       Units
<1> HIDE DEF Fine
<1>3. CASE Ends \/ Turns \/ UNCHANGED vars
  <2>1. run' = run /\ results' = results
    BY <1>3 DEF Ends, Turns, vars
  <2> QED
    BY <1>1, <1>2, <2>1, Zenon
<1>4. CASE Answers /\ Next
  <2> DEFINE k == Len(results) + 1
  <2>1. PICK v : Gives(v)
    BY <1>4 DEF Answers
  <2>2. /\ Len(results) \in Nat /\ DOMAIN results = 1 .. Len(results)
        /\ DOMAIN results' = 1 .. k /\ run' = run
        /\ results'[k] = v /\ \A i \in 1 .. Len(results) : results'[i] = results[i]
    BY <2>1, AppendIsNew DEF Gives, Progress, IsSequence
  <2>3. Fine(k, v)
    BY <1>4, <2>1, AnswersDocumented DEF Fine, Answers, Open, Call
  <2>4. ASSUME NEW i \in 1 .. k
        PROVE  Fine(i, results'[i])
    <3>1. CASE i = k
      BY <2>2, <2>3, <3>1, Zenon
    <3>2. CASE i # k
      <4>1. i \in 1 .. Len(results)
        BY <2>2, <3>2
      <4> QED
        BY <1>1, <2>2, <4>1, Zenon
    <3> QED
      BY <3>1, <3>2
  <2> QED
    BY <1>2, <2>2, <2>4, Zenon
<1> QED
  BY <1>3, <1>4, NextIs, Zenon

\* The builtins on text do what is documented, for every text and every sequence of
\* calls: split gives the parts around every occurrence from the left, and joined
\* with the separator again they are the text; join and repeat put together what
\* they are given; replace replaces every occurrence that overlaps none before it,
\* and nothing else; trim drops exactly the spaces at both ends; and find finds the
\* leftmost occurrence.
THEOREM TextKeepsItsWord == Spec => []TextAsDocumented
<1>1. Init => Progress /\ Staged /\ Trimming /\ TextAsDocumented
  <2> SUFFICES ASSUME Init PROVE Progress /\ Staged /\ Trimming /\ TextAsDocumented
    OBVIOUS
  <2>1. Progress /\ DOMAIN results = {} /\ begin = 0 /\ cut = 0 /\ built = << >>
    BY DEF Init, Progress, IsSequence
  <2>2. Trimming
    BY <2>1, TrimTyped DEF Trimming, Inside, End
  <2>3. Staged
    BY <2>1, OpenTyped, StageBegins DEF Staged
  <2>4. TextAsDocumented
    BY <2>1 DEF TextAsDocumented
  <2> QED
    BY <2>1, <2>2, <2>3, <2>4
<1>2. Progress /\ Staged /\ Trimming /\ TextAsDocumented /\ [Next]_vars
        => Progress' /\ Staged' /\ Trimming' /\ TextAsDocumented'
  BY ProgressStep, StagedStep, TrimmingStep, DocumentedStep
<1> QED
  BY <1>1, <1>2, PTL DEF Spec
=============================================================================
