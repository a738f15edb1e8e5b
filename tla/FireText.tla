------------------------------ MODULE FireText ------------------------------
(***************************************************************************)
(* The builtins on text, numbers and standard input (invoke_native,        *)
(* natives_runtime.cpp), as a program calls them one after another: a      *)
(* loop of the code is a step for each turn. A string is a sequence of     *)
(* bytes; positions in it count from 0, as in the code.                    *)
(*                                                                         *)
(* An int, and a size_t, are a word of 2 * IntHalf values, except that     *)
(* code points keep their values.                                          *)
(***************************************************************************)
EXTENDS Integers, SequencesExt, FiniteSetsExt

CONSTANTS
  IntHalf,      \* 2^63 in the code
  Runs,         \* what the programs call and read: a set of [calls, stdin]
  RepeatLimit   \* the longest text repeat agrees to build, 2^28 in the code

ASSUME TextAssumption == IntHalf \in Nat \ {0} /\ RepeatLimit \in Nat

Words    == 2 * IntHalf
IntRange == -IntHalf .. IntHalf - 1
String   == Seq(0 .. 255)

\* The arguments that the analyzer lets a call have.
Typed(call) ==
  /\ call.name \in {"ord", "int", "trim", "upper", "lower"} =>
       Len(call.args) = 1 /\ call.args[1] \in String
  /\ call.name \in {"find", "split"} => call.args \in String \X String
  /\ call.name = "replace"  => call.args \in String \X String \X String
  /\ call.name = "join"     => call.args \in Seq(String) \X String
  /\ call.name = "repeat"   => call.args \in String \X IntRange
  /\ call.name = "chr"      => Len(call.args) = 1 /\ call.args[1] \in Int
  /\ call.name = "rand_int" => call.args \in IntRange \X IntRange

ASSUME RunAssumption ==
  \A r \in Runs : /\ r.stdin \in String
                  /\ Len(r.calls) \in Nat
                  /\ \A i \in 1 .. Len(r.calls) : Typed(r.calls[i])

VARIABLES
  run,       \* the program's calls and its input
  results,   \* what each call so far returned
  status,    \* "running"; "failed" once a call has failed; or "killed" by a signal
  begin,     \* in the call under way, how far into its text it is
  cut,       \* ... how much of the text's end it has dropped
  built,     \* ... what it has built
  unread,    \* what is left of the input
  good       \* istream::good()

loop   == <<begin, cut, built>>
stream == <<unread, good>>
vars   == <<run, results, status, loop, stream>>

Init ==
  /\ run \in Runs
  /\ results = << >>
  /\ status = "running"
  /\ begin = 0 /\ cut = 0 /\ built = << >>
  /\ unread = run.stdin /\ good = TRUE

Call    == run.calls[Len(results) + 1]
Arg(i)  == Call.args[i]
Calling(names) == status = "running" /\ Len(results) < Len(run.calls) /\ Call.name \in names

\* The call returns a value, and the next starts afresh; or it fails the program.
Gives(value) ==
  /\ results' = Append(results, value)
  /\ begin' = 0 /\ cut' = 0 /\ built' = << >>
  /\ UNCHANGED <<run, status>>

Returns(value) == Gives(value) /\ UNCHANGED stream
Stops(how) == status' = how /\ UNCHANGED <<run, results, loop, stream>>
Fails == Stops("failed")

\* The call goes round its loop once more.
Turn == UNCHANGED <<run, results, status, stream>>

---------------------------------------------------------------------------
(* std::string, and what <cctype> says in the C locale.                    *)

Size(text)       == Len(text)
Substr(text, from, to) == SubSeq(text, from + 1, to)
Byte(text, at)   == text[at + 1]

Occurs(text, what, at) ==
  at + Size(what) <= Size(text) /\ Substr(text, at, at + Size(what)) = what

\* string::find from a position: where the first occurrence starts, if any.
Hits(text, what, from) == { at \in from .. Size(text) : Occurs(text, what, at) }
NoHit(text, what, from) == Hits(text, what, from) = {}
FirstHit(text, what, from) == Min(Hits(text, what, from))

IsSpace(byte) == byte \in {32} \cup 9 .. 13
IsDigit(byte) == byte \in 48 .. 57
ToUpper(byte) == IF byte \in 97 .. 122 THEN byte - 32 ELSE byte
ToLower(byte) == IF byte \in 65 .. 90 THEN byte + 32 ELSE byte

---------------------------------------------------------------------------
(* Splitting, replacing and joining.                                       *)

\* A separator that is empty gives the single bytes.
SplitIntoBytes ==
  /\ Calling({"split"})
  /\ Arg(2) = << >>
  /\ Returns([i \in 1 .. Size(Arg(1)) |-> <<Arg(1)[i]>>])

\* split_string and replace_all look for hits of a text that is not empty.
SoughtAlways == TRUE
Sought       == Arg(2) # << >>

\* They go on behind a hit.
AfterOneByte(hit, what) == hit + 1
After(hit, what)        == hit + Size(what)

SplitAtHit ==
  /\ Calling({"split"}) /\ Sought
  /\ ~NoHit(Arg(1), Arg(2), begin)
  /\ LET hit == FirstHit(Arg(1), Arg(2), begin)
     IN /\ built' = Append(built, Substr(Arg(1), begin, hit))
        /\ begin' = After(hit, Arg(2))
  /\ UNCHANGED cut
  /\ Turn

SplitRest ==
  /\ Calling({"split"}) /\ Sought
  /\ NoHit(Arg(1), Arg(2), begin)
  /\ Returns(Append(built, Substr(Arg(1), begin, Size(Arg(1)))))

ReplaceNothing ==
  /\ Calling({"replace"})
  /\ Arg(2) = << >>
  /\ Returns(Arg(1))

ReplaceAtHit ==
  /\ Calling({"replace"}) /\ Sought
  /\ ~NoHit(Arg(1), Arg(2), begin)
  /\ LET hit == FirstHit(Arg(1), Arg(2), begin)
     IN /\ built' = built \o Substr(Arg(1), begin, hit) \o Arg(3)
        /\ begin' = After(hit, Arg(2))
  /\ UNCHANGED cut
  /\ Turn

ReplaceRest ==
  /\ Calling({"replace"}) /\ Sought
  /\ NoHit(Arg(1), Arg(2), begin)
  /\ Returns(built \o Substr(Arg(1), begin, Size(Arg(1))))

Join ==
  /\ Calling({"join"})
  /\ IF begin < Len(Arg(1))
       THEN /\ built' = built \o (IF begin > 0 THEN Arg(2) ELSE << >>) \o Arg(1)[begin + 1]
            /\ begin' = begin + 1
            /\ UNCHANGED cut
            /\ Turn
       ELSE Returns(built)

\* repeat multiplies two size_t before it compares: the product wraps.
RepeatCount(unit, count) == count
RepeatSize(unit, count)  == (Size(unit) * count) % Words

RepeatRefused ==
  /\ Calling({"repeat"})
  /\ begin = 0
  /\ Arg(2) < 0 \/ RepeatSize(Arg(1), Arg(2)) > RepeatLimit
  /\ Fails

Repeat ==
  /\ Calling({"repeat"})
  /\ Arg(2) >= 0 /\ RepeatSize(Arg(1), Arg(2)) <= RepeatLimit
  /\ IF begin < Arg(2)
       THEN /\ built' = built \o Arg(1)
            /\ begin' = begin + 1
            /\ UNCHANGED cut
            /\ Turn
       ELSE Returns(built)

FindText ==
  /\ Calling({"find"})
  /\ Returns(IF NoHit(Arg(1), Arg(2), 0) THEN -1 ELSE FirstHit(Arg(1), Arg(2), 0))

ChangeCase ==
  /\ Calling({"upper", "lower"})
  /\ Returns([i \in 1 .. Size(Arg(1)) |->
                IF Call.name = "upper" THEN ToUpper(Arg(1)[i]) ELSE ToLower(Arg(1)[i])])

---------------------------------------------------------------------------
(* Trimming, alone and before a number is read.                            *)

End     == Size(Arg(1)) - cut
Trimmed == Substr(Arg(1), begin, End)

SpaceInFront == begin < End /\ IsSpace(Byte(Arg(1), begin))
SpaceBehind  == End > begin /\ IsSpace(Byte(Arg(1), End - 1))

TrimFront ==
  /\ Calling({"trim", "int"})
  /\ SpaceInFront
  /\ begin' = begin + 1
  /\ UNCHANGED <<cut, built>>
  /\ Turn

TrimBehind ==
  /\ Calling({"trim", "int"})
  /\ ~SpaceInFront /\ SpaceBehind
  /\ cut' = cut + 1
  /\ UNCHANGED <<begin, built>>
  /\ Turn

TrimDone ==
  /\ Calling({"trim"})
  /\ ~SpaceInFront /\ ~SpaceBehind
  /\ Returns(Trimmed)

\* strtoll reads a C string, which ends at the first NUL: a sign, then digits.
CString(text) ==
  IF NoHit(text, <<0>>, 0) THEN text ELSE Substr(text, 0, FirstHit(text, <<0>>, 0))

Sign(text)   == IF text # << >> /\ Head(text) \in {43, 45} THEN 1 ELSE 0
DigitsEnd(text) ==
  Max({ n \in Sign(text) .. Size(text) : \A at \in Sign(text) .. n - 1 : IsDigit(Byte(text, at)) })

Magnitude(digits) ==
  LET value[n \in 0 .. Size(digits)] ==
        IF n = 0 THEN 0 ELSE 10 * value[n - 1] + (digits[n] - 48)
  IN value[Size(digits)]

Parsed(text) ==
  LET n == Magnitude(Substr(text, Sign(text), DigitsEnd(text)))
  IN IF Sign(text) = 1 /\ Head(text) = 45 THEN -n ELSE n

\* Without a digit strtoll stops where it started.
StopAnywhere(text) == Size(text)
Stop(text) == IF DigitsEnd(text) = Sign(text) THEN 0 ELSE DigitsEnd(text)

ParseInt ==
  /\ Calling({"int"})
  /\ ~SpaceInFront /\ ~SpaceBehind
  /\ LET text == CString(Trimmed)
     IN IF Trimmed = << >> \/ Stop(text) # Size(text) THEN Fails
        ELSE IF Stop(text) = 0 THEN Returns(0)
        ELSE IF Parsed(text) \notin IntRange THEN Fails ELSE Returns(Parsed(text))

---------------------------------------------------------------------------
(* Code points and their UTF-8.                                            *)

MaxCodePoint == 1114111

\* Six bits of a code point, as a continuation byte; unit is what the last is worth.
ContinuationWide(point, unit) == 128 + ((point \div unit) % 128)
Continuation(point, unit)     == 128 + ((point \div unit) % 64)

Encoded(point) ==
  IF point <= 127 THEN <<point>>
  ELSE IF point <= 2047 THEN <<192 + (point \div 64), Continuation(point, 1)>>
  ELSE IF point <= 65535
    THEN <<224 + (point \div 4096), Continuation(point, 64), Continuation(point, 1)>>
  ELSE <<240 + (point \div 262144), Continuation(point, 4096), Continuation(point, 64),
         Continuation(point, 1)>>

Chr ==
  /\ Calling({"chr"})
  /\ IF Arg(1) \in 0 .. MaxCodePoint THEN Returns(Encoded(Arg(1))) ELSE Fails

\* How many bytes the first one announces, and the bits it carries itself.
Extra(lead) == IF lead >= 240 THEN 3 ELSE IF lead >= 224 THEN 2 ELSE IF lead >= 192 THEN 1 ELSE 0
LeadBits(lead) ==
  CASE Extra(lead) = 3 -> lead % 8
    [] Extra(lead) = 2 -> lead % 16
    [] Extra(lead) = 1 -> lead % 32
    [] Extra(lead) = 0 -> lead

\* The bytes that follow, as many as are there, whatever they are.
Decoded(text) ==
  LET point[i \in 0 .. 3] == IF i = 0 THEN LeadBits(Head(text))
                             ELSE 64 * point[i - 1] + (Byte(text, i) % 64)
  IN point[Min({Extra(Head(text)), Size(text) - 1})]

Ord ==
  /\ Calling({"ord"})
  /\ IF Arg(1) = << >> THEN Fails ELSE Returns(Decoded(Arg(1)))

---------------------------------------------------------------------------
(* Random numbers: next_random may draw any word.                          *)

Wrapped(n) == ((n + IntHalf) % Words) - IntHalf

\* high - low + 1 as a uint64_t: 0 when every int is in the range.
SpanShort(low, high) == (high - low) % Words
Span(low, high)      == (high - low + 1) % Words

RandInt ==
  /\ Calling({"rand_int"})
  /\ IF Arg(1) > Arg(2) THEN Fails
     ELSE \E draw \in 0 .. Words - 1 :
            LET span == Span(Arg(1), Arg(2))
            IN Returns(Wrapped(Arg(1) + (IF span = 0 THEN draw ELSE draw % span)))

\* A difference of two ints that is no int is undefined: a build may take it for
\* a natural number, so that the span cannot be 0, and divide without a test.
RandIntUndefined ==
  /\ Calling({"rand_int"})
  /\ Arg(1) <= Arg(2) /\ Arg(2) - Arg(1) \notin IntRange
  /\ Span(Arg(1), Arg(2)) = 0
  /\ Stops("killed")

---------------------------------------------------------------------------
(* Standard input. getline takes what is before the next newline; a stream *)
(* that has met its end is no longer good, and gives nothing more.         *)

Newline == 10

WithoutReturn(line) == IF line # << >> /\ Last(line) = 13 THEN Front(line) ELSE line

InputLine ==
  /\ Calling({"input"})
  /\ good /\ ~NoHit(unread, <<Newline>>, 0)
  /\ LET at == FirstHit(unread, <<Newline>>, 0)
     IN /\ Gives(WithoutReturn(Substr(unread, 0, at)))
        /\ unread' = Substr(unread, at + 1, Size(unread))
  /\ UNCHANGED good

InputRest ==
  /\ Calling({"input"})
  /\ good /\ NoHit(unread, <<Newline>>, 0)
  /\ Gives(WithoutReturn(unread))
  /\ unread' = << >>
  /\ good' = FALSE

InputNothing ==
  /\ Calling({"input"})
  /\ ~good
  /\ Returns(<< >>)

\* peek sets eofbit when there is nothing left.
EofFlag   == ~good
EofAnswer == ~good \/ unread = << >>

Eof ==
  /\ Calling({"eof"})
  /\ Gives(EofAnswer)
  /\ good' = ~EofAnswer
  /\ UNCHANGED unread

Ended ==
  /\ status # "running" \/ Len(results) = Len(run.calls)
  /\ UNCHANGED vars

Next ==
  \/ SplitIntoBytes \/ SplitAtHit \/ SplitRest
  \/ ReplaceNothing \/ ReplaceAtHit \/ ReplaceRest
  \/ Join \/ RepeatRefused \/ Repeat \/ FindText \/ ChangeCase
  \/ TrimFront \/ TrimBehind \/ TrimDone \/ ParseInt
  \/ Chr \/ Ord \/ RandInt \/ RandIntUndefined
  \/ InputLine \/ InputRest \/ InputNothing \/ Eof
  \/ Ended

Spec == Init /\ [][Next]_vars

---------------------------------------------------------------------------
(* What the builtins promise (language-reference.md, Builtins).            *)

Returned(i, name) == i \in DOMAIN results /\ run.calls[i].name = name
Failed(i, name)   == status = "failed" /\ i = Len(results) + 1 /\ run.calls[i].name = name

Between(parts, separator) ==
  FlattenSeq([i \in 1 .. Len(parts) |-> IF i = 1 THEN parts[i] ELSE separator \o parts[i]])

\* The parts of a text around a separator: put together they are the text, and
\* the separator first occurs behind each part, and in the last not at all.
PartsOf(parts, text, separator) ==
  /\ parts # << >>
  /\ Between(parts, separator) = text
  /\ \A i \in 1 .. Len(parts) :
       LET tail == Between(SubSeq(parts, i, Len(parts)), separator)
       IN IF i = Len(parts) THEN NoHit(tail, separator, 0)
          ELSE FirstHit(tail, separator, 0) = Size(parts[i])

\* The occurrences in a text that count: each that overlaps none before it.
Counted(text, what) ==
  LET counts[at \in 0 .. Size(text)] ==
        /\ Occurs(text, what, at)
        /\ \A p \in 0 .. at - 1 : p + Size(what) > at => ~counts[p]
  IN { at \in 0 .. Size(text) : counts[at] }

\* Byte for byte: the new text for the first byte of one, nothing for its others.
Replaced(text, what, with) ==
  LET counted == Counted(text, what)
      Covered(at) == \E p \in counted : p < at /\ at < p + Size(what)
  IN FlattenSeq([i \in 1 .. Size(text) |->
       IF i - 1 \in counted THEN with ELSE IF Covered(i - 1) THEN << >> ELSE <<text[i]>>])

\* Between two positions lies all of a text but spaces at its ends.
Inside(text, x, y) == \A at \in 0 .. Size(text) - 1 : at \notin x .. y - 1 => IsSpace(Byte(text, at))

\* split cuts a text at every occurrence of a separator from the left, and join
\* puts parts together; replace replaces every occurrence; trim drops all the
\* spaces at both ends and nothing else; find finds the leftmost occurrence.
TextAsDocumented ==
  \A i \in DOMAIN results :
    LET a == run.calls[i].args
        r == results[i]
    IN /\ Returned(i, "split") =>
            IF a[2] = << >> THEN FlattenSeq(r) = a[1] /\ Len(r) = Size(a[1])
                            ELSE PartsOf(r, a[1], a[2])
       /\ Returned(i, "join")    => r = Between(a[1], a[2])
       /\ Returned(i, "replace") => r = IF a[2] = << >> THEN a[1] ELSE Replaced(a[1], a[2], a[3])
       /\ Returned(i, "repeat")  => r = FlattenSeq([k \in 1 .. a[2] |-> a[1]])
       /\ Returned(i, "trim") =>
            /\ \E x, y \in 0 .. Size(a[1]) : Inside(a[1], x, y) /\ r = Substr(a[1], x, y)
            /\ r # << >> => ~IsSpace(Head(r)) /\ ~IsSpace(Last(r))
       /\ Returned(i, "find") =>
            /\ r = -1 <=> NoHit(a[1], a[2], 0)
            /\ r # -1 => Occurs(a[1], a[2], r) /\ \A at \in 0 .. r - 1 : ~Occurs(a[1], a[2], at)

\* An optional sign and decimal digits, as many zeros in front as one likes.
DecimalOf(n) ==
  LET decimal[k \in 0 .. n] ==
        IF k < 10 THEN <<48 + k>> ELSE Append(decimal[k \div 10], 48 + (k % 10))
  IN decimal[n]

Written(text, n) ==
  \E x, y \in 0 .. Size(text), zeros \in 0 .. Size(text) :
    \E sign \in IF n = 0 THEN { << >>, <<43>>, <<45>> }
                 ELSE IF n > 0 THEN { << >>, <<43>> } ELSE {<<45>>} :
      /\ Inside(text, x, y)
      /\ Substr(text, x, y) =
           sign \o [k \in 1 .. zeros |-> 48] \o DecimalOf(IF n < 0 THEN -n ELSE n)

\* int takes exactly the texts that are a number that fits, in spaces, and gives
\* that number. Of a text with a NUL in it it only reads what is before that.
NumbersAsWritten ==
  \A i \in DOMAIN run.calls :
    LET text == run.calls[i].args[1]
    IN /\ Returned(i, "int") /\ NoHit(text, <<0>>, 0) => Written(text, results[i])
       /\ Failed(i, "int") => \A n \in IntRange : ~Written(text, n)

\* "Decode one UTF-8 scalar so that ord(chr(n)) == n", and chr(n) is one: a
\* first byte that announces the others, each of which says that it follows.
OrdUndoesChr ==
  \A i \in DOMAIN results :
    Returned(i, "chr") =>
      LET r == results[i]
      IN /\ Decoded(r) = run.calls[i].args[1]
         /\ Size(r) = Extra(Head(r)) + 1
         /\ \A k \in 2 .. Size(r) : r[k] \in 128 .. 191

\* The lines of a text: each ends before a newline, or at the end of the text.
LineBegins(text) ==
  { at \in 0 .. Size(text) - 1 : at = 0 \/ Byte(text, at - 1) = Newline }
LineEnd(text, from) ==
  Min({ at \in from .. Size(text) : at = Size(text) \/ Byte(text, at) = Newline })
LineFrom(text, from) == WithoutReturn(Substr(text, from, LineEnd(text, from)))

\* How many of the first calls are of input; the lines that begin before a place;
\* and the line, if there is one, with n lines before it.
Asked(i) == Cardinality({ k \in 1 .. i : run.calls[k].name = "input" })
BeginsBefore(at) == { c \in LineBegins(run.stdin) : c < at }
Lines(n)         == { b \in LineBegins(run.stdin) : Cardinality(BeginsBefore(b)) = n }

\* The input calls of a program read line after line and then nothing, whatever
\* calls of eof come between; and eof is true exactly once all of them are read
\* ("true once stdin has no more input"), so that a loop that asks it first
\* reads every line, also an empty one, and none twice.
ReadsEveryLine ==
  \A i \in DOMAIN results :
    /\ Returned(i, "input") =>
         IF Lines(Asked(i) - 1) = {} THEN results[i] = << >>
         ELSE \E b \in Lines(Asked(i) - 1) : results[i] = LineFrom(run.stdin, b)
    /\ Returned(i, "eof") => results[i] = (Asked(i) >= Cardinality(LineBegins(run.stdin)))

\* rand_int is "uniform in [lo, hi]": a number it gives is within its bounds,
\* also where their difference is no int and where every int lies between them.
RandomInRange ==
  \A i \in DOMAIN results :
    Returned(i, "rand_int") => results[i] \in run.calls[i].args[1] .. run.calls[i].args[2]

\* repeat refuses "to build something that would exhaust memory", as long as the
\* size it computes is one: past the largest size_t it is another.
RepeatWithinLimit ==
  Calling({"repeat"}) /\ Size(Arg(1)) * Arg(2) < Words => Size(built) <= RepeatLimit

\* A turn of any loop gets on in its text: no call goes round for ever.
LoopsAdvance ==
  [][<<results, status>>' = <<results, status>> => begin' + cut' > begin + cut]_vars

---------------------------------------------------------------------------
(* What the documentation and the comments say without a condition.        *)

\* rand_int is "uniform in [lo, hi]"; repeat will "refuse to build something that
\* would exhaust memory"; and int "fails on unparseable strings".
TextPromises ==
  /\ status # "killed"
  /\ Calling({"repeat"}) => Size(built) <= RepeatLimit
  /\ \A i \in DOMAIN results :
       Returned(i, "int") => Written(run.calls[i].args[1], results[i])
=============================================================================
