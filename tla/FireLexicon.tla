---------------------------- MODULE FireLexicon ----------------------------
(***************************************************************************)
(* The lexical structure that docs/grammar.md gives, as the spans of a     *)
(* text that each of its rules derives, and what a reader may expect of    *)
(* the lexer: it makes the tokens that the longest matches of the grammar  *)
(* make, and drops nothing without an error.                               *)
(*                                                                         *)
(* By the rules of the page a zero and a letter that announces a base, with *)
(* no digit of that base next to it, are a number and a name. There the    *)
(* documentation has a rule of its own, and the lexer one exception to it: *)
(* see PrefixAlone and SeparatorFirst.                                     *)
(***************************************************************************)
EXTENDS FireLexer, FireSource

\* The character at an offset of the text, and whether all of a stretch are of
\* a set.
CharAt(i) == file[i + 1]
All(i, j, set) == \A k \in i .. j - 1 : CharAt(k) \in set

Identifier(i, j) == i < j /\ CharAt(i) \in Letters /\ All(i, j, Letters \cup DecimalDigits)

\* Two characters together.
Pair(i, a, b) == i + 1 < Size /\ CharAt(i) = a /\ CharAt(i + 1) = b

Prefixed(i, j) == j >= i + 2 /\ CharAt(i) = "0" /\ CharAt(i + 1) \in Markers

Decimal(i, j) ==
  /\ i < j /\ CharAt(i) \in DecimalDigits /\ All(i, j, DecimalDigits \cup {Separator})

Radix(i, j) ==
  /\ Prefixed(i, j) /\ j > i + 2
  /\ CharAt(i + 2) \in Digits(Base(CharAt(i + 1)))
  /\ All(i + 3, j, Digits(Base(CharAt(i + 1))) \cup {Separator})

Exponent(i, j) ==
  /\ i < j /\ CharAt(i) \in {"e", "E"}
  /\ LET k == IF i + 1 < j /\ CharAt(i + 1) \in {"+", "-"} THEN i + 2 ELSE i + 1
     IN k < j /\ All(k, j, DecimalDigits)

Fraction(i, j) == i < j /\ CharAt(i) = "." /\ Decimal(i + 1, j)

Float(i, j) ==
  \E w \in i + 1 .. j - 1 :
    /\ Decimal(i, w)
    /\ \/ Fraction(w, j)
       \/ Exponent(w, j)
       \/ \E f \in w + 1 .. j - 1 : Fraction(w, f) /\ Exponent(f, j)

\* An escape of the grammar, up to the largest code point there is.
HexNumber(i, j) == FoldLeft(LAMBDA v, d : 16 * v + HexValue[d], 0, Spelling(i, j))
GoodEscape(i, j) ==
  /\ j >= i + 2 /\ CharAt(i) = "\\"
  /\ \/ j = i + 2 /\ CharAt(i + 1) \in SimpleEscapes
     \/ j = i + 4 /\ CharAt(i + 1) = "x" /\ All(i + 2, j, HexDigits)
     \/ /\ j \in i + 5 .. i + 10 /\ CharAt(i + 1) = "u" /\ CharAt(i + 2) = OpenBrace /\ CharAt(j - 1) = CloseBrace
        /\ All(i + 3, j - 1, HexDigits) /\ HexNumber(i + 3, j - 1) <= MaxCodePoint

\* Where the string that begins at an offset ends: just past its first quote
\* that no backslash takes, or at the newline or the end that comes before it. A
\* string "may not contain a raw newline" (docs/diagnostics.md), so no backslash
\* takes one.
StringEnd(i) ==
  LET end[k \in i + 1 .. Size + 1] ==
        CASE k >= Size \/ CharAt(k) = "\n" -> Min({k, Size})
          [] k < Size /\ CharAt(k) = Quote -> k + 1
          [] k < Size /\ CharAt(k) = "\\" /\ ~Pair(k, "\\", "\n") -> end[k + 2]
          [] OTHER -> end[k + 1]
  IN end[i + 1]

\* Between the quotes, characters and good escapes alternate.
Quoted(i, j) ==
  LET reaches[k \in i + 1 .. j - 1] ==
        IF k = j - 1 THEN TRUE
        ELSE IF CharAt(k) = "\\"
          THEN \E l \in k + 2 .. j - 1 : GoodEscape(k, l) /\ reaches[l]
          ELSE CharAt(k) \notin {Quote, "\n"} /\ reaches[k + 1]
  IN j >= i + 2 /\ CharAt(i) = Quote /\ CharAt(j - 1) = Quote /\ reaches[i + 1]

\* The symbols. A lone dot is none, and what opens a comment is not a division.
IsSymbol(i, j) ==
  /\ j - i \in 1 .. 2 /\ CharAt(i) \in SymbolStarts
  /\ IF j = i + 2 THEN CharAt(i + 1) \in Seconds(CharAt(i)) ELSE CharAt(i) # "."
  /\ ~Pair(i, "/", "*")

LineNote(i, j) ==
  /\ j <= Size /\ Pair(i, "/", "/") /\ j >= i + 2
  /\ \A k \in i .. j - 1 : CharAt(k) # "\n"
  /\ j = Size \/ CharAt(j) = "\n"

\* Where the block comment that begins at an offset ends, 0 when none does: past
\* the comments and other characters inside, at the first "*/".
BlockEnd(i) ==
  LET inside[k \in 0 .. Size] ==
        IF k = Size THEN 0
        ELSE IF Pair(k, "*", "/") THEN k + 2
        ELSE IF Pair(k, "/", "*") THEN IF inside[k + 2] = 0 THEN 0 ELSE inside[inside[k + 2]]
        ELSE inside[k + 1]
  IN IF Pair(i, "/", "*") THEN inside[i + 2] ELSE 0

Comment(i, j) == LineNote(i, j) \/ (j > 0 /\ BlockEnd(i) = j)

\* The number a stretch of digits stands for.
Written(i, j, base) ==
  LET kept == { k \in i .. j - 1 : CharAt(k) # Separator }
  IN MapThenSumSet(LAMBDA k : HexValue[CharAt(k)] * base ^ Cardinality({ l \in kept : l > k }), kept)

IntegerAt(i, j) ==
  IF Prefixed(i, j) THEN Written(i + 2, j, Base(CharAt(i + 1))) ELSE Written(i, j, 10)

\* The class of the token that a span is, "" if it is none.
ClassOf(i, j) ==
  IF Identifier(i, j) THEN IF Spelling(i, j) \in Keywords THEN "keyword" ELSE "identifier"
  ELSE IF Decimal(i, j) \/ Radix(i, j) THEN "int"
  ELSE IF Float(i, j) THEN "float"
  ELSE IF Quoted(i, j) THEN "string"
  ELSE IF IsSymbol(i, j) THEN "symbol"
  ELSE ""

\* The tokens of the text from an offset, or <<>> when it has no reading.
Reading ==
  LET from[i \in 0 .. Size] ==
        LET ends == { j \in i + 1 .. Size : ClassOf(i, j) # "" }
            j == Max(ends)
            value == IF ClassOf(i, j) = "int" THEN IntegerAt(i, j) ELSE 0
            first == [class |-> ClassOf(i, j), begin |-> i, end |-> j, value |-> value]
            rest  == from[j]
        IN IF i = Size THEN << [class |-> "eof", begin |-> Size, end |-> Size, value |-> 0] >>
           ELSE IF CharAt(i) \in Spaces THEN from[i + 1]
           ELSE IF \E k \in i .. Size : Comment(i, k) THEN from[CHOOSE k \in i .. Size : Comment(i, k)]
           ELSE IF ends = {} \/ value > IntMax \/ rest = <<>> THEN <<>>
           ELSE <<first>> \o rest
  IN from[0]

(*--------------------------------- properties ----------------------------*)

\* The zeros of a reading that a name follows at once which begins as a base is
\* announced: a prefix without a digit next to it.
BarePrefixes(reading) ==
  { reading[k].begin : k \in { l \in 1 .. Len(reading) - 1 :
      /\ Spelling(reading[l].begin, reading[l].end) = <<"0">>
      /\ reading[l + 1].begin = reading[l].end /\ reading[l].end < Size
      /\ CharAt(reading[l].end) \in Markers } }

\* "Numeric literal has a base prefix but no digits: 0x, 0b or 0o with nothing
\* after it" (docs/diagnostics.md, E0006): the page of the grammar says nothing
\* of it, and reads the number 0 and a name.
PrefixAlone(reading) == BarePrefixes(reading) # {}

\* Separators come before the first digit after a prefix: the lexer takes them,
\* which no rule allows.
SeparatorFirst(reading) ==
  \E i \in BarePrefixes(reading) : \E k \in i + 3 .. Size - 1 :
    All(i + 2, k, {Separator}) /\ CharAt(k) \in Digits(Base(CharAt(i + 1)))

\* The tokens and errors are those that the rules give a text with this reading.
AsRead(reading) ==
  IF reading = <<>> \/ PrefixAlone(reading) THEN errors # <<>>
  ELSE tokens = reading /\ errors = <<>>

\* A text that the grammar has a reading for gives its tokens and no error, a
\* text that it has none for, or with a prefix alone, gives an error: maximal
\* munch, the dots of a range after an integer, comments that nest, bases and
\* separators, escapes, the range of `int`. Left out are numbers whose first
\* digit comes after a separator. (tokenize)
AgreesWithGrammar ==
  Returned => LET reading == Reading IN SeparatorFirst(reading) \/ AsRead(reading)

\* The line goes on in a string: a backslash has taken a newline.
LineContinued(i, j) == \E k \in i .. j - 2 : Pair(k, "\\", "\n")

\* A malformed escape does not move the end of its string, but for one: a
\* backslash before a newline takes that too. Every other string ends at the
\* first quote that is not escaped, or where the line or the text does, so what
\* follows a mistake inside a string is still read as code. (lex_string,
\* lex_escape)
StringsEndWhereWritten ==
  \A k \in 1 .. Len(tokens) :
    tokens[k].class = "string" =>
      \/ LineContinued(tokens[k].begin, tokens[k].end)
      \/ tokens[k].end = StringEnd(tokens[k].begin)

\* What is left out of the tokens is white space, a comment that ends, or under
\* an error or behind the one that says a comment never ends: the lexer skips
\* nothing in silence. (skip_trivia, skip_block_comment, tokenize)
NothingDropped ==
  mode = "token" =>
    \A i \in 0 .. at - 1 :
      \/ CharAt(i) \in Spaces
      \/ \E k \in 1 .. Len(tokens) : tokens[k].begin <= i /\ i < tokens[k].end
      \/ \E k \in 1 .. Len(errors) :
           /\ errors[k].begin <= i
           /\ i < errors[k].end \/ errors[k].code = "E0004"
      \/ \E b \in 0 .. i : \E e \in i + 1 .. at :
           /\ Comment(b, e)
           /\ \A k \in 1 .. Len(tokens) : tokens[k].end <= b \/ e <= tokens[k].begin

\* An error is shown on the line where it begins, and its carets stand under the
\* characters of its span that are on that line, tabs and all, and nowhere else;
\* where there is none, past the end of the line. (locate, line_text, render_one)
CaretsUnderTheText ==
  \A k \in 1 .. Len(errors) :
    LET carets == Carets(file, errors[k].begin, errors[k].end)
        newlines == { i \in 1 .. errors[k].begin : file[i] = "\n" }
        line == LineSpan(file, carets.line)
        shown == ExpandTabs(LineText(file, carets.line))
        under == { c \in 1 .. Len(shown) :
                     line[1] + shown[c] - 1 \in errors[k].begin .. errors[k].end - 1 }
    IN /\ carets.line = 1 + Cardinality(newlines)
       /\ under = (carets.first + 1 .. carets.first + carets.width) \cap DOMAIN shown

\* The lexer returns, with the end of the file for its last token, whatever the
\* text. (tokenize: "The lexer never aborts")
LexerReturns == <>(Returned /\ tokens # <<>> /\ Last(tokens).class = "eof")
=============================================================================
