----------------------------- MODULE FireLexer -----------------------------
(***************************************************************************)
(* The lexer: Lexer::tokenize and the loops it calls, one action for an    *)
(* iteration of a loop. Trivia and tokens are dispatched on the next       *)
(* character, or two, whenever the mode is "token"; another mode is the    *)
(* loop of the handler that has been entered. Offsets are from 0 as in the *)
(* code, and a span runs from its begin up to its end.                     *)
(*                                                                         *)
(* A token is its class, its span and the value of an integer: which       *)
(* symbol or keyword it is can be read off the span. The decoded text of a *)
(* string and the value of a float are left out.                           *)
(***************************************************************************)
EXTENDS Integers, Sequences, FiniteSets, SequencesExt

CONSTANTS
  Files,        \* the texts that may be read, sequences of one-character strings
  IntMax,       \* the largest `int`
  ErrorLimit    \* kErrorLimit

ASSUME LexerAssumption ==
  /\ \A f \in Files : f \in Seq(STRING)
  /\ IntMax \in Nat /\ ErrorLimit \in Nat \ {0}

(*-------------------------------- characters -----------------------------*)

Quote      == "\""
OpenBrace  == "{"
CloseBrace == "}"
Separator  == "_"

Spaces == {" ", "\t", "\r", "\n", "\f"}
DecimalDigits == {"0", "1", "2", "3", "4", "5", "6", "7", "8", "9"}
Letters ==
  { "a", "b", "c", "d", "e", "f", "g", "h", "i", "j", "k", "l", "m", "n", "o", "p", "q", "r",
    "s", "t", "u", "v", "w", "x", "y", "z", "A", "B", "C", "D", "E", "F", "G", "H", "I", "J",
    "K", "L", "M", "N", "O", "P", "Q", "R", "S", "T", "U", "V", "W", "X", "Y", "Z", "_" }

BinaryDigits == {"0", "1"}
OctalDigits == {"0", "1", "2", "3", "4", "5", "6", "7"}
HexDigits == DecimalDigits \cup {"a", "b", "c", "d", "e", "f", "A", "B", "C", "D", "E", "F"}

HexValue ==
  "0" :> 0 @@ "1" :> 1 @@ "2" :> 2 @@ "3" :> 3 @@ "4" :> 4 @@ "5" :> 5 @@ "6" :> 6 @@ "7" :> 7
  @@ "8" :> 8 @@ "9" :> 9 @@ "a" :> 10 @@ "b" :> 11 @@ "c" :> 12 @@ "d" :> 13 @@ "e" :> 14
  @@ "f" :> 15 @@ "A" :> 10 @@ "B" :> 11 @@ "C" :> 12 @@ "D" :> 13 @@ "E" :> 14 @@ "F" :> 15

\* The letter after a leading zero that announces a base, and the base's digits.
Markers == {"x", "X", "b", "B", "o", "O"}
Base(marker) == IF marker \in {"x", "X"} THEN 16 ELSE IF marker \in {"b", "B"} THEN 2 ELSE 8
Digits(base) ==
  IF base = 16 THEN HexDigits ELSE IF base = 2 THEN BinaryDigits
  ELSE IF base = 8 THEN OctalDigits ELSE DecimalDigits

Keywords ==
  { <<"l", "e", "t">>, <<"c", "o", "n", "s", "t">>, <<"f", "n">>, <<"r", "e", "t", "u", "r", "n">>,
    <<"i", "f">>, <<"e", "l", "i", "f">>, <<"e", "l", "s", "e">>, <<"w", "h", "i", "l", "e">>,
    <<"f", "o", "r">>, <<"i", "n">>, <<"b", "r", "e", "a", "k">>,
    <<"c", "o", "n", "t", "i", "n", "u", "e">>, <<"t", "r", "u", "e">>, <<"f", "a", "l", "s", "e">>,
    <<"i", "n", "t">>, <<"f", "l", "o", "a", "t">>, <<"b", "o", "o", "l">>, <<"s", "t", "r">>,
    <<"v", "o", "i", "d">> }

SymbolStarts ==
  { "(", ")", "{", "}", "[", "]", ",", ";", ":", "~", "^", "+", "-", "*", "/", "%", "=", "!",
    "<", ">", "&", "|", "." }

\* What a second character of a symbol may be, after its first.
Seconds(c) ==
  IF c \in {"+", "*", "/", "%", "=", "!"} THEN {"="}
  ELSE IF c = "-" THEN {">", "="}
  ELSE IF c \in {"<", ">"} THEN {c, "="}
  ELSE IF c \in {"&", "|", "."} THEN {c}
  ELSE {}

(*---------------------------------- state --------------------------------*)

VARIABLES
  file,     \* the text
  at,       \* m_index
  mode,     \* the loop the lexer is in
  start,    \* where the token or comment being read begins
  depth,    \* how many block comments are open
  digits,   \* the digits read of a number or of a code point
  tokens,   \* the tokens made
  errors    \* the errors reported

vars == <<file, at, mode, start, depth, digits, tokens, errors>>

Modes ==
  { "token", "line", "block", "word", "radix", "whole", "fraction", "exponent",
    "string", "codepoint", "junk", "stopped", "done" }

Classes == {"identifier", "keyword", "int", "float", "string", "symbol", "eof"}
Codes == {"E0004", "E0005", "E0006", "E0007", "E0008", "E0009", "E0010"}

Size == Len(file)

\* The character k after the next one, "end" past the last: peek.
Peek(k) == IF at + k < Size THEN file[at + k + 1] ELSE "end"

Spelling(i, j) == SubSeq(file, i + 1, j)

\* The value of digits in a base. strtoull stops at the largest of its own
\* numbers, a sum here just past IntMax: both are out of range.
Place(value, digit, base) ==
  IF value > IntMax THEN value ELSE value * base + HexValue[digit]

ValueOf(text, base) == FoldLeft(LAMBDA value, digit : Place(value, digit, base), 0, text)

Report(code, from, to) == errors' = Append(errors, [code |-> code, begin |-> from, end |-> to])
Quiet == UNCHANGED errors

Push(class, from, to, value) ==
  tokens' = Append(tokens, [class |-> class, begin |-> from, end |-> to, value |-> value])
NoToken == UNCHANGED tokens

\* A slip: one error more than the limit goes through.
CheckLimitLate == mode' = IF Len(errors') > ErrorLimit THEN "stopped" ELSE "token"

\* After a symbol, or what should have been one: at_error_limit.
CheckLimit == mode' = IF Len(errors') >= ErrorLimit THEN "stopped" ELSE "token"

Init ==
  /\ file \in Files
  /\ at = 0 /\ start = 0 /\ depth = 0 /\ mode = "token"
  /\ digits = <<>> /\ tokens = <<>> /\ errors = <<>>

(*--------------------------------- trivia --------------------------------*)

Space ==
  /\ mode = "token" /\ Peek(0) \in Spaces
  /\ at' = at + 1
  /\ UNCHANGED <<file, mode, start, depth, digits, tokens, errors>>

LineComment ==
  /\ mode = "token" /\ Peek(0) = "/" /\ Peek(1) = "/"
  /\ mode' = "line"
  /\ UNCHANGED <<file, at, start, depth, digits, tokens, errors>>

\* A slip: the loop over a line comment that does not advance.
InLineCommentStuck ==
  /\ mode = "line"
  /\ mode' = IF at < Size /\ Peek(0) # "\n" THEN mode ELSE "token"
  /\ UNCHANGED <<file, at, start, depth, digits, tokens, errors>>

InLineComment ==
  /\ mode = "line"
  /\ IF at < Size /\ Peek(0) # "\n"
     THEN at' = at + 1 /\ UNCHANGED mode
     ELSE mode' = "token" /\ UNCHANGED at
  /\ UNCHANGED <<file, start, depth, digits, tokens, errors>>

BlockComment ==
  /\ mode = "token" /\ Peek(0) = "/" /\ Peek(1) = "*"
  /\ mode' = "block" /\ start' = at /\ depth' = 1
  /\ at' = at + 2
  /\ UNCHANGED <<file, digits, tokens, errors>>

\* One turn of the loop, while a comment is open and the text goes on.
InBlockComment ==
  /\ mode = "block" /\ at < Size
  /\ \/ Peek(0) = "/" /\ Peek(1) = "*" /\ at' = at + 2 /\ depth' = depth + 1
     \/ Peek(0) = "*" /\ Peek(1) = "/" /\ at' = at + 2 /\ depth' = depth - 1
     \/ /\ <<Peek(0), Peek(1)>> \notin {<<"/", "*">>, <<"*", "/">>}
        /\ at' = at + 1 /\ UNCHANGED depth
  /\ mode' = IF depth' = 0 THEN "token" ELSE mode
  /\ UNCHANGED <<file, start, digits, tokens, errors>>

\* A slip: a comment that is never closed goes unreported.
OpenCommentSilent ==
  /\ mode = "block" /\ at = Size
  /\ mode' = "token" /\ depth' = 0
  /\ UNCHANGED <<file, at, start, digits, tokens, errors>>

OpenComment ==
  /\ mode = "block" /\ at = Size
  /\ mode' = "token" /\ depth' = 0
  /\ Report("E0004", start, start + 2)
  /\ UNCHANGED <<file, at, start, digits, tokens>>

(*--------------------------- words and numbers ---------------------------*)

\* A slip: a word that begins where the token or comment before it did.
WordFromStale ==
  /\ mode = "token" /\ Peek(0) \in Letters
  /\ mode' = "word"
  /\ UNCHANGED <<file, at, start, depth, digits, tokens, errors>>

Word ==
  /\ mode = "token" /\ Peek(0) \in Letters
  /\ mode' = "word" /\ start' = at
  /\ UNCHANGED <<file, at, depth, digits, tokens, errors>>

InWord ==
  /\ mode = "word"
  /\ IF Peek(0) \in Letters \cup DecimalDigits
     THEN at' = at + 1 /\ UNCHANGED <<mode, tokens>>
     ELSE /\ mode' = "token" /\ UNCHANGED at
          /\ Push(IF Spelling(start, at) \in Keywords THEN "keyword" ELSE "identifier", start, at, 0)
  /\ UNCHANGED <<file, start, depth, digits, errors>>

\* The prefix of a number in another base is consumed, the first digit of a
\* decimal one is not.
Number ==
  /\ mode = "token" /\ Peek(0) \in DecimalDigits
  /\ start' = at /\ digits' = <<>>
  /\ IF Peek(0) = "0" /\ Peek(1) \in Markers
     THEN mode' = "radix" /\ at' = at + 2
     ELSE mode' = "whole" /\ UNCHANGED at
  /\ UNCHANGED <<file, depth, tokens, errors>>

\* A loop over digits keeps those of the base and drops the separators.
InDigits(base) ==
  /\ Peek(0) \in Digits(base) \cup {Separator}
  /\ digits' = IF Peek(0) = Separator THEN digits ELSE Append(digits, Peek(0))
  /\ at' = at + 1
  /\ UNCHANGED mode

\* parse_integer: what does not fit is 0, and reported.
PushInteger(base) ==
  IF ValueOf(digits, base) > IntMax
  THEN Report("E0005", start, at) /\ Push("int", start, at, 0)
  ELSE Quiet /\ Push("int", start, at, ValueOf(digits, base))

InRadix ==
  /\ mode = "radix"
  /\ LET base == Base(file[start + 2])
     IN \/ InDigits(base) /\ NoToken /\ Quiet
        \/ /\ Peek(0) \notin Digits(base) \cup {Separator}
           /\ mode' = "token" /\ UNCHANGED <<at, digits>>
           /\ IF digits = <<>>
              THEN Report("E0006", start, at) /\ Push("int", start, at, 0)
              ELSE PushInteger(base)
  /\ UNCHANGED <<file, start, depth>>

\* An exponent follows the digits: its sign, if any, has a digit after it.
ExponentSign == IF Peek(1) \in {"+", "-"} THEN 1 ELSE 0
ExponentFollows == Peek(0) \in {"e", "E"} /\ Peek(1 + ExponentSign) \in DecimalDigits
EnterExponent == mode' = "exponent" /\ at' = at + 1 + ExponentSign

\* A slip: any dot begins one.
AnyDot == Peek(0) = "."

\* A dot begins a fraction only when a digit follows it.
FractionFollows == Peek(0) = "." /\ Peek(1) \in DecimalDigits

InWhole ==
  /\ mode = "whole"
  /\ \/ InDigits(10) /\ NoToken /\ Quiet
     \/ /\ FractionFollows
        /\ mode' = "fraction" /\ at' = at + 1 /\ UNCHANGED digits /\ NoToken /\ Quiet
     \/ ExponentFollows /\ EnterExponent /\ UNCHANGED digits /\ NoToken /\ Quiet
     \/ /\ Peek(0) \notin DecimalDigits \cup {Separator} /\ ~FractionFollows /\ ~ExponentFollows
        /\ mode' = "token" /\ UNCHANGED <<at, digits>>
        /\ PushInteger(10)
  /\ UNCHANGED <<file, start, depth>>

InFraction ==
  /\ mode = "fraction"
  /\ \/ InDigits(10) /\ NoToken
     \/ ExponentFollows /\ EnterExponent /\ UNCHANGED digits /\ NoToken
     \/ /\ Peek(0) \notin DecimalDigits \cup {Separator} /\ ~ExponentFollows
        /\ mode' = "token" /\ UNCHANGED <<at, digits>>
        /\ Push("float", start, at, 0)
  /\ UNCHANGED <<file, start, depth, errors>>

InExponent ==
  /\ mode = "exponent"
  /\ IF Peek(0) \in DecimalDigits
     THEN at' = at + 1 /\ UNCHANGED <<mode, tokens>>
     ELSE mode' = "token" /\ UNCHANGED at /\ Push("float", start, at, 0)
  /\ UNCHANGED <<file, start, depth, digits, errors>>

(*---------------------------------- strings ------------------------------*)

String ==
  /\ mode = "token" /\ Peek(0) = Quote
  /\ mode' = "string" /\ start' = at
  /\ at' = at + 1
  /\ UNCHANGED <<file, depth, digits, tokens, errors>>

\* The closing quote, or the newline or end of the text that comes before it.
EndString ==
  /\ mode = "string" /\ (at = Size \/ Peek(0) \in {Quote, "\n"})
  /\ mode' = "token"
  /\ at' = IF Peek(0) = Quote THEN at + 1 ELSE at
  /\ Push("string", start, at', 0)
  /\ IF Peek(0) = Quote THEN Quiet ELSE Report("E0008", start, at')
  /\ UNCHANGED <<file, start, depth, digits>>

InString ==
  /\ mode = "string" /\ at < Size /\ Peek(0) \notin {Quote, "\n", "\\"}
  /\ at' = at + 1
  /\ UNCHANGED <<file, mode, start, depth, digits, tokens, errors>>

SimpleEscapes == {"n", "t", "r", "0", "\\", "\"", "e"}

\* lex_escape. A backslash that ends the text reports nothing of its own; one
\* that is not understood takes the character after it along.
Escape ==
  /\ mode = "string" /\ Peek(0) = "\\"
  /\ UNCHANGED <<file, start, depth, tokens>>
  /\ \/ /\ at + 1 = Size
        /\ at' = at + 1 /\ UNCHANGED <<mode, digits>> /\ Quiet
     \/ /\ Peek(1) \in SimpleEscapes
        /\ at' = at + 2 /\ UNCHANGED <<mode, digits>> /\ Quiet
     \/ /\ Peek(1) = "x" /\ Peek(2) \in HexDigits /\ Peek(3) \in HexDigits
        /\ at' = at + 4 /\ UNCHANGED <<mode, digits>> /\ Quiet
     \/ /\ Peek(1) = "u" /\ Peek(2) = OpenBrace
        /\ at' = at + 3 /\ mode' = "codepoint" /\ digits' = <<>> /\ Quiet
     \/ /\ at + 1 < Size /\ Peek(1) \notin SimpleEscapes
        /\ Peek(1) = "x" => ~(Peek(2) \in HexDigits /\ Peek(3) \in HexDigits)
        /\ Peek(1) = "u" => Peek(2) # OpenBrace
        /\ at' = at + 2 /\ UNCHANGED <<mode, digits>>
        /\ Report("E0007", at, at + 2)

MaxCodePoint == 1114111
CodePoint(text) == FoldLeft(LAMBDA v, d : 16 * v + HexValue[d], 0, text)

\* A slip: a match that takes whatever character is there.
TakenUnseen(c) == IF at < Size THEN 1 ELSE 0

\* What match takes of the text.
Taken(c) == IF Peek(0) = c THEN 1 ELSE 0

\* The digits of a code point, and the brace that match takes if it is there.
InCodePoint ==
  /\ mode = "codepoint"
  /\ IF Peek(0) \in HexDigits
     THEN /\ at' = at + 1 /\ digits' = Append(digits, Peek(0))
          /\ UNCHANGED mode /\ Quiet
     ELSE /\ mode' = "string" /\ UNCHANGED digits
          /\ at' = at + Taken(CloseBrace)
          /\ IF /\ Peek(0) = CloseBrace
                /\ Len(digits) \in 1 .. 6 /\ CodePoint(digits) <= MaxCodePoint
             THEN Quiet
             ELSE Report("E0007", at - Len(digits) - 3, at')
  /\ UNCHANGED <<file, start, depth, tokens>>

(*---------------------------------- symbols ------------------------------*)

\* What advance() and at most one match() take. A lone dot is no symbol.
Symbol ==
  /\ mode = "token" /\ Peek(0) \in SymbolStarts
  /\ ~(Peek(0) = "/" /\ Peek(1) \in {"/", "*"})
  /\ LET two == Peek(1) \in Seconds(Peek(0))
     IN /\ at' = at + (IF two THEN 2 ELSE 1)
        /\ IF Peek(0) = "." /\ ~two
           THEN Report("E0009", at, at') /\ NoToken
           ELSE Push("symbol", at, at', 0) /\ Quiet
  /\ CheckLimit
  /\ UNCHANGED <<file, start, depth, digits>>

Junk ==
  /\ mode = "token" /\ at < Size
  /\ Peek(0) \notin UNION {Spaces, Letters, DecimalDigits, {Quote}, SymbolStarts}
  /\ mode' = "junk" /\ start' = at
  /\ at' = at + 1
  /\ UNCHANGED <<file, depth, digits, tokens, errors>>

\* One error for a run of one character.
InJunk ==
  /\ mode = "junk"
  /\ IF at < Size /\ Peek(0) = file[start + 1]
     THEN at' = at + 1 /\ UNCHANGED mode /\ Quiet
     ELSE /\ UNCHANGED at
          /\ Report("E0010", start, at)
          /\ CheckLimit
  /\ UNCHANGED <<file, start, depth, digits, tokens>>

Finish ==
  /\ \/ mode = "token" /\ at = Size
     \/ mode = "stopped"
  /\ mode' = "done"
  /\ Push("eof", Size, Size, 0)
  /\ UNCHANGED <<file, at, start, depth, digits, errors>>

\* tokenize has returned.
Ended == mode = "done" /\ UNCHANGED vars

Next ==
  \/ Space \/ LineComment \/ InLineComment \/ BlockComment \/ InBlockComment \/ OpenComment
  \/ Word \/ InWord \/ Number \/ InRadix \/ InWhole \/ InFraction \/ InExponent
  \/ String \/ EndString \/ InString \/ Escape \/ InCodePoint
  \/ Symbol \/ Junk \/ InJunk \/ Finish \/ Ended

\* tokenize is one call, and runs on until it returns.
Spec == Init /\ [][Next]_vars /\ WF_vars(Next)

(*--------------------------------- properties ----------------------------*)

Returned == mode = "done"

\* Every token but the last has a character, tokens come in the order of the
\* text and share none of it, and what has been read is behind the lexer: the
\* parser, which takes a position for a place in the file, never goes back.
\* (push, span_from)
TokensInOrder ==
  \A k \in 1 .. Len(tokens) :
    /\ 0 <= tokens[k].begin /\ tokens[k].end <= Size
    /\ IF tokens[k].class = "eof"
       THEN Returned /\ k = Len(tokens) /\ tokens[k].begin = Size
       ELSE tokens[k].begin < tokens[k].end /\ (~Returned => tokens[k].end <= at)
    /\ \A l \in k + 1 .. Len(tokens) : tokens[k].end <= tokens[l].begin

\* A file of junk gives no more errors for it than the limit, however long it
\* is, whatever errors its literals and comments gave before. (tokenize)
JunkErrors(s) == { k \in 1 .. Len(s) : s[k].code \in {"E0009", "E0010"} }
JunkCapped == Cardinality(JunkErrors(errors)) <= ErrorLimit
=============================================================================
