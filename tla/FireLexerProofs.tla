-------------------------- MODULE FireLexerProofs --------------------------
(***************************************************************************)
(* For every text, limit and range of `int`: the lexer's tokens are in     *)
(* order and disjoint, inside the file, and end with the end of the file;  *)
(* errors about junk are capped; a string ends where it is written;        *)
(* nothing is left out in silence; and the carets of an error stand under  *)
(* what it is about.                                                       *)
(*                                                                         *)
(* Cursor says where the lexer is, and why a token it is about to make has *)
(* a character: the loop it is in has consumed one, or stands before one   *)
(* that it will. Behind bounds what was read before the token being made.  *)
(* Where strings and comments end is a function computed from the end of   *)
(* the text: DownFrom shows that there is one, and what it is at an offset *)
(* is then an equation the lexer's loops keep, turn by turn.               *)
(* What a line shows is one from its begin, by UpTo.                       *)
(***************************************************************************)
EXTENDS FireLexicon, FiniteSetTheorems, WellFoundedInduction, TLAPS

\* The modes in which a token, or junk, that begins at `start` is being read.
Consuming == {"word", "radix", "whole", "fraction", "exponent", "string", "codepoint", "junk"}

Behind == IF mode \in Consuming THEN start ELSE at

Cursor ==
  /\ Size \in Nat
  /\ at \in Nat /\ at <= Size
  /\ start \in Nat /\ start <= at
  /\ mode \in Modes
  /\ mode \in Consuming \ {"word", "whole"} => start < at
  /\ mode = "word" => start < at \/ (at < Size /\ file[at + 1] \in Letters)
  /\ mode = "whole" => start < at \/ (at < Size /\ file[at + 1] \in DecimalDigits)

IsSequence(s) == \E S : s \in Seq(S)

\* The tokens made before the last one, all at or before a bound.
Ordered(s, bound) ==
  /\ IsSequence(s)
  /\ \A k \in 1 .. Len(s) :
       /\ s[k].class # "eof"
       /\ s[k].begin \in Nat /\ s[k].end \in Nat
       /\ s[k].begin < s[k].end /\ s[k].end <= bound
       /\ \A l \in k + 1 .. Len(s) : s[k].end <= s[l].begin

TokensInv ==
  /\ Cursor
  /\ mode # "done" => Ordered(tokens, Behind)
  /\ mode = "done" => TokensInOrder

-----------------------------------------------------------------------------
\* No character of a class is what Peek finds past the end.
LEMMA CharactersAreNotTheEnd ==
  /\ "end" \notin Spaces /\ "end" \notin Letters /\ "end" \notin DecimalDigits /\ "end" \notin HexDigits
  /\ "end" \notin Markers /\ "end" \notin SimpleEscapes
  /\ "end" \notin {Quote, OpenBrace, CloseBrace, Separator}
  /\ \A base : "end" \notin Digits(base)
  BY DEF Spaces, Letters, DecimalDigits, HexDigits, Markers, SimpleEscapes, Digits,
         BinaryDigits, OctalDigits, Quote, OpenBrace, CloseBrace, Separator

\* A symbol, and what follows it in one, is a character.
LEMMA SymbolsAreNotTheEnd ==
  /\ "end" \notin SymbolStarts
  /\ \A c \in SymbolStarts : "end" \notin Seconds(c)
  BY DEF SymbolStarts, Seconds

LEMMA OrderedWeakens ==
  ASSUME NEW s, NEW b \in Nat, NEW c \in Nat, b <= c, Ordered(s, b)
  PROVE  Ordered(s, c)
  BY DEF Ordered

\* A token that begins at or after the bound goes to the end.
LEMMA OrderedAppends ==
  ASSUME NEW s, NEW b \in Nat, Ordered(s, b),
         NEW t, t.begin \in Nat, t.end \in Nat, t.class # "eof", b <= t.begin, t.begin < t.end
  PROVE  Ordered(Append(s, t), t.end)
<1>1. PICK S : s \in Seq(S)
  BY DEF Ordered, IsSequence
<1>2. Append(s, t) \in Seq(S \cup {t})
  BY <1>1
<1>3. /\ Len(Append(s, t)) = Len(s) + 1 /\ Len(s) \in Nat
      /\ \A k \in 1 .. Len(s) : Append(s, t)[k] = s[k]
      /\ Append(s, t)[Len(s) + 1] = t
  BY <1>1
<1>4. ASSUME NEW k \in 1 .. Len(s)
      PROVE  s[k].end <= t.begin
  BY DEF Ordered
<1> QED
  BY <1>2, <1>3, <1>4 DEF Ordered, IsSequence

\* What is unchanged by a step keeps its value in the cursor.
LEMMA CursorStep ==
  ASSUME Cursor, Next
  PROVE  Cursor'
<1> USE DEF Size, Consuming, Modes
<1>p. /\ Size \in Nat /\ at \in Nat /\ start \in Nat /\ at <= Size /\ start <= at /\ mode \in Modes
  BY DEF Cursor
<1>i. /\ Peek(0) # "end" => at < Size
      /\ Peek(1) # "end" => at + 1 < Size
      /\ Peek(2) # "end" => at + 2 < Size
      /\ Peek(3) # "end" => at + 3 < Size
  BY <1>p DEF Peek
<1>n. at < Size => Peek(0) = file[at + 1]
  BY <1>p DEF Peek
<1>1. CASE Space
  BY <1>1, <1>p, <1>i, CharactersAreNotTheEnd DEF Space, Cursor
<1>2. CASE LineComment
  BY <1>2, <1>p DEF LineComment, Cursor
<1>3. CASE InLineComment
  BY <1>3, <1>p DEF InLineComment, Cursor
<1>4. CASE BlockComment
  BY <1>4, <1>p, <1>i DEF BlockComment, Cursor
<1>5. CASE InBlockComment
  BY <1>5, <1>p, <1>i DEF InBlockComment, Cursor
<1>6. CASE OpenComment
  BY <1>6, <1>p DEF OpenComment, Cursor
<1>7. CASE Word
  BY <1>7, <1>p, <1>n, <1>i, CharactersAreNotTheEnd DEF Word, Cursor
<1>8. CASE InWord
  BY <1>8, <1>p, <1>i, CharactersAreNotTheEnd DEF InWord, Cursor
<1>9. CASE Number
  BY <1>9, <1>p, <1>n, <1>i, CharactersAreNotTheEnd DEF Number, Cursor
<1>10. ASSUME NEW base, InDigits(base)
       PROVE  at' = at + 1 /\ at + 1 <= Size /\ mode' = mode
  BY <1>10, <1>p, <1>i, CharactersAreNotTheEnd DEF InDigits
<1>11. CASE InRadix
  BY <1>11, <1>p, <1>10 DEF InRadix, Cursor
<1>12. ASSUME ExponentFollows, EnterExponent
       PROVE  mode' = "exponent" /\ at' \in Nat /\ at < at' /\ at' <= Size
  <2>1. ExponentSign \in {0, 1}
    BY DEF ExponentSign
  <2>2. at + (1 + ExponentSign) < Size
    BY <1>12, <1>p, <1>i, <2>1, CharactersAreNotTheEnd DEF ExponentFollows
  <2> QED
    BY <1>12, <1>p, <2>1, <2>2 DEF EnterExponent
<1>13. CASE InWhole
  <2>1. CASE InDigits(10)
    BY <1>13, <1>p, <1>10, <2>1 DEF InWhole, Cursor
  <2>2. CASE FractionFollows /\ mode' = "fraction" /\ at' = at + 1
    BY <1>13, <1>p, <1>i, CharactersAreNotTheEnd, <2>2 DEF InWhole, FractionFollows, Cursor
  <2>3. CASE ExponentFollows /\ EnterExponent
    BY <1>13, <1>p, <1>12, <2>3 DEF InWhole, Cursor
  <2>4. CASE mode' = "token" /\ at' = at
    BY <1>13, <1>p, <1>n, <2>4 DEF InWhole, Cursor
  <2> QED
    BY <1>13, <2>1, <2>2, <2>3, <2>4 DEF InWhole
<1>14. CASE InFraction
  <2>1. CASE InDigits(10)
    BY <1>14, <1>p, <1>10, <2>1 DEF InFraction, Cursor
  <2>2. CASE ExponentFollows /\ EnterExponent
    BY <1>14, <1>p, <1>12, <2>2 DEF InFraction, Cursor
  <2>3. CASE mode' = "token" /\ at' = at
    BY <1>14, <1>p, <2>3 DEF InFraction, Cursor
  <2> QED
    BY <1>14, <2>1, <2>2, <2>3 DEF InFraction
<1>15. CASE InExponent
  BY <1>15, <1>p, <1>i, CharactersAreNotTheEnd DEF InExponent, Cursor
<1>16. CASE String
  BY <1>16, <1>p, <1>i, CharactersAreNotTheEnd DEF String, Cursor
<1>17. CASE EndString
  BY <1>17, <1>p, <1>i, CharactersAreNotTheEnd DEF EndString, Cursor
<1>18. CASE InString
  BY <1>18, <1>p, <1>i DEF InString, Cursor
<1>19. CASE Escape
  <2>1. at' \in Nat /\ at <= at' /\ at' <= Size
    BY <1>19, <1>p, <1>i, CharactersAreNotTheEnd DEF Escape
  <2>2. mode' \in {"string", "codepoint"} /\ mode = "string" /\ start' = start /\ file' = file
    BY <1>19 DEF Escape
  <2> QED
    BY <1>p, <2>1, <2>2 DEF Cursor
<1>20. CASE InCodePoint
  BY <1>20, <1>p, <1>i, CharactersAreNotTheEnd DEF InCodePoint, Taken, Cursor
<1>21. CASE Symbol
  <2>1. at' \in Nat /\ at' <= Size /\ at <= at'
    BY <1>21, <1>p, <1>i, SymbolsAreNotTheEnd DEF Symbol
  <2>2. mode' \in {"token", "stopped"} /\ start' = start /\ file' = file
    BY <1>21 DEF Symbol, CheckLimit
  <2> QED
    BY <1>p, <2>1, <2>2 DEF Cursor
<1>22. CASE Junk
  BY <1>22, <1>p, <1>i DEF Junk, Cursor
<1>23. CASE InJunk
  BY <1>23, <1>p DEF InJunk, CheckLimit, Cursor
<1>24. CASE Finish
  BY <1>24, <1>p DEF Finish, Cursor
<1>25. CASE Ended
  BY <1>25 DEF Ended, vars, Cursor
<1> QED
  BY <1>1, <1>2, <1>3, <1>4, <1>5, <1>6, <1>7, <1>8, <1>9, <1>11, <1>13, <1>14, <1>15, <1>16,
     <1>17, <1>18, <1>19, <1>20, <1>21, <1>22, <1>23, <1>24, <1>25 DEF Next

\* A step that makes no token leaves those there are behind it.
LEMMA NoTokenKeeps ==
  ASSUME TokensInv, Cursor', tokens' = tokens, file' = file,
         mode # "done", mode' # "done", Behind \in Nat, Behind' \in Nat, Behind <= Behind'
  PROVE  TokensInv'
<1>1. Ordered(tokens, Behind')
  BY OrderedWeakens DEF TokensInv
<1> QED
  BY <1>1 DEF TokensInv

\* A token read from behind the lexer up to where it is goes to the end.
LEMMA PushKeeps ==
  ASSUME TokensInv, Cursor', mode # "done", mode' # "done", Behind \in Nat, Behind' \in Nat,
         NEW class \in Classes \ {"eof"}, NEW from \in Nat, NEW to \in Nat, NEW value,
         Push(class, from, to, value), Behind <= from, from < to, to = Behind'
  PROVE  TokensInv'
<1> DEFINE t == [class |-> class, begin |-> from, end |-> to, value |-> value]
<1>1. t.begin = from /\ t.end = to /\ t.class # "eof"
  OBVIOUS
<1>2. tokens' = Append(tokens, t)
  BY DEF Push
<1> HIDE DEF t
<1>3. Ordered(Append(tokens, t), to)
  BY <1>1, OrderedAppends DEF TokensInv
<1> QED
  BY <1>2, <1>3 DEF TokensInv

\* The end of the file goes last, and the tokens before it are in the file.
LEMMA FinishKeeps ==
  ASSUME TokensInv, Cursor', Finish
  PROVE  TokensInv'
<1>1. Size \in Nat /\ Size' = Size /\ mode # "done" /\ mode' = "done" /\ Behind = at /\ at <= Size /\ at \in Nat
  BY DEF TokensInv, Cursor, Finish, Behind, Consuming, Size
<1> DEFINE t == [class |-> "eof", begin |-> Size, end |-> Size, value |-> 0]
<1>2. tokens' = Append(tokens, t)
  BY DEF Finish, Push
<1>3. t.begin = Size /\ t.end = Size /\ t.class = "eof"
  OBVIOUS
<1> HIDE DEF t
<1>4. Ordered(tokens, Size)
  BY <1>1, OrderedWeakens DEF TokensInv
<1>5. PICK S : tokens \in Seq(S)
  BY <1>4 DEF Ordered, IsSequence
<1>6. /\ Len(tokens') = Len(tokens) + 1 /\ Len(tokens) \in Nat
      /\ \A k \in 1 .. Len(tokens) : tokens'[k] = tokens[k]
      /\ tokens'[Len(tokens) + 1] = t
  BY <1>2, <1>5
<1>7. ASSUME NEW k \in 1 .. Len(tokens')
      PROVE  /\ 0 <= tokens'[k].begin /\ tokens'[k].end <= Size'
             /\ IF tokens'[k].class = "eof"
                THEN Returned' /\ k = Len(tokens') /\ tokens'[k].begin = Size'
                ELSE tokens'[k].begin < tokens'[k].end /\ (~Returned' => tokens'[k].end <= at')
             /\ \A l \in k + 1 .. Len(tokens') : tokens'[k].end <= tokens'[l].begin
  <2>1. CASE k = Len(tokens) + 1
    BY <1>1, <1>3, <1>6, <2>1 DEF Returned
  <2>2. CASE k \in 1 .. Len(tokens)
    <3>1. /\ tokens[k].class # "eof" /\ tokens[k].begin \in Nat /\ tokens[k].end \in Nat
          /\ tokens[k].begin < tokens[k].end /\ tokens[k].end <= Size
          /\ \A l \in k + 1 .. Len(tokens) : tokens[k].end <= tokens[l].begin
      BY <1>4, <2>2 DEF Ordered
    <3> QED
      BY <1>1, <1>3, <1>6, <2>2, <3>1 DEF Returned
  <2> QED
    BY <1>6, <2>1, <2>2
<1>8. TokensInOrder'
  BY <1>7 DEF TokensInOrder
<1> QED
  BY <1>1, <1>8 DEF TokensInv

\* An action makes no token, and what is read moves on, or makes one of what has
\* been read; only the end of the file ends it.
LEMMA TokensStep ==
  ASSUME TokensInv, Next
  PROVE  TokensInv'
<1>c. Cursor /\ Cursor'
  BY CursorStep DEF TokensInv
<1>p. /\ at \in Nat /\ start \in Nat /\ start <= at /\ at' \in Nat /\ start' \in Nat /\ start' <= at'
      /\ Behind = (IF mode \in Consuming THEN start ELSE at)
      /\ Behind' = (IF mode' \in Consuming THEN start' ELSE at')
  BY <1>c DEF Cursor, Behind
<1>b. Behind \in Nat /\ Behind' \in Nat
  BY <1>p
\* The two ways a step keeps the invariant.
<1>k. ASSUME tokens' = tokens, file' = file, mode # "done", mode' # "done", Behind <= Behind'
      PROVE  TokensInv'
  BY <1>k, <1>b, <1>c, NoTokenKeeps
<1>m. ASSUME mode \in Consuming, mode' = "token", start < at',
             NEW class \in Classes \ {"eof"}, NEW value, Push(class, start, at', value)
      PROVE  TokensInv'
  <2>1. mode # "done" /\ mode' # "done" /\ Behind <= start /\ at' = Behind'
    BY <1>m, <1>p DEF Consuming
  <2> QED
    BY <1>m, <1>b, <1>c, <1>p, <2>1, PushKeeps
<1>1. CASE Space
  <2>1. tokens' = tokens /\ file' = file /\ mode # "done" /\ mode' # "done"
    BY <1>1 DEF Space
  <2>2. Behind <= Behind'
    BY <1>1, <1>p DEF Space, Consuming
  <2> QED
    BY <1>k, <2>1, <2>2
<1>2. CASE LineComment
  <2>1. tokens' = tokens /\ file' = file /\ mode # "done" /\ mode' # "done"
    BY <1>2 DEF LineComment
  <2>2. Behind <= Behind'
    BY <1>2, <1>p DEF LineComment, Consuming
  <2> QED
    BY <1>k, <2>1, <2>2
<1>3. CASE InLineComment
  <2>1. tokens' = tokens /\ file' = file /\ mode # "done" /\ mode' # "done"
    BY <1>3 DEF InLineComment
  <2>2. Behind <= Behind'
    BY <1>3, <1>p DEF InLineComment, Consuming
  <2> QED
    BY <1>k, <2>1, <2>2
<1>4. CASE BlockComment
  <2>1. tokens' = tokens /\ file' = file /\ mode # "done" /\ mode' # "done"
    BY <1>4 DEF BlockComment
  <2>2. Behind <= Behind'
    BY <1>4, <1>p DEF BlockComment, Consuming
  <2> QED
    BY <1>k, <2>1, <2>2
<1>5. CASE InBlockComment
  <2>1. tokens' = tokens /\ file' = file /\ mode # "done" /\ mode' # "done"
    BY <1>5 DEF InBlockComment
  <2>2. Behind <= Behind'
    BY <1>5, <1>p DEF InBlockComment, Consuming
  <2> QED
    BY <1>k, <2>1, <2>2
<1>6. CASE OpenComment
  <2>1. tokens' = tokens /\ file' = file /\ mode # "done" /\ mode' # "done"
    BY <1>6 DEF OpenComment
  <2>2. Behind <= Behind'
    BY <1>6, <1>p DEF OpenComment, Consuming
  <2> QED
    BY <1>k, <2>1, <2>2
<1>7. CASE Word
  <2>1. tokens' = tokens /\ file' = file /\ mode # "done" /\ mode' # "done"
    BY <1>7 DEF Word
  <2>2. Behind <= Behind'
    BY <1>7, <1>p DEF Word, Consuming
  <2> QED
    BY <1>k, <2>1, <2>2
<1>8. CASE Number
  <2>1. tokens' = tokens /\ file' = file /\ mode # "done" /\ mode' # "done"
    BY <1>8 DEF Number
  <2>2. Behind <= Behind'
    BY <1>8, <1>p DEF Number, Consuming
  <2> QED
    BY <1>k, <2>1, <2>2
<1>9. CASE String
  <2>1. tokens' = tokens /\ file' = file /\ mode # "done" /\ mode' # "done"
    BY <1>9 DEF String
  <2>2. Behind <= Behind'
    BY <1>9, <1>p DEF String, Consuming
  <2> QED
    BY <1>k, <2>1, <2>2
<1>10. CASE InString
  <2>1. tokens' = tokens /\ file' = file /\ mode # "done" /\ mode' # "done"
    BY <1>10 DEF InString
  <2>2. Behind <= Behind'
    BY <1>10, <1>p DEF InString, Consuming
  <2> QED
    BY <1>k, <2>1, <2>2
<1>11. CASE Escape
  <2>1. tokens' = tokens /\ file' = file /\ mode # "done" /\ mode' # "done"
    BY <1>11 DEF Escape
  <2>2. Behind <= Behind'
    BY <1>11, <1>p DEF Escape, Consuming
  <2> QED
    BY <1>k, <2>1, <2>2
<1>12. CASE InCodePoint
  <2>1. tokens' = tokens /\ file' = file /\ mode # "done" /\ mode' # "done"
    BY <1>12 DEF InCodePoint
  <2>2. Behind <= Behind'
    BY <1>12, <1>p DEF InCodePoint, Consuming
  <2> QED
    BY <1>k, <2>1, <2>2
<1>13. CASE Junk
  <2>1. tokens' = tokens /\ file' = file /\ mode # "done" /\ mode' # "done"
    BY <1>13 DEF Junk
  <2>2. Behind <= Behind'
    BY <1>13, <1>p DEF Junk, Consuming
  <2> QED
    BY <1>k, <2>1, <2>2
<1>14. CASE Finish
  BY <1>14, <1>c, FinishKeeps
<1>n. at < Size => Peek(0) = file[at + 1]
  BY <1>p DEF Peek
\* A loop that goes on, or that hands over to the next one of its number.
<1>r. ASSUME tokens' = tokens, file' = file, mode \in Consuming, mode' \in Consuming, start' = start
      PROVE  TokensInv'
  BY <1>r, <1>k, <1>p DEF Consuming
<1>15. CASE InWord
  <2>1. CASE at' = at + 1 /\ mode' = mode /\ tokens' = tokens
    BY <1>15, <1>r, <2>1 DEF InWord, Consuming
  <2>2. CASE /\ Peek(0) \notin Letters \cup DecimalDigits
             /\ mode' = "token" /\ at' = at
             /\ Push(IF Spelling(start, at) \in Keywords THEN "keyword" ELSE "identifier", start, at, 0)
    <3> DEFINE class == IF Spelling(start, at) \in Keywords THEN "keyword" ELSE "identifier"
    <3>1. mode \in Consuming /\ start < at'
      BY <1>15, <1>c, <1>p, <1>n, <2>2 DEF InWord, Cursor, Consuming
    <3>2. class \in Classes \ {"eof"}
      BY DEF Classes
    <3>3. Push(class, start, at', 0)
      BY <2>2
    <3> QED
      BY <1>m, <2>2, <3>1, <3>2, <3>3
  <2> QED
    BY <1>15, <2>1, <2>2 DEF InWord
<1>16. ASSUME NEW base, PushInteger(base), mode \in Consuming, mode' = "token", at' = at, start < at
       PROVE  TokensInv'
  <2>1. "int" \in Classes \ {"eof"}
    BY DEF Classes
  <2>2. CASE Push("int", start, at, 0)
    BY <1>16, <1>m, <2>1, <2>2
  <2>3. CASE Push("int", start, at, ValueOf(digits, base))
    BY <1>16, <1>m, <2>1, <2>3
  <2> QED
    BY <1>16, <2>2, <2>3 DEF PushInteger
<1>17. CASE InRadix
  <2> DEFINE base == Base(file[start + 2])
  <2>1. mode = "radix" /\ mode \in Consuming /\ start < at /\ start' = start /\ file' = file
    BY <1>17, <1>c DEF InRadix, Cursor, Consuming
  <2>2. CASE InDigits(base) /\ NoToken
    BY <1>r, <2>1, <2>2 DEF InDigits, NoToken
  <2>3. CASE mode' = "token" /\ at' = at /\ Push("int", start, at, 0)
    BY <1>m, <2>1, <2>3 DEF Classes
  <2>4. CASE mode' = "token" /\ at' = at /\ PushInteger(base)
    BY <1>16, <2>1, <2>4
  <2> QED
    BY <1>17, <2>2, <2>3, <2>4 DEF InRadix
<1>18. CASE InWhole
  <2>1. mode = "whole" /\ mode \in Consuming /\ start' = start /\ file' = file
    BY <1>18 DEF InWhole, Consuming
  <2>2. CASE InDigits(10) /\ NoToken
    BY <1>r, <2>1, <2>2 DEF InDigits, NoToken
  <2>3. CASE mode' \in {"fraction", "exponent"} /\ NoToken
    BY <1>r, <2>1, <2>3 DEF NoToken, Consuming
  <2>4. CASE Peek(0) \notin DecimalDigits \cup {Separator} /\ mode' = "token" /\ at' = at /\ PushInteger(10)
    <3>1. start < at
      BY <1>c, <1>n, <2>1, <2>4 DEF Cursor
    <3> QED
      BY <1>16, <2>1, <2>4, <3>1
  <2> QED
    BY <1>18, <2>2, <2>3, <2>4 DEF InWhole, EnterExponent
<1>19. CASE InFraction
  <2>1. mode = "fraction" /\ mode \in Consuming /\ start < at /\ start' = start /\ file' = file
    BY <1>19, <1>c DEF InFraction, Cursor, Consuming
  <2>2. CASE InDigits(10) /\ NoToken
    BY <1>r, <2>1, <2>2 DEF InDigits, NoToken
  <2>3. CASE mode' = "exponent" /\ NoToken
    BY <1>r, <2>1, <2>3 DEF NoToken, Consuming
  <2>4. CASE mode' = "token" /\ at' = at /\ Push("float", start, at, 0)
    BY <1>m, <2>1, <2>4 DEF Classes
  <2> QED
    BY <1>19, <2>2, <2>3, <2>4 DEF InFraction, EnterExponent
<1>20. CASE InExponent
  <2>1. mode = "exponent" /\ mode \in Consuming /\ start < at /\ start' = start /\ file' = file
    BY <1>20, <1>c DEF InExponent, Cursor, Consuming
  <2>2. CASE mode' = mode /\ tokens' = tokens
    BY <1>r, <2>1, <2>2
  <2>3. CASE mode' = "token" /\ at' = at /\ Push("float", start, at, 0)
    BY <1>m, <2>1, <2>3 DEF Classes
  <2> QED
    BY <1>20, <2>2, <2>3 DEF InExponent
<1>21. CASE EndString
  <2>1. mode \in Consuming /\ mode' = "token" /\ start < at' /\ Push("string", start, at', 0)
    BY <1>21, <1>c, <1>p DEF EndString, Cursor, Consuming
  <2> QED
    BY <1>m, <2>1 DEF Classes
<1>22. CASE Symbol
  <2>1. mode = "token" /\ mode' \in {"token", "stopped"} /\ file' = file /\ at < at'
    BY <1>22, <1>p DEF Symbol, CheckLimit
  <2>2. Behind = at /\ Behind' = at'
    BY <1>p, <2>1 DEF Consuming
  <2>3. CASE NoToken
    BY <1>k, <1>p, <2>1, <2>2, <2>3 DEF NoToken
  <2>4. CASE Push("symbol", at, at', 0)
    <3>1. "symbol" \in Classes \ {"eof"}
      BY DEF Classes
    <3> QED
      BY <1>b, <1>c, <1>p, <2>1, <2>2, <2>4, <3>1, PushKeeps
  <2> QED
    BY <1>22, <2>3, <2>4 DEF Symbol
<1>23. CASE InJunk
  <2>1. tokens' = tokens /\ file' = file /\ mode = "junk" /\ start' = start /\ at <= at'
    BY <1>23, <1>p DEF InJunk
  <2>2. mode' \in {"junk", "token", "stopped"}
    BY <1>23 DEF InJunk, CheckLimit
  <2> QED
    BY <1>k, <1>p, <2>1, <2>2 DEF Consuming
<1>24. CASE Ended
  BY <1>24 DEF Ended, vars, TokensInv, Cursor, TokensInOrder, Returned, Size
<1> QED
  BY <1>1, <1>2, <1>3, <1>4, <1>5, <1>6, <1>7, <1>8, <1>9, <1>10, <1>11, <1>12, <1>13, <1>14,
     <1>15, <1>17, <1>18, <1>19, <1>20, <1>21, <1>22, <1>23, <1>24 DEF Next

LEMMA TokensStart ==
  ASSUME Init
  PROVE  TokensInv
<1>1. file \in Seq(STRING) /\ Size \in Nat
  BY LexerAssumption DEF Init, Size
<1>2. Cursor
  BY <1>1 DEF Init, Cursor, Modes, Consuming
<1>3. tokens \in Seq({}) /\ Len(tokens) = 0
  BY DEF Init
<1>4. Ordered(tokens, Behind)
  BY <1>3 DEF Ordered, IsSequence
<1> QED
  BY <1>2, <1>4 DEF TokensInv, Init

LEMMA TokensStutter ==
  ASSUME TokensInv, UNCHANGED vars
  PROVE  TokensInv'
  BY DEF vars, TokensInv, Cursor, Ordered, Behind, TokensInOrder, Returned, Size

\* The invariant is more than the property: no token ends past the lexer.
LEMMA TokensInvImplies ==
  ASSUME TokensInv
  PROVE  TokensInOrder
<1>1. CASE mode = "done"
  BY <1>1 DEF TokensInv
<1>2. CASE mode # "done"
  <2>1. Ordered(tokens, Behind) /\ Cursor
    BY <1>2 DEF TokensInv
  <2>2. Behind \in Nat /\ Behind <= at /\ at \in Nat /\ at <= Size /\ Size \in Nat
    BY <2>1 DEF Behind, Cursor
  <2> QED
    BY <2>1, <2>2 DEF Ordered, TokensInOrder
<1> QED
  BY <1>1, <1>2

\* For every set of texts, the lexer's tokens are never empty, out of order or
\* outside the file, none comes after the end of the file, and that comes only
\* when tokenize returns. (Lexer::tokenize, push, span_from)
THEOREM LexerTokensInOrder == Spec => []TokensInOrder
<1>1. Init => TokensInv
  BY TokensStart
<1>2. TokensInv /\ [Next]_vars => TokensInv'
  BY TokensStep, TokensStutter
<1>3. TokensInv => TokensInOrder
  BY TokensInvImplies
<1> QED
  BY <1>1, <1>2, <1>3, PTL DEF Spec

-----------------------------------------------------------------------------
\* While the lexer goes on it has room for one more error of junk.
JunkInv ==
  /\ IsSequence(errors)
  /\ Cardinality(JunkErrors(errors)) <= ErrorLimit
  /\ mode \notin {"stopped", "done"} => Cardinality(JunkErrors(errors)) < ErrorLimit

LEMMA JunkCounted ==
  ASSUME NEW s, IsSequence(s)
  PROVE  /\ IsFiniteSet(JunkErrors(s)) /\ Cardinality(JunkErrors(s)) \in Nat
         /\ Len(s) \in Nat /\ Cardinality(JunkErrors(s)) <= Len(s)
<1>1. Len(s) \in Nat
  BY DEF IsSequence
<1>2. IsFiniteSet(1 .. Len(s)) /\ Cardinality(1 .. Len(s)) = Len(s)
  BY <1>1, FS_Interval
<1>3. JunkErrors(s) \subseteq 1 .. Len(s)
  BY DEF JunkErrors
<1> QED
  BY <1>1, <1>2, <1>3, FS_Subset, FS_CardinalityType

\* One more error is at most one more of junk.
LEMMA JunkAppended ==
  ASSUME NEW s, IsSequence(s), NEW e
  PROVE  /\ IsSequence(Append(s, e)) /\ Len(Append(s, e)) = Len(s) + 1
         /\ Cardinality(JunkErrors(Append(s, e))) <= Cardinality(JunkErrors(s)) + 1
         /\ e.code \notin {"E0009", "E0010"} => JunkErrors(Append(s, e)) = JunkErrors(s)
<1>1. PICK S : s \in Seq(S)
  BY DEF IsSequence
<1>2. /\ Append(s, e) \in Seq(S \cup {e})
      /\ Len(Append(s, e)) = Len(s) + 1 /\ Len(s) \in Nat
      /\ \A k \in 1 .. Len(s) : Append(s, e)[k] = s[k]
      /\ Append(s, e)[Len(s) + 1] = e
  BY <1>1
<1>3. JunkErrors(Append(s, e)) \in {JunkErrors(s), JunkErrors(s) \cup {Len(s) + 1}}
  BY <1>2 DEF JunkErrors
<1>4. e.code \notin {"E0009", "E0010"} => JunkErrors(Append(s, e)) = JunkErrors(s)
  BY <1>2 DEF JunkErrors
<1>5. Cardinality(JunkErrors(s) \cup {Len(s) + 1}) \in
        {Cardinality(JunkErrors(s)), Cardinality(JunkErrors(s)) + 1}
  BY JunkCounted, FS_AddElement
<1>6. Cardinality(JunkErrors(Append(s, e))) <= Cardinality(JunkErrors(s)) + 1
  <2>1. Cardinality(JunkErrors(s)) \in Nat
    BY JunkCounted
  <2>2. CASE JunkErrors(Append(s, e)) = JunkErrors(s)
    BY <2>1, <2>2
  <2>3. CASE JunkErrors(Append(s, e)) = JunkErrors(s) \cup {Len(s) + 1}
    BY <1>5, <2>1, <2>3
  <2> QED
    BY <1>3, <2>2, <2>3
<1> QED
  BY <1>2, <1>4, <1>6 DEF IsSequence

\* An action leaves the errors alone, reports one that is not for junk, or
\* checks the limit after it.
LEMMA JunkStep ==
  ASSUME JunkInv, Next
  PROVE  JunkInv'
<1>1. ErrorLimit \in Nat
  BY LexerAssumption
<1>2. ASSUME errors' = errors, mode \notin {"stopped", "done"} \/ mode' \in {"stopped", "done"}
      PROVE  JunkInv'
  BY <1>2 DEF JunkInv
<1>3. ASSUME mode \notin {"stopped", "done"},
             NEW code \in {"E0004", "E0005", "E0006", "E0007", "E0008"}, NEW from, NEW to, Report(code, from, to)
      PROVE  JunkInv'
  <2> DEFINE e == [code |-> code, begin |-> from, end |-> to]
  <2>1. errors' = Append(errors, e) /\ e.code \notin {"E0009", "E0010"}
    BY <1>3 DEF Report
  <2> HIDE DEF e
  <2>2. IsSequence(errors') /\ JunkErrors(errors') = JunkErrors(errors)
    BY <2>1, JunkAppended DEF JunkInv
  <2> QED
    BY <1>1, <1>3, <2>2 DEF JunkInv
<1>4. ASSUME mode \notin {"stopped", "done"}, CheckLimit,
             errors' = errors \/ (\E e : errors' = Append(errors, e))
      PROVE  JunkInv'
  <2>1. IsSequence(errors') /\ Cardinality(JunkErrors(errors')) <= Cardinality(JunkErrors(errors)) + 1
    <3>1. CASE errors' = errors
      BY <3>1, JunkCounted DEF JunkInv
    <3>2. ASSUME NEW e, errors' = Append(errors, e)
          PROVE  <2>1!1 /\ <2>1!2
      BY <3>2, JunkAppended DEF JunkInv
    <3> QED
      BY <1>4, <3>1, <3>2
  <2>2. Cardinality(JunkErrors(errors)) \in Nat /\ Cardinality(JunkErrors(errors')) \in Nat
        /\ Len(errors') \in Nat /\ Cardinality(JunkErrors(errors')) <= Len(errors')
    BY <2>1, JunkCounted DEF JunkInv
  <2>3. Cardinality(JunkErrors(errors)) + 1 <= ErrorLimit
    BY <1>1, <1>4, <2>2 DEF JunkInv
  <2>4. mode' = "token" => Len(errors') < ErrorLimit
    BY <1>1, <1>4, <2>2 DEF CheckLimit
  <2>5. mode' \in {"token", "stopped"}
    BY <1>4 DEF CheckLimit
  <2> QED
    BY <1>1, <2>1, <2>2, <2>3, <2>4, <2>5 DEF JunkInv
<1>5. CASE Space
  BY <1>2, <1>5 DEF Space
<1>6. CASE LineComment
  BY <1>2, <1>6 DEF LineComment
<1>7. CASE InLineComment
  BY <1>2, <1>7 DEF InLineComment
<1>8. CASE BlockComment
  BY <1>2, <1>8 DEF BlockComment
<1>9. CASE InBlockComment
  BY <1>2, <1>9 DEF InBlockComment
<1>10. CASE Word
  BY <1>2, <1>10 DEF Word
<1>11. CASE InWord
  BY <1>2, <1>11 DEF InWord
<1>12. CASE Number
  BY <1>2, <1>12 DEF Number
<1>13. CASE InFraction
  BY <1>2, <1>13 DEF InFraction
<1>14. CASE InExponent
  BY <1>2, <1>14 DEF InExponent
<1>15. CASE String
  BY <1>2, <1>15 DEF String
<1>16. CASE InString
  BY <1>2, <1>16 DEF InString
<1>17. CASE Junk
  BY <1>2, <1>17 DEF Junk
<1>18. CASE Finish
  BY <1>2, <1>18 DEF Finish
<1>19. CASE Ended
  BY <1>19 DEF Ended, vars, JunkInv
<1>20. CASE OpenComment
  BY <1>3, <1>20 DEF OpenComment
<1>21. ASSUME NEW base, PushInteger(base), mode \notin {"stopped", "done"}, mode' = "token"
       PROVE  JunkInv'
  BY <1>2, <1>3, <1>21 DEF PushInteger, Quiet
<1>22. CASE InRadix
  <2>1. mode = "radix"
    BY <1>22 DEF InRadix
  <2>2. CASE Quiet
    BY <1>2, <2>1, <2>2 DEF Quiet
  <2>3. CASE Report("E0006", start, at)
    BY <1>3, <2>1, <2>3
  <2>4. ASSUME NEW base, PushInteger(base), mode' = "token"
        PROVE  JunkInv'
    BY <1>21, <2>1, <2>4
  <2> QED
    BY <1>22, <2>2, <2>3, <2>4 DEF InRadix
<1>23. CASE InWhole
  <2>1. mode = "whole"
    BY <1>23 DEF InWhole
  <2>2. CASE Quiet
    BY <1>2, <2>1, <2>2 DEF Quiet
  <2>3. CASE mode' = "token" /\ PushInteger(10)
    BY <1>21, <2>1, <2>3
  <2> QED
    BY <1>23, <2>2, <2>3 DEF InWhole
<1>24. CASE EndString
  <2>1. mode = "string" /\ (Quiet \/ Report("E0008", start, at'))
    BY <1>24 DEF EndString
  <2> QED
    BY <1>2, <1>3, <2>1 DEF Quiet
<1>25. CASE Escape
  <2>1. mode = "string" /\ (Quiet \/ Report("E0007", at, at + 2))
    BY <1>25 DEF Escape
  <2> QED
    BY <1>2, <1>3, <2>1 DEF Quiet
<1>26. CASE InCodePoint
  <2>1. mode = "codepoint" /\ (Quiet \/ Report("E0007", at - Len(digits) - 3, at'))
    BY <1>26 DEF InCodePoint
  <2> QED
    BY <1>2, <1>3, <2>1 DEF Quiet
<1>27. CASE Symbol
  <2>1. mode = "token" /\ CheckLimit /\ (Quiet \/ Report("E0009", at, at'))
    BY <1>27 DEF Symbol
  <2> QED
    BY <1>4, <2>1 DEF Quiet, Report
<1>28. CASE InJunk
  <2>1. mode = "junk"
    BY <1>28 DEF InJunk
  <2>2. CASE mode' = mode /\ Quiet
    BY <1>2, <2>1, <2>2 DEF Quiet
  <2>3. CASE Report("E0010", start, at) /\ CheckLimit
    BY <1>4, <2>1, <2>3 DEF Report
  <2> QED
    BY <1>28, <2>2, <2>3 DEF InJunk
<1> QED
  BY <1>5, <1>6, <1>7, <1>8, <1>9, <1>10, <1>11, <1>12, <1>13, <1>14, <1>15, <1>16, <1>17, <1>18, <1>19,
     <1>20, <1>22, <1>23, <1>24, <1>25, <1>26, <1>27, <1>28 DEF Next

\* For every text and every limit, at most as many errors are reported for
\* characters that begin no token as the limit says. (Lexer::tokenize)
THEOREM LexerJunkCapped == Spec => []JunkCapped
<1>1. Init => JunkInv
  <2> SUFFICES ASSUME Init PROVE JunkInv
    OBVIOUS
  <2>1. errors \in Seq({}) /\ JunkErrors(errors) = {}
    BY DEF Init, JunkErrors
  <2>2. Cardinality(JunkErrors(errors)) = 0
    BY <2>1, FS_EmptySet
  <2> QED
    BY <2>1, <2>2, LexerAssumption DEF JunkInv, IsSequence
<1>2. JunkInv /\ [Next]_vars => JunkInv'
  BY JunkStep DEF vars, JunkInv
<1>3. JunkInv => JunkCapped
  BY DEF JunkInv, JunkCapped
<1> QED
  BY <1>1, <1>2, <1>3, PTL DEF Spec
-----------------------------------------------------------------------------
(* Functions that are defined from the end of the text to its beginning.     *)

\* The least of a set of natural numbers.
LEMMA LeastOf ==
  ASSUME NEW S, S \subseteq Nat, S # {}
  PROVE  \E x \in S : \A y \in S : x <= y
<1> DEFINE Less == { ss \in Nat \X Nat : ss[1] < ss[2] }
<1>1. IsWellFoundedOn(Less, Nat)
  BY NatLessThanWellFounded, Zenon DEF OpToRel
<1> HIDE DEF Less
<1>2. PICK x \in S : \A y \in S : ~(<<y, x>> \in Less)
  BY <1>1, WFMin, Zenon
<1>3. ASSUME NEW y \in S, y < x
      PROVE  <<y, x>> \in Less
  <2>1. <<y, x>> \in Nat \X Nat /\ <<y, x>>[1] < <<y, x>>[2]
    BY <1>3
  <2> QED
    BY <2>1 DEF Less
<1>4. ASSUME NEW y \in S
      PROVE  x <= y
  <2>1. ~(y < x)
    BY <1>2, <1>3, Zenon
  <2> QED
    BY <2>1
<1> QED
  BY <1>4

\* What holds of N, and of every number below it if of the next one.
LEMMA DownFrom ==
  ASSUME NEW N \in Nat, NEW Good, N \in Good, \A n \in 0 .. N - 1 : n + 1 \in Good => n \in Good,
         NEW n \in 0 .. N
  PROVE  n \in Good
<1> DEFINE Missing == { d \in 0 .. N : N - d \notin Good }
<1>1. Missing = {}
  <2> SUFFICES ASSUME Missing # {} PROVE FALSE
    OBVIOUS
  <2>1. PICK d \in Missing : \A y \in Missing : d <= y
    <3>1. Missing \subseteq Nat
      OBVIOUS
    <3> QED
      BY <3>1, LeastOf
  <2>2. d # 0
    BY <2>1
  <2>3. d - 1 \in 0 .. N /\ d - 1 \notin Missing /\ N - (d - 1) = (N - d) + 1 /\ N - d \in 0 .. N - 1
    BY <2>1, <2>2
  <2> QED
    BY <2>1, <2>3
<1> DEFINE d == N - n
<1>2. d \in 0 .. N /\ N - d = n
  OBVIOUS
<1> HIDE DEF d
<1>3. N - d \in Good
  BY <1>1, <1>2
<1> QED
  BY <1>2, <1>3

-----------------------------------------------------------------------------
(* Where strings end.                                                        *)

\* The ends that a string has from each of its offsets on, when it begins at i.
EndOf(e, k) ==
  CASE k >= Size \/ CharAt(k) = "\n" -> Min({k, Size})
    [] k < Size /\ CharAt(k) = Quote -> k + 1
    [] k < Size /\ CharAt(k) = "\\" /\ ~Pair(k, "\\", "\n") -> e[k + 2]
    [] OTHER -> e[k + 1]

Ends(i, e) == \A k \in i + 1 .. Size + 1 : e[k] = EndOf(e, k)

LEMMA EndsAre ==
  ASSUME Size \in Nat, NEW i \in Nat, i < Size
  PROVE  \E e : Ends(i, e) /\ StringEnd(i) = e[i + 1]
<1> DEFINE Body(e, n) == [k \in n .. Size + 1 |->
                            CASE k >= Size \/ CharAt(k) = "\n" -> Min({k, Size})
                              [] k < Size /\ CharAt(k) = Quote -> k + 1
                              [] k < Size /\ CharAt(k) = "\\" /\ ~Pair(k, "\\", "\n") -> e[k + 2]
                              [] OTHER -> e[k + 1]]
           Has(n) == \E e : e = Body(e, n)
           E == CHOOSE e : e = Body(e, i + 1)
           Good == { n \in 0 .. Size + 1 : Has(n) }
<1>1. StringEnd(i) = E[i + 1]
  BY DEF StringEnd
<1>2. Size + 1 \in Good
  <2> DEFINE e == [k \in Size + 1 .. Size + 1 |-> Min({k, Size})]
  <2>1. e = Body(e, Size + 1)
    OBVIOUS
  <2>2. Has(Size + 1)
    BY <2>1, Zenon
  <2>3. Size + 1 \in 0 .. Size + 1
    OBVIOUS
  <2> HIDE DEF Has
  <2> QED
    BY <2>2, <2>3
<1>3. ASSUME NEW n \in 0 .. (Size + 1) - 1, n + 1 \in Good
      PROVE  n \in Good
  <2>1. PICK g : g = Body(g, n + 1)
    BY <1>3
  <2> DEFINE a == EndOf(g, n)
             f == [k \in n .. Size + 1 |-> IF k = n THEN a ELSE g[k]]
  <2>2. ASSUME NEW k \in n .. Size + 1
        PROVE  f[k] = EndOf(f, k)
    <3>1. k < Size => k + 1 \in n + 1 .. Size + 1 /\ k + 2 \in n + 1 .. Size + 1
      OBVIOUS
    <3>2. k < Size => f[k + 1] = g[k + 1] /\ f[k + 2] = g[k + 2]
      <4> HIDE DEF a
      <4> QED
        BY <3>1
    <3>3. EndOf(f, k) = EndOf(g, k)
      <4> HIDE DEF f
      <4> QED
        BY <3>2 DEF EndOf
    <3>4. f[k] = EndOf(g, k)
      <4>1. CASE k = n
        BY <4>1
      <4>2. CASE k # n
        <5>1. k \in n + 1 .. Size + 1
          BY <4>2
        <5>2. Body(g, n + 1)[k] = EndOf(g, k)
          BY <5>1 DEF EndOf
        <5> HIDE DEF Body, a
        <5>3. f[k] = g[k]
          BY <4>2
        <5> QED
          BY <2>1, <5>2, <5>3, Zenon
      <4> QED
        BY <4>1, <4>2
    <3> QED
      BY <3>3, <3>4, Zenon
  <2>3. f = Body(f, n)
    <3>1. f = [k \in n .. Size + 1 |-> f[k]]
      OBVIOUS
    <3> HIDE DEF f
    <3>2. Body(f, n) = [k \in n .. Size + 1 |-> EndOf(f, k)]
      BY DEF EndOf
    <3> HIDE DEF Body
    <3> QED
      BY <2>2, <3>1, <3>2, Zenon
  <2>4. Has(n)
    BY <2>3, Zenon
  <2>5. n \in 0 .. Size + 1
    OBVIOUS
  <2> HIDE DEF Has
  <2> QED
    BY <2>4, <2>5
<1>4. Has(i + 1)
  <2> HIDE DEF Has
  <2>1. Size + 1 \in Nat /\ i + 1 \in 0 .. Size + 1
    OBVIOUS
  <2>2. \A n \in 0 .. (Size + 1) - 1 : n + 1 \in Good => n \in Good
    BY <1>3
  <2> HIDE DEF Good
  <2>3. i + 1 \in Good
    BY <1>2, <2>1, <2>2, DownFrom
  <2> QED
    BY <2>3 DEF Good
<1>5. E = Body(E, i + 1)
  <2> HIDE DEF Body
  <2> QED
    BY <1>4, Zenon
<1>6. Ends(i, E)
  <2> SUFFICES ASSUME NEW k \in i + 1 .. Size + 1 PROVE E[k] = EndOf(E, k)
    BY DEF Ends
  <2> DEFINE G == E
  <2>1. G = Body(G, i + 1)
    BY <1>5
  <2> HIDE DEF G
  <2>2. Body(G, i + 1)[k] = EndOf(G, k)
    BY DEF EndOf
  <2> HIDE DEF Body
  <2>3. G[k] = EndOf(G, k)
    BY <2>1, <2>2, Zenon
  <2> QED
    BY <2>3 DEF G
<1> QED
  BY <1>1, <1>6, Zenon
LEMMA SameEnd ==
  ASSUME file' = file, NEW i
  PROVE  /\ StringEnd(i)' = StringEnd(i)
         /\ \A j : LineContinued(i, j)' = LineContinued(i, j)
<1>1. \A k : Pair(k, "\\", "\n")' = Pair(k, "\\", "\n")
  BY DEF Pair, CharAt, Size
<1>2. StringEnd(i)' = StringEnd(i)
  BY DEF StringEnd, Pair, CharAt, Size
<1> QED
  BY <1>1, <1>2 DEF LineContinued

LEMMA MinOfTwo ==
  ASSUME NEW m \in Int, NEW n \in Int
  PROVE  Min({m, n}) = IF m <= n THEN m ELSE n
<1>1. \E x \in {m, n} : \A y \in {m, n} : x <= y
  OBVIOUS
<1>2. Min({m, n}) \in {m, n} /\ \A y \in {m, n} : Min({m, n}) <= y
  BY <1>1, Zenon DEF Min
<1> QED
  BY <1>2

LEMMA EndCases ==
  ASSUME Size \in Nat, NEW i \in Nat, NEW e, Ends(i, e), NEW k \in i + 1 .. Size + 1
  PROVE  /\ k >= Size => e[k] = Size
         /\ k < Size /\ CharAt(k) = "\n" => e[k] = k
         /\ k < Size /\ CharAt(k) = Quote => e[k] = k + 1
         /\ k < Size /\ CharAt(k) = "\\" /\ ~Pair(k, "\\", "\n") => e[k] = e[k + 2]
         /\ k < Size /\ CharAt(k) \notin {"\n", Quote, "\\"} => e[k] = e[k + 1]
<1>1. e[k] = EndOf(e, k)
  BY DEF Ends
<1>2. Min({k, Size}) = IF k <= Size THEN k ELSE Size
  BY MinOfTwo
<1>3. "\n" # Quote /\ "\n" # "\\" /\ Quote # "\\"
  BY DEF Quote
<1>4. k >= Size \/ CharAt(k) = "\n" => EndOf(e, k) = Min({k, Size})
  BY <1>3 DEF EndOf
<1>5. k < Size /\ CharAt(k) = Quote => EndOf(e, k) = k + 1
  BY <1>3 DEF EndOf
<1>6. k < Size /\ CharAt(k) = "\\" /\ ~Pair(k, "\\", "\n") => EndOf(e, k) = e[k + 2]
  BY <1>3 DEF EndOf
<1>7. k < Size /\ CharAt(k) \notin {"\n", Quote, "\\"} => EndOf(e, k) = e[k + 1]
  BY <1>3 DEF EndOf
<1> QED
  BY <1>1, <1>2, <1>4, <1>5, <1>6, <1>7

\* Neither a digit nor a brace ends a string or begins an escape.
LEMMA InsideEscapes ==
  /\ \A c \in HexDigits : c \notin {"\n", Quote, "\\"}
  /\ OpenBrace \notin {"\n", Quote, "\\"} /\ CloseBrace \notin {"\n", Quote, "\\"}
  /\ OpenBrace # "end" /\ CloseBrace # "end"
<1>1. \A c \in HexDigits : c \notin {"\n", Quote, "\\"}
  BY DEF HexDigits, DecimalDigits, Quote
<1>2. OpenBrace \notin {"\n", Quote, "\\"} /\ CloseBrace \notin {"\n", Quote, "\\"}
  BY Zenon DEF OpenBrace, CloseBrace, Quote
<1>3. OpenBrace # "end" /\ CloseBrace # "end"
  BY Zenon DEF OpenBrace, CloseBrace
<1> QED
  BY <1>1, <1>2, <1>3

\* While a string is read it ends where its rest does, unless a backslash took a
\* newline.
EndAhead == LineContinued(start, at) \/ \A e : Ends(start, e) => e[start + 1] = e[at]

\* A string that has been continued on another line stays so.
LEMMA ContinuedOn ==
  ASSUME NEW i \in Nat, NEW j \in Nat, NEW k \in Nat, j <= k, LineContinued(i, j)
  PROVE  LineContinued(i, k)
<1>1. PICK c \in i .. j - 2 : Pair(c, "\\", "\n")
  BY DEF LineContinued
<1>2. c \in i .. k - 2
  OBVIOUS
<1> QED
  BY <1>1, <1>2 DEF LineContinued

LEMMA EndAheadStep ==
  ASSUME Cursor, Next, mode' \in {"string", "codepoint"},
         mode \in {"string", "codepoint"} => EndAhead
  PROVE  EndAhead'
<1>p. /\ Size \in Nat /\ at \in Nat /\ start \in Nat /\ at <= Size /\ start <= at
      /\ mode \in {"string", "codepoint"} => start < at
  BY DEF Cursor, Consuming
<1>i. /\ \A k \in {0, 1, 2, 3} : Peek(k) # "end" => at + k < Size /\ CharAt(at + k) = Peek(k)
      /\ at < Size => CharAt(at) = Peek(0)
  BY <1>p DEF Peek, CharAt
<1>1. CASE String
  BY <1>1, <1>p DEF String, EndAhead
<1>0. ASSUME LineContinued(start, at), start' = start, file' = file, at' \in Nat, at <= at'
      PROVE  EndAhead'
  <2> PICK a \in Nat : a = at'
    BY <1>0
  <2>1. LineContinued(start, a)
    BY <1>0, <1>p, ContinuedOn
  <2>2. LineContinued(start, at)'
    BY <1>0, <2>1 DEF LineContinued, Pair, CharAt, Size
  <2> QED
    BY <2>2 DEF EndAhead
<1>2. ASSUME mode \in {"string", "codepoint"}, start' = start, file' = file,
             at' \in Nat, at <= at', \A e : Ends(start, e) => e[at] = e[at']
      PROVE  EndAhead'
  <2> SUFFICES ASSUME ~LineContinued(start, at), NEW e, Ends(start, e)'
               PROVE  e[start' + 1] = e[at']
    BY <1>0, <1>2 DEF EndAhead
  <2>1. Ends(start, e)
    BY <1>2 DEF Ends, EndOf, Pair, CharAt, Size
  <2>2. e[start + 1] = e[at]
    BY <1>2, <2>1 DEF EndAhead
  <2>3. e[at] = e[at']
    BY <1>2, <2>1
  <2> QED
    BY <1>2, <2>2, <2>3
<1>3. ASSUME mode \in {"string", "codepoint"}, NEW e, Ends(start, e), NEW k \in at .. Size + 1
      PROVE  /\ k >= Size => e[k] = Size
             /\ k < Size /\ CharAt(k) = "\\" /\ ~Pair(k, "\\", "\n") => e[k] = e[k + 2]
             /\ k < Size /\ CharAt(k) \notin {"\n", Quote, "\\"} => e[k] = e[k + 1]
  <2>1. k \in start + 1 .. Size + 1
    BY <1>3, <1>p
  <2> QED
    BY <1>3, <1>p, <2>1, EndCases
<1>4. CASE InString
  <2>1. mode = "string" /\ start' = start /\ file' = file /\ at' = at + 1 /\ at < Size
        /\ CharAt(at) \notin {"\n", Quote, "\\"}
    BY <1>4, <1>i DEF InString
  <2>2. \A e : Ends(start, e) => e[at] = e[at']
    BY <1>p, <1>3, <2>1
  <2> QED
    BY <1>2, <1>p, <2>1, <2>2
<1>5. CASE Escape
  <2>1. mode = "string" /\ start' = start /\ file' = file /\ at < Size /\ CharAt(at) = "\\"
    <3>1. mode = "string" /\ start' = start /\ file' = file /\ Peek(0) = "\\"
      BY <1>5 DEF Escape
    <3>2. at + 0 = at /\ Peek(0) # "end"
      BY <1>p, <3>1
    <3> QED
      BY <1>i, <3>1, <3>2
  <2>a. at' \in Nat /\ at <= at'
    BY <1>5, <1>p DEF Escape
  <2>n. CASE Pair(at, "\\", "\n")
    <3>1. Peek(1) = "\n" /\ at + 1 < Size
      BY <1>p, <2>n DEF Pair, Peek, CharAt
    <3>2. "\n" \notin SimpleEscapes /\ "\n" # "x" /\ "\n" # "u"
      BY DEF SimpleEscapes
    <3>3. at' = at + 2
      BY <1>5, <1>p, <3>1, <3>2 DEF Escape
    <3>4. at \in start' .. at' - 2 /\ Pair(at, "\\", "\n")
      BY <1>p, <2>1, <2>n, <3>3
    <3>5. LineContinued(start, at)'
      BY <2>1, <3>4 DEF LineContinued, Pair, CharAt, Size
    <3> QED
      BY <3>5 DEF EndAhead
  <2> SUFFICES ASSUME ~Pair(at, "\\", "\n") PROVE EndAhead'
    BY <2>n
  <2>2. ASSUME NEW e, Ends(start, e)
        PROVE  e[at] = e[at']
    <3>0. e[at] = e[at + 2]
      BY <1>p, <1>3, <2>1, <2>2
    <3>1. CASE at + 1 = Size /\ at' = at + 1
      <4>1. e[at + 2] = Size /\ e[at + 1] = Size
        BY <1>p, <1>3, <2>1, <2>2, <3>1
      <4> QED
        BY <3>0, <3>1, <4>1
    <3>2. CASE at' = at + 2
      BY <3>0, <3>2
    <3>3. CASE Peek(2) \in HexDigits /\ Peek(3) \in HexDigits /\ at' = at + 4
      <4>1. /\ at + 2 < Size /\ CharAt(at + 2) \in HexDigits
            /\ at + 3 < Size /\ CharAt(at + 3) \in HexDigits
        BY <1>i, <3>3, CharactersAreNotTheEnd
      <4>2. e[at + 2] = e[(at + 2) + 1] /\ e[at + 3] = e[(at + 3) + 1]
        BY <1>p, <1>3, <2>1, <2>2, <4>1, InsideEscapes
      <4> QED
        BY <1>p, <3>0, <3>3, <4>2
    <3>4. CASE Peek(2) = OpenBrace /\ at' = at + 3
      <4>1. at + 2 < Size /\ CharAt(at + 2) = OpenBrace
        BY <1>i, <3>4, InsideEscapes
      <4>2. e[at + 2] = e[(at + 2) + 1]
        BY <1>p, <1>3, <2>1, <2>2, <4>1, InsideEscapes
      <4> QED
        BY <1>p, <3>0, <3>4, <4>2
    <3> QED
      BY <1>5, <3>1, <3>2, <3>3, <3>4 DEF Escape
  <2> QED
    BY <1>2, <2>1, <2>2, <2>a
<1>6. CASE InCodePoint
  <2>1. mode = "codepoint" /\ start' = start /\ file' = file
    BY <1>6 DEF InCodePoint
  <2>2. \/ at' = at
        \/ at' = at + 1 /\ at < Size /\ CharAt(at) \in HexDigits \cup {CloseBrace}
    BY <1>6, <1>p, <1>i, CharactersAreNotTheEnd, InsideEscapes DEF InCodePoint, Taken
  <2>3. ASSUME NEW e, Ends(start, e)
        PROVE  e[at] = e[at']
    BY <1>p, <1>3, <2>1, <2>2, <2>3, InsideEscapes
  <2> QED
    BY <1>2, <1>p, <2>1, <2>2, <2>3
<1> QED
  BY <1>1, <1>4, <1>5, <1>6
     DEF Next, Space, LineComment, InLineComment, BlockComment, InBlockComment, OpenComment,
         Word, InWord, Number, InRadix, InDigits, InWhole, EnterExponent, InFraction, InExponent,
         EndString, Symbol, CheckLimit, Junk, InJunk, Finish, Ended, vars
\* The tokens of strings, and the one being read.
StringsInv ==
  /\ TokensInv
  /\ mode \in {"string", "codepoint"} => EndAhead
  /\ StringsEndWhereWritten

\* A token of another class says nothing of strings.
LEMMA OtherToken ==
  ASSUME IsSequence(tokens), StringsEndWhereWritten, file' = file,
         NEW class, NEW from, NEW to, NEW value, Push(class, from, to, value),
         class = "string" => LineContinued(from, to) \/ to = StringEnd(from)
  PROVE  StringsEndWhereWritten'
<1> DEFINE t == [class |-> class, begin |-> from, end |-> to, value |-> value]
<1>1. PICK S : tokens \in Seq(S)
  BY DEF IsSequence
<1>2. t.class = class /\ t.begin = from /\ t.end = to
  OBVIOUS
<1>3. tokens' = Append(tokens, t)
  BY DEF Push
<1> HIDE DEF t
<1>4. /\ Len(tokens') = Len(tokens) + 1 /\ Len(tokens) \in Nat
      /\ \A k \in 1 .. Len(tokens) : tokens'[k] = tokens[k]
      /\ tokens'[Len(tokens) + 1] = t
  BY <1>1, <1>3
<1> SUFFICES ASSUME NEW k \in 1 .. Len(tokens'), tokens'[k].class = "string"
             PROVE  (\/ LineContinued(tokens[k].begin, tokens[k].end)
                     \/ tokens[k].end = StringEnd(tokens[k].begin))'
  BY DEF StringsEndWhereWritten
<1>5. \A i : /\ StringEnd(i)' = StringEnd(i)
            /\ \A j : LineContinued(i, j)' = LineContinued(i, j)
  BY SameEnd
<1>6. CASE k \in 1 .. Len(tokens)
  BY <1>4, <1>5, <1>6 DEF StringsEndWhereWritten
<1>7. CASE k = Len(tokens) + 1
  BY <1>2, <1>4, <1>5, <1>7
<1> QED
  BY <1>4, <1>6, <1>7

LEMMA StringsStep ==
  ASSUME StringsInv, Next
  PROVE  StringsInv'
<1>c. TokensInv /\ TokensInv' /\ Cursor
  BY TokensStep DEF StringsInv, TokensInv
<1>e. mode' \in {"string", "codepoint"} => EndAhead'
  BY <1>c, EndAheadStep DEF StringsInv
<1>s. StringsEndWhereWritten'
  <2>k. ASSUME tokens' = tokens, file' = file
        PROVE  StringsEndWhereWritten'
    <3> SUFFICES ASSUME NEW k \in 1 .. Len(tokens'), tokens'[k].class = "string"
                 PROVE  (\/ LineContinued(tokens[k].begin, tokens[k].end)
                         \/ tokens[k].end = StringEnd(tokens[k].begin))'
      BY DEF StringsEndWhereWritten
    <3>1. \A i : /\ StringEnd(i)' = StringEnd(i)
                /\ \A j : LineContinued(i, j)' = LineContinued(i, j)
      BY <2>k, SameEnd
    <3> QED
      BY <2>k, <3>1 DEF StringsInv, StringsEndWhereWritten
  <2>m. ASSUME mode # "done", file' = file, NEW class, NEW from, NEW to, NEW value,
               Push(class, from, to, value),
               class = "string" => LineContinued(from, to) \/ to = StringEnd(from)
        PROVE  StringsEndWhereWritten'
    <3>1. IsSequence(tokens)
      BY <2>m, <1>c DEF TokensInv, Ordered
    <3> QED
      BY <2>m, <3>1, OtherToken DEF StringsInv
  <2>1. CASE tokens' = tokens /\ file' = file
    BY <2>1, <2>k
  <2>2. CASE InWord
    <3> DEFINE class == IF Spelling(start, at) \in Keywords THEN "keyword" ELSE "identifier"
    <3>1. class # "string"
      OBVIOUS
    <3>2. mode = "word" /\ file' = file /\ (tokens' = tokens \/ Push(class, start, at, 0))
      BY <2>2 DEF InWord
    <3> HIDE DEF class
    <3> QED
      BY <2>k, <2>m, <3>1, <3>2
  <2>3. ASSUME NEW base, PushInteger(base), file' = file, mode # "done"
        PROVE  StringsEndWhereWritten'
    BY <2>3, <2>m DEF PushInteger
  <2>4. CASE InRadix
    <3>1. mode = "radix" /\ file' = file
      BY <2>4 DEF InRadix
    <3>2. NoToken \/ Push("int", start, at, 0) \/ PushInteger(Base(file[start + 2]))
      BY <2>4 DEF InRadix
    <3> QED
      BY <2>k, <2>m, <2>3, <3>1, <3>2 DEF NoToken
  <2>5. CASE InWhole
    <3>1. mode = "whole" /\ file' = file /\ (NoToken \/ PushInteger(10))
      BY <2>5 DEF InWhole
    <3> QED
      BY <2>k, <2>3, <3>1 DEF NoToken
  <2>6. CASE InFraction
    <3>1. mode = "fraction" /\ file' = file /\ (NoToken \/ Push("float", start, at, 0))
      BY <2>6 DEF InFraction
    <3> QED
      BY <2>k, <2>m, <3>1 DEF NoToken
  <2>7. CASE InExponent
    <3>1. mode = "exponent" /\ file' = file /\ (tokens' = tokens \/ Push("float", start, at, 0))
      BY <2>7 DEF InExponent
    <3> QED
      BY <2>k, <2>m, <3>1
  <2>8. CASE EndString
    <3>1. mode = "string" /\ file' = file /\ Push("string", start, at', 0)
      BY <2>8 DEF EndString
    <3>2. /\ Size \in Nat /\ at \in Nat /\ start \in Nat /\ at <= Size /\ start < at
          /\ start < Size /\ EndAhead
      BY <1>c, <3>1 DEF StringsInv, Cursor, Consuming
    <3>c. CASE LineContinued(start, at)
      <4> PICK a \in Nat : a = at' /\ at <= a
        BY <2>8, <3>2 DEF EndString
      <4>1. LineContinued(start, a)
        BY <3>2, <3>c, ContinuedOn
      <4> QED
        BY <2>m, <3>1, <4>1
    <3> SUFFICES ASSUME ~LineContinued(start, at) PROVE StringsEndWhereWritten'
      BY <3>c
    <3>3. PICK e : Ends(start, e) /\ StringEnd(start) = e[start + 1]
      BY <3>2, EndsAre
    <3>4. StringEnd(start) = e[at]
      BY <3>2, <3>3 DEF EndAhead
    <3>5. at \in start + 1 .. Size + 1
      BY <3>2
    <3>6. e[at] = at'
      <4>1. at < Size => CharAt(at) = Peek(0)
        BY <3>2 DEF Peek, CharAt
      <4>2. ~(at < Size) => at = Size /\ Peek(0) = "end"
        BY <3>2 DEF Peek
      <4>3. (at = Size \/ Peek(0) \in {Quote, "\n"}) /\ at' = IF Peek(0) = Quote THEN at + 1 ELSE at
        BY <2>8 DEF EndString
      <4>4. Quote # "end" /\ Quote # "\n"
        BY DEF Quote
      <4>5. CASE at = Size
        BY <3>2, <3>3, <3>5, <4>2, <4>3, <4>4, <4>5, EndCases
      <4>6. CASE at # Size
        BY <3>2, <3>3, <3>5, <4>1, <4>3, <4>4, <4>6, EndCases
      <4> QED
        BY <4>5, <4>6
    <3> QED
      BY <2>m, <3>1, <3>4, <3>6
  <2>9. CASE Symbol
    <3>1. mode = "token" /\ file' = file /\ (NoToken \/ Push("symbol", at, at', 0))
      BY <2>9 DEF Symbol
    <3> QED
      BY <2>k, <2>m, <3>1 DEF NoToken
  <2>10. CASE Finish
    <3>1. mode # "done" /\ file' = file /\ Push("eof", Size, Size, 0)
      BY <2>10 DEF Finish
    <3> QED
      BY <2>m, <3>1
  <2> QED
    BY <2>1, <2>2, <2>4, <2>5, <2>6, <2>7, <2>8, <2>9, <2>10
       DEF Next, Space, LineComment, InLineComment, BlockComment, InBlockComment, OpenComment,
           Word, Number, String, InString, Escape, InCodePoint, Junk, InJunk, Ended, vars
<1> QED
  BY <1>c, <1>e, <1>s DEF StringsInv

\* For every text: each string in which no backslash takes a newline ends at the first
\* quote that no backslash takes, or where the line or the text does, whatever is wrong
\* with the escapes in it. (lex_string, lex_escape)
THEOREM LexerStringsEnd == Spec => []StringsEndWhereWritten
<1>1. Init => StringsInv
  <2> SUFFICES ASSUME Init PROVE StringsInv
    OBVIOUS
  <2>1. Len(tokens) = 0 /\ mode = "token"
    BY DEF Init
  <2> QED
    BY <2>1, TokensStart DEF StringsInv, StringsEndWhereWritten
<1>2. StringsInv /\ [Next]_vars => StringsInv'
  <2> SUFFICES ASSUME StringsInv, UNCHANGED vars PROVE StringsInv'
    BY StringsStep
  <2>1. TokensInv'
    BY TokensStutter DEF StringsInv
  <2>2. EndAhead => EndAhead'
    <3>1. file' = file /\ start' = start /\ at' = at
      BY DEF vars
    <3>2. LineContinued(start, at)' = LineContinued(start, at)
      BY <3>1 DEF LineContinued, Pair, CharAt, Size
    <3>3. \A e : Ends(start, e)' = Ends(start, e)
      BY <3>1 DEF Ends, EndOf, Pair, CharAt, Size
    <3> QED
      BY <3>1, <3>2, <3>3 DEF EndAhead
  <2>3. StringsEndWhereWritten'
    <3>1. file' = file /\ tokens' = tokens
      BY DEF vars
    <3>2. \A i : /\ StringEnd(i)' = StringEnd(i)
                /\ \A j : LineContinued(i, j)' = LineContinued(i, j)
      BY <3>1, SameEnd
    <3> QED
      BY <3>1, <3>2 DEF StringsInv, StringsEndWhereWritten
  <2> QED
    BY <2>1, <2>2, <2>3 DEF StringsInv, vars
<1>3. StringsInv => StringsEndWhereWritten
  BY DEF StringsInv
<1> QED
  BY <1>1, <1>2, <1>3, PTL DEF Spec
-----------------------------------------------------------------------------
(* Where comments end.                                                       *)

\* The end of the comment that is open before an offset, 0 when it has none.
ClosedFrom(c, k) ==
  IF k = Size THEN 0
  ELSE IF Pair(k, "*", "/") THEN k + 2
  ELSE IF Pair(k, "/", "*") THEN IF c[k + 2] = 0 THEN 0 ELSE c[c[k + 2]]
  ELSE c[k + 1]

Closes(c) == \A k \in 0 .. Size : c[k] = ClosedFrom(c, k)

LEMMA ClosesIs ==
  ASSUME Size \in Nat, NEW i \in Nat, Pair(i, "/", "*")
  PROVE  \E c : Closes(c) /\ BlockEnd(i) = c[i + 2]
<1> DEFINE Body(c) == [k \in 0 .. Size |->
                        IF k = Size THEN 0
                        ELSE IF Pair(k, "*", "/") THEN k + 2
                        ELSE IF Pair(k, "/", "*") THEN IF c[k + 2] = 0 THEN 0 ELSE c[c[k + 2]]
                        ELSE c[k + 1]]
           C == CHOOSE c : c = Body(c)
           Ahead(k) == {0} \cup (k + 1 .. Size)
           Solves(c, n) == \A k \in n .. Size : c[k] = ClosedFrom(c, k) /\ c[k] \in Ahead(k)
           Has(n) == \E c : Solves(c, n)
           Good == { n \in 0 .. Size : Has(n) }
<1>0. \A k, a, b : Pair(k, a, b) => k + 1 < Size
  BY DEF Pair
<1>1. BlockEnd(i) = C[i + 2]
  BY DEF BlockEnd
<1>2. Size \in Good
  <2> DEFINE c == [k \in 0 .. Size |-> 0]
  <2>1. Solves(c, Size)
    BY DEF ClosedFrom
  <2>2. Has(Size)
    BY <2>1, Zenon
  <2> HIDE DEF Has
  <2> QED
    BY <2>2
<1>3. ASSUME NEW n \in 0 .. Size - 1, n + 1 \in Good
      PROVE  n \in Good
  <2>1. PICK g : Solves(g, n + 1)
    BY <1>3
  <2> DEFINE a == ClosedFrom(g, n)
             f == [k \in 0 .. Size |-> IF k = n THEN a ELSE g[k]]
  <2>2. \A k \in n + 1 .. Size : g[k] = ClosedFrom(g, k) /\ g[k] \in Ahead(k)
    BY <2>1
  <2>3. a \in Ahead(n)
    <3>1. n + 1 \in n + 1 .. Size /\ g[n + 1] \in Ahead(n + 1)
      BY <2>2
    <3>2. CASE Pair(n, "*", "/")
      BY <1>0, <3>2 DEF ClosedFrom
    <3>3. CASE ~Pair(n, "*", "/") /\ Pair(n, "/", "*")
      <4>1. n + 1 < Size
        BY <1>0, <3>3
      <4>2. n + 2 \in n + 1 .. Size
        BY <4>1
      <4>3. g[n + 2] \in Ahead(n + 2)
        BY <2>2, <4>2
      <4>4. CASE g[n + 2] = 0
        BY <3>3, <4>4 DEF ClosedFrom
      <4>5. CASE g[n + 2] # 0
        <5> DEFINE d == g[n + 2]
        <5>1. d \in n + 1 .. Size
          BY <4>3, <4>5
        <5>2. g[d] \in Ahead(d)
          BY <2>2, <5>1
        <5>3. a = g[d]
          BY <3>3, <4>5 DEF ClosedFrom
        <5> HIDE DEF d, a
        <5> QED
          BY <5>1, <5>2, <5>3
      <4> QED
        BY <4>4, <4>5
    <3>4. CASE ~Pair(n, "*", "/") /\ ~Pair(n, "/", "*")
      <4>1. a = g[n + 1]
        BY <3>4 DEF ClosedFrom
      <4> HIDE DEF a
      <4> QED
        BY <3>1, <4>1
    <3> QED
      BY <3>2, <3>3, <3>4
  <2> HIDE DEF a
  <2>4. \A k \in n + 1 .. Size : f[k] = g[k]
    OBVIOUS
  <2>5. f[n] = a
    OBVIOUS
  <2> HIDE DEF f
  <2>6. ASSUME NEW k \in n .. Size
        PROVE  ClosedFrom(f, k) = ClosedFrom(g, k)
    <3>1. k # Size => f[k + 1] = g[k + 1]
      BY <2>4
    <3>2. ASSUME Pair(k, "/", "*")
          PROVE  f[k + 2] = g[k + 2] /\ (g[k + 2] # 0 => f[g[k + 2]] = g[g[k + 2]])
      <4>1. k + 1 < Size
        BY <1>0, <3>2
      <4>2. k + 2 \in n + 1 .. Size
        BY <4>1
      <4>3. f[k + 2] = g[k + 2] /\ g[k + 2] \in Ahead(k + 2)
        BY <2>2, <2>4, <4>2
      <4>4. g[k + 2] # 0 => g[k + 2] \in n + 1 .. Size
        BY <4>3
      <4> QED
        BY <2>4, <4>3, <4>4
    <3> QED
      BY <3>1, <3>2 DEF ClosedFrom
  <2>7. ASSUME NEW k \in n .. Size
        PROVE  f[k] = ClosedFrom(f, k) /\ f[k] \in Ahead(k)
    <3>1. CASE k = n
      <4>1. f[n] = ClosedFrom(g, n)
        BY <2>5 DEF a
      <4> QED
        BY <2>3, <2>5, <2>6, <3>1, <4>1
    <3>2. CASE k # n
      <4>1. k \in n + 1 .. Size
        BY <3>2
      <4> HIDE DEF Ahead
      <4> QED
        BY <2>2, <2>4, <2>6, <4>1
    <3> QED
      BY <3>1, <3>2
  <2>8. Solves(f, n)
    BY <2>7
  <2>9. Has(n)
    BY <2>8, Zenon
  <2>10. n \in 0 .. Size
    OBVIOUS
  <2> HIDE DEF Has
  <2> QED
    BY <2>9, <2>10
<1>4. PICK g : Solves(g, 0)
  <2> HIDE DEF Has
  <2>1. \A n \in 0 .. Size - 1 : n + 1 \in Good => n \in Good
    BY <1>3
  <2>2. 0 \in 0 .. Size
    OBVIOUS
  <2> HIDE DEF Good
  <2>3. 0 \in Good
    BY <1>2, <2>1, <2>2, DownFrom
  <2>4. Has(0)
    BY <2>3 DEF Good
  <2> QED
    BY <2>4 DEF Has
<1>5. \E c : c = Body(c)
  <2> DEFINE h == [k \in 0 .. Size |-> g[k]]
  <2>1. \A k \in 0 .. Size : g[k] = ClosedFrom(g, k) /\ g[k] \in Ahead(k)
    BY <1>4
  <2>2. ASSUME NEW k \in 0 .. Size
        PROVE  ClosedFrom(h, k) = ClosedFrom(g, k)
    <3>1. k # Size => h[k + 1] = g[k + 1]
      OBVIOUS
    <3>2. ASSUME Pair(k, "/", "*")
          PROVE  h[k + 2] = g[k + 2] /\ (g[k + 2] # 0 => h[g[k + 2]] = g[g[k + 2]])
      <4>1. k + 1 < Size
        BY <1>0, <3>2
      <4>2. k + 2 \in 0 .. Size /\ g[k + 2] \in Ahead(k + 2)
        BY <2>1, <4>1
      <4>3. g[k + 2] # 0 => g[k + 2] \in 0 .. Size
        BY <4>2
      <4> QED
        BY <4>2, <4>3
    <3> HIDE DEF h
    <3> QED
      BY <3>1, <3>2 DEF ClosedFrom
  <2>3. \A k \in 0 .. Size : h[k] = g[k]
    OBVIOUS
  <2>4. h = [k \in 0 .. Size |-> ClosedFrom(h, k)]
    <3>1. h = [k \in 0 .. Size |-> h[k]]
      OBVIOUS
    <3> HIDE DEF h
    <3> QED
      BY <2>1, <2>2, <2>3, <3>1, Zenon
  <2> HIDE DEF h
  <2>5. Body(h) = [k \in 0 .. Size |-> ClosedFrom(h, k)]
    BY DEF ClosedFrom
  <2> HIDE DEF Body
  <2> QED
    BY <2>4, <2>5, Zenon
<1>6. C = Body(C)
  <2> HIDE DEF Body
  <2> QED
    BY <1>5, Zenon
<1>7. Closes(C)
  <2> SUFFICES ASSUME NEW k \in 0 .. Size PROVE C[k] = ClosedFrom(C, k)
    BY DEF Closes
  <2> DEFINE G == C
  <2>1. G = Body(G)
    BY <1>6
  <2> HIDE DEF G
  <2>2. Body(G)[k] = ClosedFrom(G, k)
    BY DEF ClosedFrom
  <2> HIDE DEF Body
  <2>3. G[k] = ClosedFrom(G, k)
    BY <2>1, <2>2, Zenon
  <2> QED
    BY <2>3 DEF G
<1> QED
  BY <1>1, <1>7, Zenon

LEMMA SameComment ==
  ASSUME file' = file
  PROVE  \A b, e : Comment(b, e)' <=> Comment(b, e)
<1>1. \A k, a, b : Pair(k, a, b)' <=> Pair(k, a, b)
  BY DEF Pair, CharAt, Size
<1>2. \A i : BlockEnd(i)' = BlockEnd(i)
  BY DEF BlockEnd, Pair, CharAt, Size
<1>3. \A i, j : LineNote(i, j)' <=> LineNote(i, j)
  BY DEF LineNote, Pair, CharAt, Size
<1> QED
  BY <1>2, <1>3 DEF Comment
-----------------------------------------------------------------------------
(* What is left out of the tokens.                                           *)

\* A character that is not dropped in silence, by what was read before a bound.
Accounted(i, bound) ==
  \/ CharAt(i) \in Spaces
  \/ \E k \in 1 .. Len(tokens) : tokens[k].begin <= i /\ i < tokens[k].end
  \/ \E k \in 1 .. Len(errors) :
       /\ errors[k].begin <= i
       /\ i < errors[k].end \/ errors[k].code = "E0004"
  \/ \E b \in 0 .. i : \E e \in i + 1 .. bound :
       /\ Comment(b, e)
       /\ \A k \in 1 .. Len(tokens) : tokens[k].end <= b \/ e <= tokens[k].begin

AllBefore(n) == \A i \in 0 .. n - 1 : Accounted(i, n)

TokensEndBefore(n) == \A k \in 1 .. Len(tokens) : tokens[k].end <= n

\* A line comment that begins at b is being read.
Noting(b) ==
  /\ AllBefore(b) /\ TokensEndBefore(b)
  /\ Pair(b, "/", "/")
  /\ \A k \in b .. at - 1 : CharAt(k) # "\n"

\* Of the comments that are open, f[j] is where the one ends that has j more in it.
Nested(c, f) ==
  /\ f[0] = c[at]
  /\ \A j \in 1 .. depth - 1 : f[j] = IF f[j - 1] = 0 THEN 0 ELSE c[f[j - 1]]
  /\ f[depth - 1] = c[start + 2]

\* Block comments are being read, and the outermost begins at start.
Commenting ==
  /\ AllBefore(start) /\ TokensEndBefore(start)
  /\ Pair(start, "/", "*") /\ start + 2 <= at
  /\ depth \in Nat \ {0}
  /\ \A c : Closes(c) => \E f : Nested(c, f)

ReadSoFar ==
  /\ mode = "token" => AllBefore(at)
  /\ mode \in Consuming => AllBefore(start)
  /\ mode = "line" => \E b \in 0 .. at : Noting(b)
  /\ mode = "block" => Commenting

DropInv == TokensInv /\ IsSequence(errors) /\ ReadSoFar

\* A sequence that is only appended to.
Grows(s, t) ==
  /\ Len(s) \in Nat /\ Len(t) \in Nat /\ Len(s) <= Len(t)
  /\ \A k \in 1 .. Len(s) : t[k] = s[k]

\* A step takes nothing away, and the tokens that it makes begin at or after n.
Keeps(n) ==
  /\ file' = file /\ Grows(tokens, tokens') /\ Grows(errors, errors')
  /\ \A k \in Len(tokens) + 1 .. Len(tokens') : tokens'[k].begin \in Nat /\ n <= tokens'[k].begin

LEMMA AccountedKept ==
  ASSUME NEW n \in Nat, NEW m \in Nat, n <= m, Keeps(n), NEW i \in Nat, Accounted(i, n)
  PROVE  Accounted(i, m)'
<1>1. /\ Len(tokens) \in Nat /\ Len(tokens') \in Nat /\ Len(tokens) <= Len(tokens')
      /\ \A k \in 1 .. Len(tokens) : tokens'[k] = tokens[k]
      /\ \A k \in Len(tokens) + 1 .. Len(tokens') :
           tokens'[k].begin \in Nat /\ n <= tokens'[k].begin
      /\ \A k \in 1 .. Len(tokens') : k \in 1 .. Len(tokens) \/ k \in Len(tokens) + 1 .. Len(tokens')
  BY DEF Keeps, Grows
<1>2. /\ Len(errors) \in Nat /\ Len(errors') \in Nat /\ Len(errors) <= Len(errors')
      /\ \A k \in 1 .. Len(errors) : errors'[k] = errors[k] /\ k \in 1 .. Len(errors')
  BY DEF Keeps, Grows
<1>3. \A k : CharAt(k)' = CharAt(k)
  BY DEF Keeps, CharAt
<1>4. \A b, e : Comment(b, e)' <=> Comment(b, e)
  BY SameComment DEF Keeps
<1>5. CASE CharAt(i) \in Spaces
  BY <1>3, <1>5 DEF Accounted
<1>6. CASE \E k \in 1 .. Len(tokens) : tokens[k].begin <= i /\ i < tokens[k].end
  BY <1>1, <1>6 DEF Accounted
<1>7. CASE \E k \in 1 .. Len(errors) :
             /\ errors[k].begin <= i
             /\ i < errors[k].end \/ errors[k].code = "E0004"
  BY <1>2, <1>7 DEF Accounted
<1>8. ASSUME NEW b \in 0 .. i, NEW e \in i + 1 .. n, Comment(b, e),
             \A k \in 1 .. Len(tokens) : tokens[k].end <= b \/ e <= tokens[k].begin
      PROVE  Accounted(i, m)'
  <2>1. e \in i + 1 .. m /\ Comment(b, e)'
    BY <1>4, <1>8
  <2>2. ASSUME NEW k \in 1 .. Len(tokens')
        PROVE  tokens'[k].end <= b \/ e <= tokens'[k].begin
    <3>1. CASE k \in 1 .. Len(tokens)
      BY <1>1, <1>8, <3>1
    <3>2. CASE k \in Len(tokens) + 1 .. Len(tokens')
      <4>1. tokens'[k].begin \in Nat /\ n <= tokens'[k].begin
        BY <1>1, <3>2
      <4> QED
        BY <4>1, <1>8
    <3> QED
      BY <1>1, <3>1, <3>2
  <2> QED
    BY <2>1, <2>2 DEF Accounted
<1> QED
  BY <1>5, <1>6, <1>7, <1>8 DEF Accounted
\* What was accounted for stays so, and with what the step reads so is all.
LEMMA ReadOn ==
  ASSUME NEW n \in Nat, NEW m \in Nat, n <= m, Keeps(n), AllBefore(n),
         \A i \in n .. m - 1 : Accounted(i, m)'
  PROVE  AllBefore(m)'
<1> SUFFICES ASSUME NEW i \in 0 .. m - 1 PROVE Accounted(i, m)'
  BY DEF AllBefore
<1>1. CASE i \in 0 .. n - 1
  BY <1>1, AccountedKept DEF AllBefore
<1>2. CASE i \in n .. m - 1
  BY <1>2
<1> QED
  BY <1>1, <1>2

\* The bound may be where the lexer is, or the token's begin, after the step.
LEMMA BoundIs ==
  ASSUME NEW m, AllBefore(m)'
  PROVE  /\ m = at' => AllBefore(at)'
         /\ m = start' => AllBefore(start)'
  BY DEF AllBefore, Accounted

LEMMA Appended ==
  ASSUME NEW s, IsSequence(s), NEW x
  PROVE  /\ IsSequence(Append(s, x)) /\ Grows(s, Append(s, x))
         /\ Len(Append(s, x)) = Len(s) + 1 /\ Append(s, x)[Len(s) + 1] = x
<1>1. PICK S : s \in Seq(S)
  BY DEF IsSequence
<1>2. Append(s, x) \in Seq(S \cup {x})
  BY <1>1
<1>3. /\ Len(Append(s, x)) = Len(s) + 1 /\ Len(s) \in Nat
      /\ \A k \in 1 .. Len(s) : Append(s, x)[k] = s[k]
      /\ Append(s, x)[Len(s) + 1] = x
  BY <1>1
<1> QED
  BY <1>2, <1>3 DEF IsSequence, Grows

LEMMA Unappended ==
  ASSUME NEW s, IsSequence(s)
  PROVE  Grows(s, s)
  BY DEF IsSequence, Grows

LEMMA KeepsBy ==
  ASSUME IsSequence(tokens), IsSequence(errors), file' = file, NEW n,
         errors' = errors \/ \E e : errors' = Append(errors, e),
         tokens' = tokens \/ \E t : tokens' = Append(tokens, t) /\ t.begin \in Nat /\ n <= t.begin
  PROVE  Keeps(n) /\ IsSequence(errors')
<1>1. Grows(errors, errors') /\ IsSequence(errors')
  <2>1. CASE errors' = errors
    BY <2>1, Unappended
  <2>2. ASSUME NEW e, errors' = Append(errors, e)
        PROVE  Grows(errors, errors') /\ IsSequence(errors')
    BY <2>2, Appended
  <2> QED
    BY <2>1, <2>2
<1>2. CASE tokens' = tokens
  <2>1. Grows(tokens, tokens')
    BY <1>2, Unappended
  <2>2. Len(tokens) + 1 .. Len(tokens') = {}
    BY <1>2, <2>1 DEF Grows
  <2> QED
    BY <1>1, <2>1, <2>2 DEF Keeps
<1>3. ASSUME NEW t, tokens' = Append(tokens, t), t.begin \in Nat, n <= t.begin
      PROVE  Keeps(n)
  <2>1. /\ Grows(tokens, tokens')
        /\ Len(tokens') = Len(tokens) + 1 /\ tokens'[Len(tokens) + 1] = t
    BY <1>3, Appended
  <2>2. Len(tokens) + 1 .. Len(tokens') = {Len(tokens) + 1}
    BY <2>1 DEF Grows
  <2> QED
    BY <1>1, <1>3, <2>1, <2>2 DEF Keeps
<1> QED
  BY <1>1, <1>2, <1>3

\* What a token or an error spans is accounted for.
LEMMA TokenMade ==
  ASSUME IsSequence(tokens), NEW class, NEW from, NEW to, NEW value, Push(class, from, to, value),
         NEW m, NEW i, from <= i, i < to
  PROVE  Accounted(i, m)'
<1> DEFINE t == [class |-> class, begin |-> from, end |-> to, value |-> value]
<1>1. t.begin = from /\ t.end = to
  OBVIOUS
<1>2. tokens' = Append(tokens, t)
  BY DEF Push
<1> HIDE DEF t
<1>3. Len(tokens) \in Nat /\ Len(tokens') = Len(tokens) + 1 /\ tokens'[Len(tokens) + 1] = t
  BY <1>2, Appended DEF Grows
<1>4. Len(tokens) + 1 \in 1 .. Len(tokens')
  BY <1>3
<1> QED
  BY <1>1, <1>3, <1>4 DEF Accounted

LEMMA ErrorMade ==
  ASSUME IsSequence(errors), NEW code, NEW from, NEW to, Report(code, from, to),
         NEW m, NEW i, from <= i, i < to \/ code = "E0004"
  PROVE  Accounted(i, m)'
<1> DEFINE e == [code |-> code, begin |-> from, end |-> to]
<1>1. e.begin = from /\ e.end = to /\ e.code = code
  OBVIOUS
<1>2. errors' = Append(errors, e)
  BY DEF Report
<1> HIDE DEF e
<1>3. Len(errors) \in Nat /\ Len(errors') = Len(errors) + 1 /\ errors'[Len(errors) + 1] = e
  BY <1>2, Appended DEF Grows
<1>4. Len(errors) + 1 \in 1 .. Len(errors')
  BY <1>3
<1> QED
  BY <1>1, <1>3, <1>4 DEF Accounted

\* So is what a comment spans, when no token is in it.
LEMMA CommentRead ==
  ASSUME NEW b \in Nat, NEW m \in Nat, Comment(b, m), file' = file, tokens' = tokens,
         TokensEndBefore(b), NEW i \in b .. m - 1
  PROVE  Accounted(i, m)'
<1>1. Comment(b, m)'
  BY SameComment
<1>2. b \in 0 .. i /\ m \in i + 1 .. m
  OBVIOUS
<1> QED
  BY <1>1, <1>2 DEF Accounted, TokensEndBefore
\* A turn in block comments: the end of the outermost stays where it is, and it is
\* here when no other is open.
LEMMA CommentsNest ==
  ASSUME Cursor, Commenting, InBlockComment, NEW c, Closes(c)
  PROVE  /\ depth' \in Nat
         /\ depth' # 0 => \E f : Nested(c, f)'
         /\ depth' = 0 => c[start + 2] = at'
<1>1. /\ Size \in Nat /\ at \in 0 .. Size /\ at < Size /\ start \in Nat /\ depth \in Nat \ {0}
      /\ start' = start /\ file' = file
  BY DEF Cursor, Commenting, InBlockComment
<1>2. PICK f : Nested(c, f)
  BY DEF Commenting
<1>3. /\ f[0] = c[at]
      /\ \A j \in 1 .. depth - 1 : f[j] = IF f[j - 1] = 0 THEN 0 ELSE c[f[j - 1]]
      /\ f[depth - 1] = c[start + 2]
  BY <1>2 DEF Nested
<1>4. c[at] = ClosedFrom(c, at)
  BY <1>1 DEF Closes
<1>5. ASSUME NEW a \in {"/", "*"}, NEW b \in {"/", "*"}
      PROVE  Pair(at, a, b) <=> (Peek(0) = a /\ Peek(1) = b)
  BY <1>1 DEF Pair, Peek, CharAt
<1>6. CASE Peek(0) = "*" /\ Peek(1) = "/" /\ at' = at + 2 /\ depth' = depth - 1
  <2>1. c[at] = at + 2
    BY <1>1, <1>4, <1>5, <1>6 DEF ClosedFrom
  <2>2. CASE depth = 1
    BY <1>1, <1>3, <1>6, <2>1, <2>2
  <2>3. CASE depth # 1
    <3>0. PICK g : g = [j \in 0 .. depth - 2 |-> f[j + 1]]
      OBVIOUS
    <3>1. g[0] = c[at']
      <4>1. 0 \in 0 .. depth - 2 /\ 1 \in 1 .. depth - 1 /\ at + 2 # 0
        BY <1>1, <2>3
      <4>2. g[0] = f[1]
        BY <3>0, <4>1
      <4>3. f[1] = c[f[0]]
        BY <1>3, <2>1, <4>1
      <4> QED
        BY <1>3, <1>6, <2>1, <4>1, <4>2, <4>3
    <3>2. ASSUME NEW j \in 1 .. depth' - 1
          PROVE  g[j] = IF g[j - 1] = 0 THEN 0 ELSE c[g[j - 1]]
      <4>1. /\ j + 1 \in 1 .. depth - 1 /\ (j + 1) - 1 = j /\ (j - 1) + 1 = j
            /\ j \in 0 .. depth - 2 /\ j - 1 \in 0 .. depth - 2
        BY <1>1, <1>6
      <4>2. g[j] = f[j + 1] /\ g[j - 1] = f[j]
        BY <3>0, <4>1
      <4>3. f[j + 1] = IF f[j] = 0 THEN 0 ELSE c[f[j]]
        BY <1>3, <4>1
      <4> QED
        BY <4>2, <4>3
    <3>3. g[depth' - 1] = c[start' + 2]
      BY <1>1, <1>3, <1>6, <2>3, <3>0
    <3>4. Nested(c, g)'
      BY <3>1, <3>2, <3>3 DEF Nested
    <3> QED
      BY <1>1, <1>6, <2>3, <3>4
  <2> QED
    BY <2>2, <2>3
<1>7. CASE Peek(0) = "/" /\ Peek(1) = "*" /\ at' = at + 2 /\ depth' = depth + 1
  <2>1. c[at] = IF c[at + 2] = 0 THEN 0 ELSE c[c[at + 2]]
    BY <1>1, <1>4, <1>5, <1>7 DEF ClosedFrom
  <2>0. PICK g : g = [j \in 0 .. depth |-> IF j = 0 THEN c[at + 2] ELSE f[j - 1]]
    OBVIOUS
  <2>2. g[0] = c[at']
    BY <1>1, <1>7, <2>0
  <2>3. ASSUME NEW j \in 1 .. depth' - 1
        PROVE  g[j] = IF g[j - 1] = 0 THEN 0 ELSE c[g[j - 1]]
    <3>1. j \in 1 .. depth /\ j - 1 \in 0 .. depth /\ g[j] = f[j - 1]
      BY <1>1, <1>7, <2>0
    <3>2. CASE j = 1
      <4>1. g[0] = c[at + 2] /\ g[1] = f[0]
        BY <1>1, <2>0, <3>1, <3>2
      <4> QED
        BY <1>3, <2>1, <3>2, <4>1
    <3>3. CASE j # 1
      <4>1. j - 1 \in 1 .. depth - 1 /\ g[j - 1] = f[(j - 1) - 1]
        BY <1>1, <2>0, <3>1, <3>3
      <4> QED
        BY <1>3, <3>1, <4>1
    <3> QED
      BY <3>2, <3>3
  <2>4. g[depth' - 1] = c[start' + 2]
    BY <1>1, <1>3, <1>7, <2>0
  <2>5. Nested(c, g)'
    BY <2>2, <2>3, <2>4 DEF Nested
  <2> QED
    BY <1>1, <1>7, <2>5
<1>8. CASE /\ <<Peek(0), Peek(1)>> \notin {<<"/", "*">>, <<"*", "/">>}
           /\ at' = at + 1 /\ depth' = depth
  <2>1. c[at] = c[at + 1]
    BY <1>1, <1>4, <1>5, <1>8 DEF ClosedFrom
  <2>2. Nested(c, f)'
    BY <1>1, <1>3, <1>8, <2>1 DEF Nested
  <2> QED
    BY <1>1, <1>8, <2>2
<1> QED
  BY <1>6, <1>7, <1>8 DEF InBlockComment
\* An action takes in one more character that may be left out, begins or goes on with
\* what is made into a token, an error or a comment, or makes it.
LEMMA DropStep ==
  ASSUME DropInv, Next
  PROVE  DropInv'
<1>p. /\ Size \in Nat /\ at \in Nat /\ start \in Nat /\ at <= Size /\ start <= at
      /\ IsSequence(errors) /\ ReadSoFar /\ Cursor
      /\ mode # "done" => IsSequence(tokens)
  BY DEF DropInv, TokensInv, Cursor, Ordered
<1>t. TokensInv' /\ Cursor'
  BY TokensStep DEF DropInv, TokensInv
<1>q. at' \in Nat /\ start' \in Nat /\ start' <= at' /\ at' <= Size'
  BY <1>t DEF Cursor
<1>i. /\ \A k \in {0, 1} : Peek(k) # "end" => at + k < Size /\ CharAt(at + k) = Peek(k)
      /\ at < Size => CharAt(at) = Peek(0)
  BY <1>p DEF Peek, CharAt
<1>e. mode = "token" => TokensEndBefore(at)
  <2> SUFFICES ASSUME mode = "token", NEW k \in 1 .. Len(tokens) PROVE tokens[k].end <= at
    BY DEF TokensEndBefore
  <2>1. Ordered(tokens, at)
    BY DEF DropInv, TokensInv, Behind, Consuming
  <2> QED
    BY <2>1 DEF Ordered
<1>m. PICK m \in Nat : m = at'
  BY <1>q
<1>s. PICK n \in Nat : n = start
  BY <1>p
\* Everything up to here is accounted for, and the lexer is between tokens.
<1>a. ASSUME mode' = "token", AllBefore(m)', IsSequence(errors')
      PROVE  DropInv'
  <2>1. AllBefore(at)'
    BY <1>a, <1>m, BoundIs
  <2> QED
    BY <1>a, <1>t, <2>1 DEF DropInv, ReadSoFar, Consuming
\* A token begins, or goes on.
<1>b. ASSUME mode = "token", mode' \in Consuming, start' = at, file' = file,
             tokens' = tokens, errors' = errors
      PROVE  DropInv'
  <2>1. PICK b \in Nat : b = at
    BY <1>p
  <2>2. Keeps(b) /\ IsSequence(errors')
    BY <1>b, <1>p, KeepsBy
  <2>3. AllBefore(b)
    BY <1>b, <1>p, <2>1 DEF ReadSoFar
  <2>4. AllBefore(b)'
    BY <2>2, <2>3, ReadOn
  <2>5. AllBefore(start)'
    BY <1>b, <2>1, <2>4, BoundIs
  <2> QED
    BY <1>b, <1>t, <2>2, <2>5 DEF DropInv, ReadSoFar, Consuming
<1>c. ASSUME mode \in Consuming, mode' \in Consuming, start' = start, file' = file,
             tokens' = tokens, errors' = errors \/ \E e : errors' = Append(errors, e)
      PROVE  DropInv'
  <2>1. mode # "done"
    BY <1>c DEF Consuming
  <2>2. Keeps(n) /\ IsSequence(errors')
    BY <1>c, <1>p, <2>1, KeepsBy
  <2>3. AllBefore(n)
    BY <1>c, <1>p, <1>s DEF ReadSoFar
  <2>4. AllBefore(n)'
    BY <2>2, <2>3, ReadOn
  <2>5. AllBefore(start)'
    BY <1>c, <1>s, <2>4, BoundIs
  <2> QED
    BY <1>c, <1>t, <2>2, <2>5 DEF DropInv, ReadSoFar, Consuming
\* A token is made of what was read since its begin.
<1>d. ASSUME mode \in Consuming, mode' = "token", file' = file, start <= at',
             NEW class, NEW value, Push(class, start, at', value),
             errors' = errors \/ \E e : errors' = Append(errors, e)
      PROVE  DropInv'
  <2>1. IsSequence(tokens)
    BY <1>d, <1>p DEF Consuming
  <2>2. Keeps(n) /\ IsSequence(errors')
    <3> DEFINE t == [class |-> class, begin |-> start, end |-> at', value |-> value]
    <3>1. t.begin \in Nat /\ n <= t.begin
      BY <1>p, <1>s
    <3>2. tokens' = Append(tokens, t)
      BY <1>d DEF Push
    <3> HIDE DEF t
    <3> QED
      BY <1>d, <1>p, <2>1, <3>1, <3>2, KeepsBy
  <2>3. AllBefore(n)
    BY <1>d, <1>p, <1>s DEF ReadSoFar
  <2>4. ASSUME NEW i \in n .. m - 1
        PROVE  Accounted(i, m)'
    <3>0. n <= i /\ i < m
      OBVIOUS
    <3>1. start <= i /\ i < at'
      BY <1>m, <1>s, <3>0, Zenon
    <3> QED
      BY <1>d, <2>1, <3>1, TokenMade
  <2>5. AllBefore(m)'
    BY <1>d, <1>m, <1>s, <2>2, <2>3, <2>4, ReadOn
  <2> QED
    BY <1>a, <1>d, <2>2, <2>5
<1>1. CASE Space
  <2>1. /\ mode = "token" /\ mode' = "token" /\ file' = file /\ tokens' = tokens /\ errors' = errors
        /\ at' = at + 1 /\ Peek(0) \in Spaces
    BY <1>1 DEF Space
  <2>2. PICK b \in Nat : b = at
    BY <1>p
  <2>3. Keeps(b) /\ IsSequence(errors')
    BY <1>p, <2>1, KeepsBy
  <2>4. AllBefore(b)
    BY <1>p, <2>1, <2>2 DEF ReadSoFar
  <2>5. ASSUME NEW i \in b .. m - 1
        PROVE  Accounted(i, m)'
    <3>1. i = at
      BY <1>m, <2>1, <2>2
    <3>2. CharAt(at) \in Spaces
      BY <1>p, <1>i, <2>1, CharactersAreNotTheEnd
    <3>3. CharAt(i)' \in Spaces
      BY <2>1, <3>1, <3>2 DEF CharAt
    <3> QED
      BY <3>3 DEF Accounted, Spaces
  <2>6. AllBefore(m)'
    BY <1>m, <1>p, <2>1, <2>2, <2>3, <2>4, <2>5, ReadOn
  <2> QED
    BY <1>a, <2>1, <2>3, <2>6
<1>2. CASE LineComment
  <2>1. /\ mode = "token" /\ mode' = "line" /\ UNCHANGED <<file, at, tokens, errors>>
        /\ Peek(0) = "/" /\ Peek(1) = "/"
    BY <1>2 DEF LineComment
  <2>2. PICK b \in Nat : b = at
    BY <1>p
  <2>3. Keeps(b) /\ IsSequence(errors') /\ AllBefore(b)
    BY <1>p, <2>1, <2>2, KeepsBy DEF ReadSoFar
  <2>4. AllBefore(b)'
    BY <2>3, ReadOn
  <2>5. Pair(b, "/", "/")'
    BY <1>p, <2>1, <2>2 DEF Pair, Peek, CharAt, Size
  <2>6. TokensEndBefore(b)'
    BY <1>e, <2>1, <2>2 DEF TokensEndBefore
  <2>7. \A k \in b .. at' - 1 : CharAt(k)' # "\n"
    BY <1>p, <2>1, <2>2
  <2>8. Noting(b)' /\ b \in 0 .. at'
    BY <2>1, <2>2, <2>4, <2>5, <2>6, <2>7 DEF Noting
  <2> QED
    BY <1>t, <2>1, <2>3, <2>8 DEF DropInv, ReadSoFar, Consuming
<1>3. CASE InLineComment
  <2>1. mode = "line" /\ UNCHANGED <<file, tokens, errors>>
    BY <1>3 DEF InLineComment
  <2>2. PICK b \in 0 .. at : Noting(b)
    BY <1>p, <2>1 DEF ReadSoFar
  <2>3. Keeps(b) /\ IsSequence(errors') /\ AllBefore(b) /\ TokensEndBefore(b) /\ Pair(b, "/", "/")
    BY <1>p, <2>1, <2>2, KeepsBy DEF Noting
  <2>4. CASE at < Size /\ Peek(0) # "\n" /\ at' = at + 1 /\ mode' = mode
    <3>1. AllBefore(b)'
      BY <2>2, <2>3, ReadOn
    <3>2. Pair(b, "/", "/")' /\ TokensEndBefore(b)'
      BY <2>1, <2>3 DEF Pair, CharAt, Size, TokensEndBefore
    <3>3. ASSUME NEW k \in b .. at' - 1
          PROVE  CharAt(k)' # "\n"
      <4>1. k \in b .. at - 1 \/ k = at
        BY <1>p, <2>2, <2>4
      <4>2. CharAt(k) # "\n"
        BY <1>i, <2>2, <2>4, <4>1 DEF Noting
      <4> QED
        BY <2>1, <4>2 DEF CharAt
    <3>4. Noting(b)' /\ b \in 0 .. at'
      BY <1>p, <2>2, <2>4, <3>1, <3>2, <3>3 DEF Noting
    <3> QED
      BY <1>t, <2>1, <2>3, <2>4, <3>4 DEF DropInv, ReadSoFar, Consuming
  <2>5. CASE ~(at < Size /\ Peek(0) # "\n") /\ at' = at /\ mode' = "token"
    <3>1. at = Size \/ (at < Size /\ CharAt(at) = "\n")
      BY <1>p, <1>i, <2>5
    <3>2. at >= b + 2
      <4>1. b + 1 < Size /\ CharAt(b) = "/" /\ CharAt(b + 1) = "/"
        BY <2>3 DEF Pair
      <4>2. at # b /\ at # b + 1
        BY <2>2, <3>1, <4>1
      <4> QED
        BY <1>p, <2>2, <4>2
    <3>3. LineNote(b, m)
      BY <1>m, <1>p, <2>2, <2>3, <2>5, <3>1, <3>2 DEF LineNote, Noting
    <3>4. \A i \in b .. m - 1 : Accounted(i, m)'
      BY <2>1, <2>2, <2>3, <3>3, CommentRead DEF Comment
    <3>5. AllBefore(m)'
      BY <1>m, <2>2, <2>3, <2>5, <3>4, ReadOn
    <3> QED
      BY <1>a, <2>3, <2>5, <3>5
  <2> QED
    BY <1>3, <2>1, <2>4, <2>5 DEF InLineComment
<1>4. CASE BlockComment
  <2>1. /\ mode = "token" /\ mode' = "block" /\ start' = at /\ depth' = 1 /\ at' = at + 2
        /\ UNCHANGED <<file, tokens, errors>> /\ Peek(0) = "/" /\ Peek(1) = "*"
    BY <1>4 DEF BlockComment
  <2>2. PICK b \in Nat : b = at
    BY <1>p
  <2>3. Keeps(b) /\ IsSequence(errors') /\ AllBefore(b)
    BY <1>p, <2>1, <2>2, KeepsBy DEF ReadSoFar
  <2>4. AllBefore(b)'
    BY <2>3, ReadOn
  <2>5. AllBefore(start)'
    BY <2>1, <2>2, <2>4, BoundIs
  <2>6. Pair(start, "/", "*")'
    BY <1>p, <2>1 DEF Pair, Peek, CharAt, Size
  <2>7. TokensEndBefore(start)'
    BY <1>e, <2>1 DEF TokensEndBefore
  <2>8. ASSUME NEW c
        PROVE  \E f : Nested(c, f)'
    <3>1. PICK f : f = [j \in {0} |-> c[at']]
      OBVIOUS
    <3>2. Nested(c, f)'
      BY <1>p, <2>1, <3>1 DEF Nested
    <3> QED
      BY <3>2
  <2>9. Commenting'
    BY <1>q, <2>1, <2>5, <2>6, <2>7, <2>8 DEF Commenting
  <2> QED
    BY <1>t, <2>1, <2>3, <2>9 DEF DropInv, ReadSoFar, Consuming
<1>5. CASE InBlockComment
  <2>1. /\ mode = "block" /\ start' = start /\ UNCHANGED <<file, tokens, errors>>
        /\ mode' = (IF depth' = 0 THEN "token" ELSE mode) /\ at <= at' /\ Commenting
    BY <1>5, <1>p DEF InBlockComment, ReadSoFar
  <2>2. Keeps(n) /\ IsSequence(errors') /\ AllBefore(n) /\ TokensEndBefore(n)
        /\ Pair(n, "/", "*") /\ n + 2 <= at
    BY <1>p, <1>s, <2>1, KeepsBy DEF Commenting
  <2>3. CASE depth' = 0
    <3>1. PICK c : Closes(c) /\ BlockEnd(n) = c[n + 2]
      BY <1>p, <2>2, ClosesIs
    <3>2. c[n + 2] = at'
      BY <1>5, <1>p, <1>s, <2>1, <2>3, <3>1, CommentsNest
    <3>3. Comment(n, m)
      BY <1>m, <1>p, <2>1, <2>2, <3>1, <3>2 DEF Comment
    <3>4. \A i \in n .. m - 1 : Accounted(i, m)'
      BY <2>1, <2>2, <3>3, CommentRead
    <3>5. n <= m
      BY <1>m, <1>p, <1>q, <1>s, <2>1
    <3>6. AllBefore(m)'
      BY <2>2, <3>4, <3>5, ReadOn
    <3> QED
      BY <1>a, <2>1, <2>2, <2>3, <3>6
  <2>4. CASE depth' # 0
    <3>1. AllBefore(n)'
      BY <2>2, ReadOn
    <3>2. AllBefore(start)'
      BY <1>s, <2>1, <3>1, BoundIs
    <3>3. Pair(start, "/", "*")' /\ TokensEndBefore(start)' /\ start' + 2 <= at'
      BY <1>p, <1>q, <1>s, <2>1, <2>2 DEF Pair, CharAt, Size, TokensEndBefore
    <3>4. ASSUME NEW c, Closes(c)'
          PROVE  depth' \in Nat \ {0} /\ \E f : Nested(c, f)'
      <4>1. Closes(c)
        BY <2>1, <3>4 DEF Closes, ClosedFrom, Pair, CharAt, Size
      <4> QED
        BY <1>5, <1>p, <2>1, <2>4, <4>1, CommentsNest
    <3>5. depth' \in Nat \ {0}
      <4>1. \E c : Closes(c)
        BY <1>p, <2>2, ClosesIs
      <4> QED
        BY <1>5, <1>p, <2>1, <2>4, <4>1, CommentsNest
    <3>6. Commenting'
      BY <3>2, <3>3, <3>4, <3>5 DEF Commenting
    <3> QED
      BY <1>t, <2>1, <2>2, <2>4, <3>6 DEF DropInv, ReadSoFar, Consuming
  <2> QED
    BY <2>3, <2>4
<1>6. CASE OpenComment
  <2>1. /\ mode = "block" /\ mode' = "token" /\ UNCHANGED <<file, at, start, tokens>>
        /\ Report("E0004", start, start + 2) /\ AllBefore(n)
    BY <1>6, <1>p, <1>s DEF OpenComment, ReadSoFar, Commenting
  <2>2. Keeps(n) /\ IsSequence(errors')
    BY <1>p, <2>1, KeepsBy DEF Report
  <2>3. \A i \in n .. m - 1 : Accounted(i, m)'
    <3> SUFFICES ASSUME NEW i \in n .. m - 1 PROVE Accounted(i, m)'
      OBVIOUS
    <3> QED
      BY <1>p, <1>s, <2>1, ErrorMade
  <2>4. AllBefore(m)'
    BY <1>m, <1>p, <1>s, <2>1, <2>2, <2>3, ReadOn
  <2> QED
    BY <1>a, <2>1, <2>2, <2>4
<1>g. ASSUME mode \in Consuming, mode' = "token", file' = file, at' = at, NEW base, PushInteger(base)
      PROVE  DropInv'
  <2>1. start <= at'
    BY <1>g, <1>p
  <2>2. CASE ValueOf(digits, base) > IntMax
    <3>1. Push("int", start, at', 0) /\ \E e : errors' = Append(errors, e)
      BY <1>g, <2>2 DEF PushInteger, Report
    <3> QED
      BY <1>d, <1>g, <2>1, <3>1
  <2>3. CASE ~(ValueOf(digits, base) > IntMax)
    <3>1. Push("int", start, at', ValueOf(digits, base)) /\ errors' = errors
      BY <1>g, <2>3 DEF PushInteger, Quiet
    <3> QED
      BY <1>d, <1>g, <2>1, <3>1
  <2> QED
    BY <2>2, <2>3
\* A token that ends where the lexer is, with no error.
<1>h. ASSUME mode \in Consuming, mode' = "token", file' = file, at' = at, errors' = errors,
             NEW class, Push(class, start, at, 0)
      PROVE  DropInv'
  <2>1. start <= at' /\ Push(class, start, at', 0)
    BY <1>h, <1>p
  <2> QED
    BY <1>d, <1>h, <2>1
<1>7. CASE Word \/ Number \/ String \/ Junk
  <2>1. /\ mode = "token" /\ start' = at /\ file' = file /\ tokens' = tokens /\ errors' = errors
        /\ mode' \in {"word", "radix", "whole", "string", "junk"}
    BY <1>7 DEF Word, Number, String, Junk
  <2> QED
    BY <1>b, <2>1 DEF Consuming
<1>8. CASE InWord
  <2> DEFINE class == IF Spelling(start, at) \in Keywords THEN "keyword" ELSE "identifier"
  <2>1. /\ mode = "word" /\ start' = start /\ file' = file /\ errors' = errors
        /\ \/ mode' = mode /\ tokens' = tokens
           \/ mode' = "token" /\ at' = at /\ Push(class, start, at, 0)
    BY <1>8 DEF InWord
  <2> HIDE DEF class
  <2> QED
    BY <1>c, <1>h, <2>1 DEF Consuming
<1>9. CASE InRadix
  <2>1. mode = "radix" /\ start' = start /\ file' = file /\ mode \in Consuming
    BY <1>9 DEF InRadix, Consuming
  <2>2. \/ mode' = mode /\ tokens' = tokens /\ errors' = errors
        \/ /\ mode' = "token" /\ at' = at
           /\ \/ Report("E0006", start, at) /\ Push("int", start, at, 0)
              \/ PushInteger(Base(file[start + 2]))
    BY <1>9 DEF InRadix, InDigits, NoToken, Quiet
  <2>3. CASE /\ mode' = "token" /\ at' = at
             /\ Report("E0006", start, at) /\ Push("int", start, at, 0)
    <3>1. start <= at' /\ Push("int", start, at', 0) /\ \E e : errors' = Append(errors, e)
      BY <1>p, <2>3 DEF Report
    <3> QED
      BY <1>d, <2>1, <2>3, <3>1
  <2> QED
    BY <1>c, <1>g, <2>1, <2>2, <2>3
<1>10. CASE InWhole
  <2>1. mode = "whole" /\ start' = start /\ file' = file /\ mode \in Consuming
    BY <1>10 DEF InWhole, Consuming
  <2>2. \/ mode' \in {"whole", "fraction", "exponent"} /\ tokens' = tokens /\ errors' = errors
        \/ mode' = "token" /\ at' = at /\ PushInteger(10)
    BY <1>10 DEF InWhole, InDigits, EnterExponent, NoToken, Quiet
  <2> QED
    BY <1>c, <1>g, <2>1, <2>2 DEF Consuming
<1>11. CASE InFraction
  <2>1. mode = "fraction" /\ start' = start /\ file' = file /\ errors' = errors /\ mode \in Consuming
    BY <1>11 DEF InFraction, Consuming
  <2>2. \/ mode' \in {"fraction", "exponent"} /\ tokens' = tokens
        \/ mode' = "token" /\ at' = at /\ Push("float", start, at, 0)
    BY <1>11 DEF InFraction, InDigits, EnterExponent, NoToken
  <2> QED
    BY <1>c, <1>h, <2>1, <2>2 DEF Consuming
<1>12. CASE InExponent
  <2>1. mode = "exponent" /\ start' = start /\ file' = file /\ errors' = errors /\ mode \in Consuming
    BY <1>12 DEF InExponent, Consuming
  <2>2. \/ mode' = mode /\ tokens' = tokens
        \/ mode' = "token" /\ at' = at /\ Push("float", start, at, 0)
    BY <1>12 DEF InExponent
  <2> QED
    BY <1>c, <1>h, <2>1, <2>2
<1>13. CASE EndString
  <2>1. /\ mode = "string" /\ mode' = "token" /\ file' = file /\ Push("string", start, at', 0)
        /\ at' = at + 1 \/ at' = at
    BY <1>13 DEF EndString
  <2>2. errors' = errors \/ \E e : errors' = Append(errors, e)
    BY <1>13 DEF EndString, Quiet, Report
  <2>3. start <= at' /\ mode \in Consuming
    BY <1>p, <2>1 DEF Consuming
  <2> QED
    BY <1>d, <2>1, <2>2, <2>3
<1>14. CASE InString \/ Escape \/ InCodePoint
  <2>1. /\ mode \in {"string", "codepoint"} /\ mode' \in {"string", "codepoint"}
        /\ start' = start /\ file' = file /\ tokens' = tokens
    BY <1>14 DEF InString, Escape, InCodePoint
  <2>2. errors' = errors \/ \E e : errors' = Append(errors, e)
    BY <1>14 DEF InString, Escape, InCodePoint, Quiet, Report
  <2> QED
    BY <1>c, <2>1, <2>2 DEF Consuming
<1>15. CASE Symbol
  <2>1. /\ mode = "token" /\ file' = file /\ at <= at' /\ mode' \in {"token", "stopped"}
        /\ \/ Report("E0009", at, at') /\ tokens' = tokens
           \/ Push("symbol", at, at', 0) /\ errors' = errors
    BY <1>15, <1>p DEF Symbol, CheckLimit, NoToken, Quiet
  <2>2. PICK b \in Nat : b = at
    BY <1>p
  <2>3. AllBefore(b) /\ IsSequence(tokens)
    BY <1>p, <2>1, <2>2 DEF ReadSoFar
  <2>4. errors' = errors \/ \E e : errors' = Append(errors, e)
    BY <2>1 DEF Report
  <2>5. tokens' = tokens \/ \E t : tokens' = Append(tokens, t) /\ t.begin \in Nat /\ b <= t.begin
    <3> SUFFICES ASSUME Push("symbol", at, at', 0)
                 PROVE  \E t : tokens' = Append(tokens, t) /\ t.begin \in Nat /\ b <= t.begin
      BY <2>1
    <3> DEFINE t == [class |-> "symbol", begin |-> at, end |-> at', value |-> 0]
    <3>1. t.begin \in Nat /\ b <= t.begin
      BY <1>p, <2>2
    <3>2. tokens' = Append(tokens, t)
      BY DEF Push
    <3> HIDE DEF t
    <3> QED
      BY <3>1, <3>2
  <2>6. Keeps(b) /\ IsSequence(errors')
    BY <1>p, <2>1, <2>3, <2>4, <2>5, KeepsBy
  <2>7. ASSUME NEW i \in b .. m - 1
        PROVE  Accounted(i, m)'
    <3>0. b <= i /\ i < m
      OBVIOUS
    <3>1. at <= i /\ i < at'
      BY <1>m, <2>2, <3>0, Zenon
    <3> QED
      BY <1>p, <2>1, <2>3, <3>1, ErrorMade, TokenMade
  <2>8. b <= m
    BY <1>m, <2>1, <2>2
  <2>9. AllBefore(m)'
    BY <2>3, <2>6, <2>7, <2>8, ReadOn
  <2>10. CASE mode' = "stopped"
    BY <1>t, <2>6, <2>10 DEF DropInv, ReadSoFar, Consuming
  <2> QED
    BY <1>a, <2>1, <2>6, <2>9, <2>10
<1>16. CASE InJunk
  <2>1. /\ mode = "junk" /\ start' = start /\ file' = file /\ tokens' = tokens
        /\ \/ mode' = mode /\ errors' = errors
           \/ at' = at /\ Report("E0010", start, at) /\ mode' \in {"token", "stopped"}
    BY <1>16 DEF InJunk, CheckLimit, Quiet
  <2>2. CASE mode' = mode /\ errors' = errors
    BY <1>c, <2>1, <2>2 DEF Consuming
  <2>3. CASE at' = at /\ Report("E0010", start, at) /\ mode' \in {"token", "stopped"}
    <3>1. Keeps(n) /\ IsSequence(errors')
      BY <1>p, <2>1, <2>3, KeepsBy DEF Report
    <3>2. AllBefore(n)
      BY <1>p, <1>s, <2>1 DEF ReadSoFar, Consuming
    <3>3. ASSUME NEW i \in n .. m - 1
          PROVE  Accounted(i, m)'
      <4>1. start <= i /\ i < at
        BY <1>m, <1>s, <2>3
      <4> QED
        BY <1>p, <2>3, <4>1, ErrorMade
    <3>4. n <= m
      BY <1>m, <1>p, <1>s, <2>3
    <3>5. AllBefore(m)'
      BY <3>1, <3>2, <3>3, <3>4, ReadOn
    <3>6. CASE mode' = "stopped"
      BY <1>t, <3>1, <3>6 DEF DropInv, ReadSoFar, Consuming
    <3> QED
      BY <1>a, <2>3, <3>1, <3>5, <3>6
  <2> QED
    BY <2>1, <2>2, <2>3
<1>17. CASE Finish
  <2>1. mode' = "done" /\ errors' = errors
    BY <1>17 DEF Finish
  <2> QED
    BY <1>p, <1>t, <2>1 DEF DropInv, ReadSoFar, Consuming
<1>18. CASE Ended
  <2>1. mode' = "done" /\ errors' = errors
    BY <1>18 DEF Ended, vars
  <2> QED
    BY <1>p, <1>t, <2>1 DEF DropInv, ReadSoFar, Consuming
<1> QED
  BY <1>1, <1>2, <1>3, <1>4, <1>5, <1>6, <1>7, <1>8, <1>9, <1>10, <1>11, <1>12, <1>13, <1>14,
     <1>15, <1>16, <1>17, <1>18 DEF Next

LEMMA DropStutter ==
  ASSUME DropInv, UNCHANGED vars
  PROVE  DropInv'
<1>1. /\ file' = file /\ at' = at /\ mode' = mode /\ start' = start /\ depth' = depth
      /\ tokens' = tokens /\ errors' = errors
  BY DEF vars
<1>2. TokensInv'
  BY TokensStutter DEF DropInv
<1>3. \A b, e : Comment(b, e)' <=> Comment(b, e)
  BY <1>1, SameComment
<1>4. \A i, bound : Accounted(i, bound)' <=> Accounted(i, bound)
  BY <1>1, <1>3 DEF Accounted, CharAt
<1>5. \A b : AllBefore(b) => AllBefore(b)'
  BY <1>4 DEF AllBefore
<1>6. (AllBefore(at) => AllBefore(at)') /\ (AllBefore(start) => AllBefore(start)')
  BY <1>1, <1>4 DEF AllBefore
<1>7. \A k, a, b : Pair(k, a, b)' <=> Pair(k, a, b)
  BY <1>1 DEF Pair, CharAt, Size
<1>8. \A b : Noting(b) => Noting(b)'
  <2> SUFFICES ASSUME NEW b, Noting(b) PROVE Noting(b)'
    OBVIOUS
  <2> QED
    BY <1>1, <1>5, <1>7 DEF Noting, TokensEndBefore, CharAt
<1>9. ASSUME Commenting
      PROVE  Commenting'
  <2>1. AllBefore(start)'
    BY <1>6, <1>9 DEF Commenting
  <2>2. TokensEndBefore(start)' /\ Pair(start, "/", "*")'
    BY <1>1, <1>9 DEF Commenting, TokensEndBefore, Pair, CharAt, Size
  <2>3. ASSUME NEW c, Closes(c)'
        PROVE  \E f : Nested(c, f)'
    <3>1. Closes(c)
      BY <1>1, <2>3 DEF Closes, ClosedFrom, Pair, CharAt, Size
    <3>2. PICK f : Nested(c, f)
      BY <1>9, <3>1 DEF Commenting
    <3> QED
      BY <1>1, <3>2 DEF Nested
  <2> QED
    BY <1>1, <1>9, <2>1, <2>2, <2>3 DEF Commenting
<1> QED
  BY <1>1, <1>2, <1>6, <1>8, <1>9 DEF DropInv, ReadSoFar

\* For every text: whenever the lexer is between tokens, each character behind it is white
\* space, in a token, in a comment that ends, or under an error or behind the one that says a
\* comment never ends. (skip_trivia, skip_block_comment, tokenize)
THEOREM LexerNothingDropped == Spec => []NothingDropped
<1>1. Init => DropInv
  <2> SUFFICES ASSUME Init PROVE DropInv
    OBVIOUS
  <2>1. at = 0 /\ mode = "token" /\ errors = <<>>
    BY DEF Init
  <2>2. IsSequence(errors)
    <3>1. errors \in Seq({})
      BY <2>1
    <3> QED
      BY <3>1 DEF IsSequence
  <2>3. AllBefore(at)
    BY <2>1 DEF AllBefore
  <2> QED
    BY <2>1, <2>2, <2>3, TokensStart DEF DropInv, ReadSoFar, Consuming
<1>2. DropInv /\ [Next]_vars => DropInv'
  BY DropStep, DropStutter
<1>3. DropInv => NothingDropped
  BY DEF DropInv, ReadSoFar, NothingDropped, AllBefore, Accounted
<1> QED
  BY <1>1, <1>2, <1>3, PTL DEF Spec
-----------------------------------------------------------------------------
(* The columns of a line.                                                    *)

\* The columns that the first n characters of a line take.
Tabs(line, n) == { i \in 1 .. n : line[i] = "\t" }
Columns(line, n) == n + (TabWidth - 1) * Cardinality(Tabs(line, n))

LEMMA TabsCounted ==
  ASSUME NEW line, NEW n \in Nat
  PROVE  /\ IsFiniteSet(Tabs(line, n)) /\ Cardinality(Tabs(line, n)) \in Nat
         /\ Columns(line, n) \in Nat /\ n <= Columns(line, n)
<1>1. IsFiniteSet(1 .. n)
  BY FS_Interval
<1>2. Tabs(line, n) \in SUBSET (1 .. n)
  BY DEF Tabs
<1>3. IsFiniteSet(Tabs(line, n))
  BY <1>1, <1>2, FS_Subset
<1>4. Cardinality(Tabs(line, n)) \in Nat
  BY <1>3, FS_CardinalityType
<1> QED
  BY <1>3, <1>4 DEF Columns, TabWidth

\* A tab takes four columns, any other character one.
LEMMA ColumnsOfOne ==
  ASSUME NEW line, NEW n \in Nat
  PROVE  Columns(line, n + 1) = Columns(line, n) + IF line[n + 1] = "\t" THEN TabWidth ELSE 1
<1>1. IsFiniteSet(Tabs(line, n)) /\ Cardinality(Tabs(line, n)) \in Nat
  BY TabsCounted
<1>2. CASE line[n + 1] = "\t"
  <2>1. Tabs(line, n + 1) = Tabs(line, n) \cup {n + 1} /\ n + 1 \notin Tabs(line, n)
    BY <1>2 DEF Tabs
  <2>2. Cardinality(Tabs(line, n + 1)) = Cardinality(Tabs(line, n)) + 1
    BY <1>1, <2>1, FS_AddElement
  <2> QED
    BY <1>1, <1>2, <2>2 DEF Columns, TabWidth
<1>3. CASE line[n + 1] # "\t"
  <2>1. Tabs(line, n + 1) = Tabs(line, n)
    BY <1>3 DEF Tabs
  <2> QED
    BY <1>1, <1>3, <2>1 DEF Columns, TabWidth
<1> QED
  BY <1>2, <1>3

LEMMA ColumnsGrow ==
  ASSUME NEW line, NEW m \in Nat, NEW n \in Nat, m <= n
  PROVE  Columns(line, m) + (n - m) <= Columns(line, n)
<1>1. IsFiniteSet(Tabs(line, n)) /\ Cardinality(Tabs(line, n)) \in Nat /\ Cardinality(Tabs(line, m)) \in Nat
  BY TabsCounted
<1>2. Tabs(line, m) \in SUBSET Tabs(line, n)
  BY DEF Tabs
<1>3. Cardinality(Tabs(line, m)) <= Cardinality(Tabs(line, n))
  BY <1>1, <1>2, FS_Subset
<1> QED
  BY <1>1, <1>3 DEF Columns, TabWidth

\* What is shown of the first n characters: each column shows the character it is of.
Cells(line, s, n) ==
  /\ s \in Seq(Nat) /\ Len(s) = Columns(line, n)
  /\ \A c \in 1 .. Len(s) :
       s[c] \in 1 .. n /\ Columns(line, s[c] - 1) < c /\ c <= Columns(line, s[c])

Cell(line, n) == [ k \in 1 .. (IF line[n] = "\t" THEN TabWidth ELSE 1) |-> n ]

LEMMA CellsStep ==
  ASSUME NEW line, NEW n \in Nat, NEW s, Cells(line, s, n)
  PROVE  Cells(line, s \o Cell(line, n + 1), n + 1)
<1> DEFINE w == IF line[n + 1] = "\t" THEN TabWidth ELSE 1
           a == Columns(line, n)
<1>1. w \in Nat /\ a \in Nat /\ Columns(line, n + 1) = a + w
  BY TabsCounted, ColumnsOfOne DEF TabWidth
<1>2. PICK t : t = [ k \in 1 .. w |-> n + 1 ]
  OBVIOUS
<1>3. Cell(line, n + 1) = t
  BY <1>2 DEF Cell
<1>4. s \in Seq(Nat) /\ Len(s) = a
  BY DEF Cells
<1> HIDE DEF w, a
<1>5. t \in Seq(Nat) /\ Len(t) = w /\ \A k \in 1 .. w : t[k] = n + 1
  BY <1>1, <1>2
<1>6. PICK u : u = s \o t
  OBVIOUS
<1>7. /\ u \in Seq(Nat) /\ Len(u) = a + w
      /\ \A c \in 1 .. a : u[c] = s[c]
      /\ \A c \in a + 1 .. a + w : u[c] = n + 1
  <2>1. u \in Seq(Nat) /\ Len(u) = a + w
    <3>1. s \in Seq(Nat) /\ t \in Seq(Nat)
      BY <1>4, <1>5
    <3>2. s \o t \in Seq(Nat) /\ Len(s \o t) = Len(s) + Len(t)
      BY <3>1
    <3> QED
      BY <1>4, <1>5, <1>6, <3>2
  <2>2. ASSUME NEW c \in 1 .. a
        PROVE  u[c] = s[c]
    <3>1. c \in 1 .. a + w /\ c <= a
      BY <1>1
    <3> QED
      BY <1>1, <1>4, <1>5, <1>6, <3>1
  <2>3. ASSUME NEW c \in a + 1 .. a + w
        PROVE  u[c] = n + 1
    <3>1. c - a \in 1 .. w /\ c \in 1 .. a + w /\ ~(c <= a)
      BY <1>1
    <3>2. u[c] = t[c - a]
      BY <1>1, <1>4, <1>5, <1>6, <3>1
    <3> QED
      BY <1>5, <3>1, <3>2
  <2> QED
    BY <2>1, <2>2, <2>3
<1>8. ASSUME NEW c \in 1 .. a + w
      PROVE  u[c] \in 1 .. n + 1 /\ Columns(line, u[c] - 1) < c /\ c <= Columns(line, u[c])
  <2>1. CASE c \in 1 .. a
    <3>1. s[c] \in 1 .. n /\ Columns(line, s[c] - 1) < c /\ c <= Columns(line, s[c])
      BY <1>4, <2>1 DEF Cells
    <3>2. u[c] = s[c] /\ s[c] \in 1 .. n + 1
      BY <1>7, <2>1, <3>1
    <3> QED
      BY <3>1, <3>2
  <2>2. CASE c \in a + 1 .. a + w
    <3>1. u[c] = n + 1 /\ (n + 1) - 1 = n
      BY <1>7, <2>2
    <3> QED
      BY <1>1, <2>2, <3>1 DEF a
  <2> QED
    BY <1>1, <2>1, <2>2
<1> QED
  BY <1>1, <1>3, <1>6, <1>7, <1>8 DEF Cells

LEMMA UpTo ==
  ASSUME NEW N \in Nat, NEW Good, 0 \in Good, \A n \in 0 .. N - 1 : n \in Good => n + 1 \in Good,
         NEW n \in 0 .. N
  PROVE  n \in Good
<1> DEFINE Missing == { m \in 0 .. N : m \notin Good }
<1>1. Missing = {}
  <2> SUFFICES ASSUME Missing # {} PROVE FALSE
    OBVIOUS
  <2>1. PICK m \in Missing : \A y \in Missing : m <= y
    <3>1. Missing \subseteq Nat
      OBVIOUS
    <3> QED
      BY <3>1, LeastOf
  <2>2. m # 0
    BY <2>1
  <2>3. m - 1 \in 0 .. N - 1 /\ m - 1 \notin Missing /\ (m - 1) + 1 = m
    BY <2>1, <2>2
  <2> QED
    BY <2>1, <2>3
<1> QED
  BY <1>1

\* ExpandTabs shows every character of the line, in order.
LEMMA ExpandTabsShows ==
  ASSUME NEW line, Len(line) \in Nat
  PROVE  Cells(line, ExpandTabs(line), Len(line))
<1>0. PICK L \in Nat : L = Len(line)
  OBVIOUS
<1> DEFINE Turn(f, n) == IF n = 0 THEN <<>> ELSE f[n - 1] \o Cell(line, n)
           Body(f) == [n \in 0 .. L |-> Turn(f, n)]
           C == CHOOSE f : f = Body(f)
           Has(n) == \E f : \A m \in 0 .. n : f[m] = Turn(f, m)
           Exist == { n \in 0 .. L : Has(n) }
<1>1. ExpandTabs(line) = C[L]
  BY <1>0 DEF ExpandTabs, Cell
<1>2. 0 \in Exist
  <2>1. PICK f : f = [m \in {0} |-> <<>>]
    OBVIOUS
  <2>2. \A m \in 0 .. 0 : f[m] = Turn(f, m)
    BY <2>1
  <2>3. Has(0)
    BY <2>2, Zenon
  <2> HIDE DEF Has
  <2> QED
    BY <2>3
<1>3. ASSUME NEW n \in 0 .. L - 1, n \in Exist
      PROVE  n + 1 \in Exist
  <2>1. PICK g : \A m \in 0 .. n : g[m] = Turn(g, m)
    BY <1>3
  <2>2. PICK b : b = Turn(g, n + 1)
    OBVIOUS
  <2>3. PICK f : f = [m \in 0 .. n + 1 |-> IF m = n + 1 THEN b ELSE g[m]]
    OBVIOUS
  <2>4. \A m \in 0 .. n : f[m] = g[m]
    BY <2>3
  <2>5. f[n + 1] = b
    BY <2>3
  <2>6. \A m \in 0 .. n + 1 : Turn(f, m) = Turn(g, m)
    BY <2>4
  <2>7. ASSUME NEW m \in 0 .. n + 1
        PROVE  f[m] = Turn(f, m)
    <3> HIDE DEF Turn
    <3>1. m \in 0 .. n \/ m = n + 1
      OBVIOUS
    <3> QED
      BY <2>1, <2>2, <2>4, <2>5, <2>6, <3>1
  <2>8. Has(n + 1)
    BY <2>7, Zenon
  <2>9. n + 1 \in 0 .. L
    OBVIOUS
  <2> HIDE DEF Has
  <2> QED
    BY <2>8, <2>9
<1>4. Has(L)
  <2> HIDE DEF Has
  <2>1. \A n \in 0 .. L - 1 : n \in Exist => n + 1 \in Exist
    BY <1>3
  <2>2. L \in 0 .. L
    OBVIOUS
  <2> HIDE DEF Exist
  <2>3. L \in Exist
    BY <1>2, <2>1, <2>2, UpTo
  <2> QED
    BY <2>3 DEF Exist
<1>5. \E f : f = Body(f)
  <2>1. PICK g : \A m \in 0 .. L : g[m] = Turn(g, m)
    BY <1>4
  <2>2. PICK f : f = [m \in 0 .. L |-> g[m]]
    OBVIOUS
  <2>3. ASSUME NEW m \in 0 .. L
        PROVE  f[m] = Turn(f, m)
    <3>1. Turn(f, m) = Turn(g, m)
      BY <2>2
    <3> HIDE DEF Turn
    <3> QED
      BY <2>1, <2>2, <3>1
  <2>4. f = Body(f)
    <3>1. f = [m \in 0 .. L |-> f[m]]
      BY <2>2
    <3> HIDE DEF Turn
    <3> QED
      BY <2>3, <3>1, Zenon
  <2> QED
    BY <2>4, Zenon
<1>6. PICK f : f = C /\ f = Body(f)
  <2> HIDE DEF Body
  <2> QED
    BY <1>5, Zenon
<1>t. \A n \in 0 .. L : f[n] = Turn(f, n)
  <2> HIDE DEF C, Turn
  <2> QED
    BY <1>6
<1> HIDE DEF C, Body
<1> DEFINE Good == { n \in 0 .. L : Cells(line, f[n], n) }
<1>7. 0 \in Good
  <2>1. f[0] = <<>>
    BY <1>t
  <2>2. Columns(line, 0) = 0
    <3>1. Tabs(line, 0) = {}
      BY DEF Tabs
    <3>2. Cardinality(Tabs(line, 0)) = 0
      BY <3>1, FS_EmptySet
    <3> QED
      BY <3>2 DEF Columns, TabWidth
  <2>3. Cells(line, <<>>, 0)
    BY <2>2 DEF Cells
  <2> QED
    BY <2>1, <2>3
<1>8. ASSUME NEW n \in 0 .. L - 1, n \in Good
      PROVE  n + 1 \in Good
  <2>1. n + 1 \in 0 .. L /\ n + 1 # 0 /\ (n + 1) - 1 = n
    OBVIOUS
  <2>2. f[n + 1] = f[n] \o Cell(line, n + 1)
    BY <1>t, <2>1
  <2>3. Cells(line, f[n + 1], n + 1)
    BY <1>8, <2>2, CellsStep
  <2> QED
    BY <2>1, <2>3
<1>9. L \in Good
  <2>1. L \in 0 .. L
    OBVIOUS
  <2> HIDE DEF Good
  <2> QED
    BY <1>7, <1>8, <2>1, UpTo
<1> QED
  BY <1>0, <1>1, <1>6, <1>9
\* visual_column is how many columns come before the column of the character after p.
LEMMA VisualColumnIs ==
  ASSUME NEW line, Len(line) \in Nat, NEW p \in Nat
  PROVE  VisualColumn(line, p + 1)
           = IF p <= Len(line) THEN Columns(line, p) ELSE Columns(line, Len(line)) + (p - Len(line))
<1> DEFINE m == Min({p, Len(line)})
<1>1. m = (IF p <= Len(line) THEN p ELSE Len(line)) /\ (p + 1) - 1 = p
  BY MinOfTwo
<1>2. VisualColumn(line, p + 1) = p + (TabWidth - 1) * Cardinality(Tabs(line, m))
  BY <1>1 DEF VisualColumn, Tabs
<1> HIDE DEF m
<1>3. Cardinality(Tabs(line, p)) \in Nat /\ Cardinality(Tabs(line, Len(line))) \in Nat
  BY TabsCounted
<1> QED
  BY <1>1, <1>2, <1>3 DEF Columns, TabWidth

LEMMA VisualColumnsGrow ==
  ASSUME NEW line, Len(line) \in Nat, NEW p \in Nat, NEW q \in Nat, p < q
  PROVE  /\ VisualColumn(line, p + 1) \in Nat /\ VisualColumn(line, q + 1) \in Nat
         /\ VisualColumn(line, p + 1) < VisualColumn(line, q + 1)
<1>1. /\ VisualColumn(line, p + 1)
           = IF p <= Len(line) THEN Columns(line, p) ELSE Columns(line, Len(line)) + (p - Len(line))
      /\ VisualColumn(line, q + 1)
           = IF q <= Len(line) THEN Columns(line, q) ELSE Columns(line, Len(line)) + (q - Len(line))
  BY VisualColumnIs
<1>2. Columns(line, p) \in Nat /\ Columns(line, q) \in Nat /\ Columns(line, Len(line)) \in Nat
  BY TabsCounted
<1>3. /\ p <= Len(line) => Columns(line, p) + (Len(line) - p) <= Columns(line, Len(line))
      /\ Columns(line, p) + (q - p) <= Columns(line, q)
  BY ColumnsGrow
<1> QED
  BY <1>1, <1>2, <1>3

\* A column is past that many exactly when what it shows is past p.
LEMMA ShownAfter ==
  ASSUME NEW line, Len(line) \in Nat, NEW p \in Nat, NEW c \in 1 .. Len(ExpandTabs(line))
  PROVE  /\ ExpandTabs(line)[c] \in 1 .. Len(line)
         /\ VisualColumn(line, p + 1) < c <=> p < ExpandTabs(line)[c]
<1>1. PICK s : s = ExpandTabs(line)
  OBVIOUS
<1>2. /\ s \in Seq(Nat) /\ Len(s) = Columns(line, Len(line))
      /\ s[c] \in 1 .. Len(line) /\ Columns(line, s[c] - 1) < c /\ c <= Columns(line, s[c])
  BY <1>1, ExpandTabsShows DEF Cells
<1>3. PICK k \in 1 .. Len(line) : k = s[c]
  BY <1>2
<1>4. c \in 1 .. Columns(line, Len(line)) /\ Columns(line, k - 1) < c /\ c <= Columns(line, k)
  BY <1>1, <1>2, <1>3
<1>5. /\ Columns(line, p) \in Nat /\ Columns(line, k) \in Nat /\ Columns(line, k - 1) \in Nat
      /\ Columns(line, Len(line)) \in Nat
  BY TabsCounted
<1>6. VisualColumn(line, p + 1)
        = IF p <= Len(line) THEN Columns(line, p) ELSE Columns(line, Len(line)) + (p - Len(line))
  BY VisualColumnIs
<1>7. CASE k <= p
  <2>1. Columns(line, k) + (p - k) <= Columns(line, p)
    BY <1>7, ColumnsGrow
  <2>2. ~(VisualColumn(line, p + 1) < c)
    BY <1>4, <1>5, <1>6, <1>7, <2>1
  <2> QED
    BY <1>1, <1>3, <1>7, <2>2
<1>8. CASE p < k
  <2>1. p <= Len(line) /\ p <= k - 1 /\ k - 1 \in Nat
    BY <1>8
  <2>2. Columns(line, p) + ((k - 1) - p) <= Columns(line, k - 1)
    BY <2>1, ColumnsGrow
  <2>3. VisualColumn(line, p + 1) < c
    BY <1>4, <1>5, <1>6, <1>8, <2>1, <2>2
  <2> QED
    BY <1>1, <1>3, <1>8, <2>3
<1> QED
  BY <1>7, <1>8

-----------------------------------------------------------------------------
(* Lines.                                                                    *)

LEMMA GreatestOf ==
  ASSUME NEW N \in Nat, NEW S, S \subseteq 0 .. N, S # {}
  PROVE  Max(S) \in S /\ \A y \in S : y <= Max(S)
<1> DEFINE T == { N - x : x \in S }
<1>1. T \subseteq Nat /\ T # {}
  <2>1. ASSUME NEW x \in S
        PROVE  N - x \in Nat
    BY <2>1
  <2> QED
    BY <2>1
<1>2. PICK t \in T : \A y \in T : t <= y
  <2> HIDE DEF T
  <2> QED
    BY <1>1, LeastOf
<1>3. PICK x \in S : t = N - x
  BY <1>2
<1>4. \A y \in S : x >= y
  BY <1>2, <1>3
<1>5. Max(S) \in S /\ \A y \in S : Max(S) >= y
  <2> HIDE DEF T
  <2>1. \E z \in S : \A y \in S : z >= y
    BY <1>3, <1>4
  <2> QED
    BY <2>1, Zenon DEF Max
<1> QED
  BY <1>5

LEMMA SmallestOf ==
  ASSUME NEW S, S \subseteq Nat, S # {}
  PROVE  Min(S) \in S /\ \A y \in S : Min(S) <= y
<1>1. \E x \in S : \A y \in S : x <= y
  BY LeastOf
<1> QED
  BY <1>1, Zenon DEF Min

\* The lines that begin at or before an offset; it is in the last of them.
StartsBefore(text, o) == { s \in LineStarts(text) : s <= o }
LineBegin(text, o) == Max(StartsBefore(text, o))

LEMMA StartsAre ==
  ASSUME NEW text, Len(text) \in Nat, NEW o \in Nat
  PROVE  /\ LineStarts(text) \subseteq 0 .. Len(text)
         /\ StartsBefore(text, o) \subseteq LineStarts(text)
         /\ StartsBefore(text, o) \subseteq 0 .. o
         /\ IsFiniteSet(StartsBefore(text, o)) /\ Cardinality(StartsBefore(text, o)) \in Nat
         /\ LineBegin(text, o) \in StartsBefore(text, o)
         /\ \A s \in StartsBefore(text, o) : s <= LineBegin(text, o)
         /\ LineBegin(text, o) \in Nat /\ LineBegin(text, o) <= o
<1>1. LineStarts(text) \subseteq 0 .. Len(text)
  BY DEF LineStarts
<1>2. StartsBefore(text, o) \subseteq LineStarts(text) /\ StartsBefore(text, o) \subseteq 0 .. o
  BY <1>1 DEF StartsBefore
<1>3. 0 \in StartsBefore(text, o)
  BY DEF StartsBefore, LineStarts
<1>4. IsFiniteSet(0 .. o)
  BY FS_Interval
<1>5. IsFiniteSet(StartsBefore(text, o))
  BY <1>2, <1>4, FS_Subset
<1>6. Cardinality(StartsBefore(text, o)) \in Nat
  BY <1>5, FS_CardinalityType
<1>7. /\ LineBegin(text, o) \in StartsBefore(text, o)
      /\ \A s \in StartsBefore(text, o) : s <= LineBegin(text, o)
  BY <1>2, <1>3, GreatestOf DEF LineBegin
<1>8. LineBegin(text, o) \in 0 .. o
  BY <1>2, <1>7
<1> QED
  BY <1>1, <1>2, <1>5, <1>6, <1>7, <1>8

LEMMA LocateIs ==
  ASSUME NEW text, Len(text) \in Nat, NEW o \in 0 .. Len(text)
  PROVE  /\ Locate(text, o).line = Cardinality(StartsBefore(text, o))
         /\ Locate(text, o).column = (o - LineBegin(text, o)) + 1
<1>1. Min({o, Len(text)}) = o
  BY MinOfTwo
<1>2. Locate(text, o) = [line |-> Cardinality(StartsBefore(text, o)),
                         column |-> (o - LineBegin(text, o)) + 1]
  BY <1>1 DEF Locate, StartsBefore, LineBegin
<1> QED
  BY <1>2

\* The number of a line is one more than the newlines before an offset in it.
LEMMA LinesCounted ==
  ASSUME NEW text, Len(text) \in Nat, NEW o \in 0 .. Len(text)
  PROVE  Cardinality(StartsBefore(text, o)) = 1 + Cardinality({ i \in 1 .. o : text[i] = "\n" })
<1> DEFINE n == { i \in 1 .. o : text[i] = "\n" }
<1>1. StartsBefore(text, o) = n \cup {0} /\ 0 \notin n
  BY DEF StartsBefore, LineStarts
<1>2. IsFiniteSet(1 .. o) /\ n \in SUBSET (1 .. o)
  BY FS_Interval
<1> HIDE DEF n
<1>3. IsFiniteSet(n)
  BY <1>2, FS_Subset
<1>4. Cardinality(n) \in Nat
  BY <1>3, FS_CardinalityType
<1>5. Cardinality(n \cup {0}) = Cardinality(n) + 1
  BY <1>1, <1>3, FS_AddElement
<1> QED
  BY <1>1, <1>4, <1>5 DEF n

\* Offsets are on the same line when as many lines begin at or before them.
LEMMA SameLine ==
  ASSUME NEW text, Len(text) \in Nat, NEW o \in Nat, NEW p \in Nat, o <= p
  PROVE  /\ Cardinality(StartsBefore(text, o)) = Cardinality(StartsBefore(text, p))
              => StartsBefore(text, o) = StartsBefore(text, p)
         /\ Cardinality(StartsBefore(text, o)) # Cardinality(StartsBefore(text, p))
              => \E s \in LineStarts(text) : o < s /\ s <= p
<1>1. StartsBefore(text, o) \in SUBSET StartsBefore(text, p)
  <2>1. LineStarts(text) \subseteq 0 .. Len(text)
    BY StartsAre
  <2> QED
    BY <2>1 DEF StartsBefore
<1>2. IsFiniteSet(StartsBefore(text, p))
  BY StartsAre
<1>3. ASSUME Cardinality(StartsBefore(text, o)) # Cardinality(StartsBefore(text, p))
      PROVE  \E s \in LineStarts(text) : o < s /\ s <= p
  <2>1. PICK s : s \in StartsBefore(text, p) /\ s \notin StartsBefore(text, o)
    BY <1>1, <1>3
  <2>2. LineStarts(text) \subseteq 0 .. Len(text)
    BY StartsAre
  <2> QED
    BY <2>1, <2>2 DEF StartsBefore
<1>4. Cardinality(StartsBefore(text, o)) = Cardinality(StartsBefore(text, p))
        => StartsBefore(text, o) = StartsBefore(text, p)
  BY <1>1, <1>2, FS_Subset
<1> QED
  BY <1>3, <1>4

\* line_text begins where the line does, and ends before any other begins.
LEMMA LineSpanIs ==
  ASSUME NEW text, Len(text) \in Nat, NEW o \in 0 .. Len(text)
  PROVE  LET span == LineSpan(text, Cardinality(StartsBefore(text, o)))
         IN  /\ span[1] = LineBegin(text, o)
             /\ span[2] \in LineBegin(text, o) .. Len(text)
             /\ \A s \in LineStarts(text) : s > LineBegin(text, o) => span[2] <= s
<1> DEFINE b == LineBegin(text, o)
           n == Cardinality(StartsBefore(text, o))
           begin == CHOOSE s \in LineStarts(text) :
                      Cardinality({ t \in LineStarts(text) : t <= s }) = n
           later == { s \in LineStarts(text) : s > begin }
           end == IF later = {} THEN Len(text) ELSE Min(later)
           kept == { i \in begin + 1 .. end : text[i] \notin {"\n", "\r"} }
           last == IF kept = {} THEN begin ELSE Max(kept)
<1>0. LineSpan(text, n) = <<begin, last>>
  BY DEF LineSpan
<1>1. /\ LineStarts(text) \subseteq 0 .. Len(text)
      /\ b \in LineStarts(text) /\ b \in Nat /\ b <= o
      /\ \A s \in StartsBefore(text, o) : s <= b
  <2>1. o \in Nat
    OBVIOUS
  <2> QED
    BY <2>1, StartsAre
<1>2. StartsBefore(text, b) = StartsBefore(text, o)
  BY <1>1 DEF StartsBefore
<1>3. begin \in LineStarts(text) /\ Cardinality(StartsBefore(text, begin)) = n
  <2>1. Cardinality({ t \in LineStarts(text) : t <= b }) = n
    BY <1>2 DEF StartsBefore
  <2>2. \E s \in LineStarts(text) : Cardinality({ t \in LineStarts(text) : t <= s }) = n
    BY <1>1, <2>1
  <2> HIDE DEF n
  <2> QED
    BY <2>2, Zenon DEF StartsBefore
<1> HIDE DEF begin
<1>4. begin = b
  <2>1. begin \in Nat
    BY <1>1, <1>3
  <2>2. Cardinality(StartsBefore(text, begin)) = Cardinality(StartsBefore(text, b))
    BY <1>2, <1>3
  <2>3. StartsBefore(text, begin) = StartsBefore(text, b)
    <3> HIDE DEF b
    <3>1. begin <= b \/ b <= begin
      BY <1>1, <2>1
    <3> QED
      BY <1>1, <2>1, <2>2, <3>1, SameLine
  <2>4. begin \in StartsBefore(text, begin) /\ b \in StartsBefore(text, b)
    BY <1>1, <1>3, <2>1 DEF StartsBefore
  <2>5. begin <= b /\ b <= begin
    BY <2>3, <2>4 DEF StartsBefore
  <2> QED
    BY <1>1, <2>1, <2>5
<1> HIDE DEF b, n
<1>5. end \in begin .. Len(text) /\ \A s \in LineStarts(text) : s > begin => end <= s
  <2>1. CASE later = {}
    BY <1>1, <1>4, <2>1
  <2>2. CASE later # {}
    <3>1. later \subseteq Nat
      BY <1>1
    <3>2. Min(later) \in later /\ \A y \in later : Min(later) <= y
      BY <2>2, <3>1, SmallestOf
    <3> QED
      BY <1>1, <1>4, <2>2, <3>2
  <2> QED
    BY <2>1, <2>2
<1> HIDE DEF end
<1>6. last \in begin .. end
  <2>1. CASE kept = {}
    BY <1>1, <1>4, <1>5, <2>1
  <2>2. CASE kept # {}
    <3>1. kept \subseteq 0 .. Len(text)
      BY <1>1, <1>4, <1>5
    <3>2. Max(kept) \in kept
      BY <2>2, <3>1, GreatestOf
    <3> QED
      BY <1>1, <1>4, <1>5, <2>2, <3>2
  <2> QED
    BY <2>1, <2>2
<1> HIDE DEF last
<1>7. last \in b .. Len(text) /\ \A s \in LineStarts(text) : s > b => last <= s
  BY <1>1, <1>4, <1>5, <1>6
<1> QED
  BY <1>0, <1>4, <1>7 DEF b, n
\* What CaretsUnderTheText says of one span of a text.
CaretsUnder(text, begin, end) ==
  LET carets == Carets(text, begin, end)
      newlines == { i \in 1 .. begin : text[i] = "\n" }
      line == LineSpan(text, carets.line)
      shown == ExpandTabs(LineText(text, carets.line))
      under == { c \in 1 .. Len(shown) : line[1] + shown[c] - 1 \in begin .. end - 1 }
  IN /\ carets.line = 1 + Cardinality(newlines)
     /\ under = (carets.first + 1 .. carets.first + carets.width) \cap DOMAIN shown

LEMMA SpansHaveCarets ==
  ASSUME NEW S, NEW text \in Seq(S), NEW begin \in Nat, NEW end \in Nat,
         begin < end, end <= Len(text)
  PROVE  CaretsUnder(text, begin, end)
<1> DEFINE n == Cardinality(StartsBefore(text, begin))
           b == LineBegin(text, begin)
           span == LineSpan(text, n)
           line == LineText(text, n)
           shown == ExpandTabs(line)
           carets == Carets(text, begin, end)
           first == VisualColumn(line, (begin - b) + 1)
           later == Cardinality(StartsBefore(text, end)) # n
           stop == IF later THEN Len(shown) ELSE VisualColumn(line, (end - b) + 1)
           width == IF stop > first THEN stop - first ELSE 1
           under == { c \in 1 .. Len(shown) : span[1] + shown[c] - 1 \in begin .. end - 1 }
<1>1. /\ Len(text) \in Nat /\ begin \in 0 .. Len(text) /\ end \in 0 .. Len(text)
      /\ b \in Nat /\ b <= begin
  <2>1. Len(text) \in Nat
    OBVIOUS
  <2>2. LineBegin(text, begin) \in Nat /\ LineBegin(text, begin) <= begin
    BY <2>1, StartsAre
  <2> QED
    BY <2>1, <2>2
<1>2. n = 1 + Cardinality({ i \in 1 .. begin : text[i] = "\n" })
  BY <1>1, LinesCounted
<1>3. /\ span[1] = b /\ span[2] \in b .. Len(text)
      /\ \A s \in LineStarts(text) : s > b => span[2] <= s
  BY <1>1, LineSpanIs
<1>4. ~later => LineBegin(text, end) = b
  BY <1>1, SameLine DEF LineBegin
<1>5. /\ Locate(text, begin).line = n /\ Locate(text, begin).column = (begin - b) + 1
      /\ Locate(text, end).line = Cardinality(StartsBefore(text, end))
      /\ Locate(text, end).column = (end - LineBegin(text, end)) + 1
  BY <1>1, LocateIs
<1>6. carets = [line |-> n, first |-> first, width |-> width]
  <2> HIDE DEF n, b
  <2> QED
    BY <1>4, <1>5 DEF Carets
<1>7. Len(line) \in Nat /\ Len(line) = span[2] - b
  <2>1. line = SubSeq(text, b + 1, span[2])
    BY <1>3 DEF LineText
  <2>2. b + 1 \in 1 .. Len(text) + 1 /\ span[2] \in b .. Len(text)
    BY <1>1, <1>3
  <2> HIDE DEF line, span, b
  <2>3. Len(SubSeq(text, b + 1, span[2])) = span[2] - b
    BY <1>1, <2>2
  <2> QED
    BY <1>1, <2>1, <2>2, <2>3
<1> HIDE DEF n, b, span, line, later
<1>8. begin - b \in Nat /\ end - b \in Nat /\ begin - b < end - b
  BY <1>1
<1>9. /\ first \in Nat /\ VisualColumn(line, (end - b) + 1) \in Nat
      /\ first < VisualColumn(line, (end - b) + 1)
  BY <1>7, <1>8, VisualColumnsGrow
<1>10. shown \in Seq(Nat) /\ Len(shown) \in Nat
  BY <1>7, ExpandTabsShows DEF Cells
<1>11. ASSUME NEW c \in 1 .. Len(shown)
       PROVE  /\ shown[c] \in 1 .. Len(line)
              /\ first < c <=> begin - b < shown[c]
              /\ VisualColumn(line, (end - b) + 1) < c <=> end - b < shown[c]
  BY <1>7, <1>8, ShownAfter
<1> DEFINE over == VisualColumn(line, (end - b) + 1)
<1>12. later => b + Len(line) <= end
  <2> SUFFICES ASSUME later PROVE b + Len(line) <= end
    OBVIOUS
  <2>1. PICK s \in LineStarts(text) : begin < s /\ s <= end
    BY <1>1, SameLine DEF later, n
  <2>2. s \in Nat
    BY <1>1, StartsAre
  <2> QED
    BY <1>1, <1>3, <1>7, <2>1, <2>2
<1> HIDE DEF first, shown, over
<1>13. ASSUME NEW c \in 1 .. Len(shown)
       PROVE  span[1] + shown[c] - 1 \in begin .. end - 1
                <=> c \in first + 1 .. first + width
  <2>0. PICK k \in 1 .. Len(line) : k = shown[c]
    BY <1>11
  <2>1. /\ first < c <=> begin - b < k
        /\ over < c <=> end - b < k
    BY <1>11, <2>0 DEF over
  <2>2. b + k - 1 \in begin .. end - 1 <=> (begin - b < k /\ k <= end - b)
    BY <1>1, <1>7
  <2>3. CASE later
    <3>1. b + k - 1 \in begin .. end - 1 <=> first < c
      BY <1>1, <1>7, <1>12, <2>1, <2>2, <2>3
    <3>2. c \in first + 1 .. first + width <=> first < c
      <4>1. stop = Len(shown)
        BY <2>3
      <4>2. CASE Len(shown) > first
        <5>1. width = Len(shown) - first
          BY <4>1, <4>2
        <5> HIDE DEF width
        <5> QED
          BY <1>9, <1>10, <4>2, <5>1
      <4>3. CASE ~(Len(shown) > first)
        <5>1. width = 1
          BY <4>1, <4>3
        <5> HIDE DEF width
        <5> QED
          BY <1>9, <1>10, <4>3, <5>1
      <4> QED
        BY <4>2, <4>3
    <3> HIDE DEF width
    <3> QED
      BY <1>3, <2>0, <3>1, <3>2
  <2>4. CASE ~later
    <3>1. over \in Nat /\ first < over /\ width = over - first
      BY <1>9, <2>4 DEF over
    <3> HIDE DEF width
    <3>2. c \in first + 1 .. first + width <=> (first < c /\ ~(over < c))
      BY <1>9, <1>10, <3>1
    <3>3. b + k - 1 \in begin .. end - 1 <=> (first < c /\ ~(over < c))
      BY <1>1, <1>7, <2>1, <2>2
    <3> QED
      BY <1>3, <2>0, <3>2, <3>3
  <2> QED
    BY <2>3, <2>4
<1>14. under = (first + 1 .. first + width) \cap DOMAIN shown
  <2>1. DOMAIN shown = 1 .. Len(shown)
    BY <1>10
  <2> HIDE DEF width
  <2> QED
    BY <1>13, <2>1
<1>15. carets.line = n /\ carets.first = first /\ carets.width = width
  <2> HIDE DEF carets, width
  <2> QED
    BY <1>6
<1> HIDE DEF carets, width, under
<1>16. /\ LineSpan(text, carets.line) = span
       /\ ExpandTabs(LineText(text, carets.line)) = shown
  BY <1>15 DEF span, shown, line
<1> QED
  BY <1>2, <1>14, <1>15, <1>16 DEF CaretsUnder, carets, under
-----------------------------------------------------------------------------
(* Errors are in the file.                                                   *)

ErrorsInFile ==
  /\ IsSequence(errors)
  /\ \A k \in 1 .. Len(errors) :
       /\ errors[k].begin \in Nat /\ errors[k].end \in Nat
       /\ errors[k].begin < errors[k].end /\ errors[k].end <= Size

\* The report of a code point counts back over its digits and what is before them.
CaretInv ==
  /\ TokensInv /\ IsSequence(file) /\ ErrorsInFile
  /\ mode = "block" => start + 2 <= at
  /\ mode = "codepoint" => IsSequence(digits) /\ Len(digits) + 3 <= at

LEMMA CaretStep ==
  ASSUME CaretInv, Next
  PROVE  CaretInv'
<1>t. TokensInv' /\ Cursor'
  BY TokensStep DEF CaretInv, TokensInv
<1>p. /\ Size \in Nat /\ at \in Nat /\ start \in Nat /\ at <= Size /\ start <= at
      /\ Cursor /\ ErrorsInFile
  BY DEF CaretInv, TokensInv, Cursor
<1>q. at' \in Nat /\ at' <= Size'
  BY <1>t DEF Cursor
<1>f. file' = file
  BY DEF Next, Space, LineComment, InLineComment, BlockComment, InBlockComment, OpenComment,
         Word, InWord, Number, InRadix, InWhole, InFraction, InExponent, String, EndString,
         InString, Escape, InCodePoint, Symbol, Junk, InJunk, Finish, Ended, vars
<1>k. ASSUME errors' = errors
      PROVE  ErrorsInFile'
  BY <1>f, <1>k, <1>p DEF ErrorsInFile, IsSequence, Size
<1>r. ASSUME NEW code, NEW from \in Nat, NEW to \in Nat, from < to, to <= Size,
             Report(code, from, to)
      PROVE  ErrorsInFile'
  <2> DEFINE e == [code |-> code, begin |-> from, end |-> to]
  <2>1. e.begin = from /\ e.end = to /\ errors' = Append(errors, e)
    BY <1>r DEF Report
  <2> HIDE DEF e
  <2>2. /\ IsSequence(errors') /\ Len(errors) \in Nat /\ Len(errors') = Len(errors) + 1
        /\ \A k \in 1 .. Len(errors) : errors'[k] = errors[k]
        /\ errors'[Len(errors) + 1] = e
    BY <1>p, <2>1, Appended DEF ErrorsInFile, Grows
  <2>3. Size' = Size
    BY <1>f DEF Size
  <2>4. ASSUME NEW k \in 1 .. Len(errors')
        PROVE  /\ errors'[k].begin \in Nat /\ errors'[k].end \in Nat
               /\ errors'[k].begin < errors'[k].end /\ errors'[k].end <= Size
    <3>1. k \in 1 .. Len(errors) \/ k = Len(errors) + 1
      BY <2>2
    <3> QED
      BY <1>p, <1>r, <2>1, <2>2, <3>1 DEF ErrorsInFile
  <2> QED
    BY <2>2, <2>3, <2>4 DEF ErrorsInFile
<1>g. ASSUME NEW base, PushInteger(base), start < at
      PROVE  ErrorsInFile'
  <2>1. Report("E0005", start, at) \/ errors' = errors
    BY <1>g DEF PushInteger, Quiet
  <2> QED
    BY <1>g, <1>k, <1>p, <1>r, <2>1
<1>e. ErrorsInFile'
  <2>1. CASE OpenComment
    <3>1. start + 2 <= Size /\ start + 2 \in Nat /\ Report("E0004", start, start + 2)
      BY <1>p, <2>1 DEF OpenComment, CaretInv
    <3> QED
      BY <1>p, <1>r, <3>1
  <2>2. CASE InRadix
    <3>1. mode = "radix" /\ start < at
      BY <1>p, <2>2 DEF InRadix, Cursor, Consuming
    <3>2. \/ errors' = errors
          \/ Report("E0006", start, at)
          \/ PushInteger(Base(file[start + 2]))
      BY <2>2 DEF InRadix, Quiet
    <3> QED
      BY <1>g, <1>k, <1>p, <1>r, <3>1, <3>2
  <2>3. CASE InWhole
    <3>1. CASE Quiet
      BY <1>k, <3>1 DEF Quiet
    <3>2. CASE Peek(0) \notin DecimalDigits \cup {Separator} /\ PushInteger(10)
      <4>1. mode = "whole"
        BY <2>3 DEF InWhole
      <4>2. start < at
        BY <1>p, <3>2, <4>1 DEF Cursor, Peek
      <4> QED
        BY <1>g, <3>2, <4>2
    <3> QED
      BY <2>3, <3>1, <3>2 DEF InWhole
  <2>4. CASE EndString
    <3>1. start < at /\ at <= at'
      BY <1>p, <2>4 DEF EndString, Cursor, Consuming
    <3>2. start < at' /\ at' <= Size
      BY <1>f, <1>p, <1>q, <3>1 DEF Size
    <3>3. Report("E0008", start, at') \/ errors' = errors
      BY <2>4 DEF EndString, Quiet
    <3> QED
      BY <1>k, <1>p, <1>q, <1>r, <3>2, <3>3
  <2>5. CASE Escape
    <3>1. errors' = errors \/ (at + 1 < Size /\ Report("E0007", at, at + 2))
      BY <2>5 DEF Escape, Quiet
    <3>2. CASE at + 1 < Size /\ Report("E0007", at, at + 2)
      <4>1. at + 2 \in Nat /\ at < at + 2 /\ at + 2 <= Size
        BY <1>p, <3>2
      <4> QED
        BY <1>p, <1>r, <3>2, <4>1
    <3> QED
      BY <1>k, <3>1, <3>2
  <2>6. CASE InCodePoint
    <3>1. errors' = errors \/ (at <= at' /\ Report("E0007", at - Len(digits) - 3, at'))
      BY <1>p, <2>6 DEF InCodePoint, Quiet, Taken
    <3>2. CASE at <= at' /\ Report("E0007", at - Len(digits) - 3, at')
      <4>1. IsSequence(digits) /\ Len(digits) + 3 <= at
        BY <2>6 DEF InCodePoint, CaretInv
      <4>2. Len(digits) \in Nat
        BY <4>1 DEF IsSequence
      <4>3. at - Len(digits) - 3 \in Nat /\ at - Len(digits) - 3 < at' /\ at' <= Size
        BY <1>f, <1>p, <1>q, <3>2, <4>1, <4>2 DEF Size
      <4> QED
        BY <1>q, <1>r, <3>2, <4>3
    <3> QED
      BY <1>k, <3>1, <3>2
  <2>7. CASE Symbol
    <3>1. at < at' /\ at' <= Size
      BY <1>f, <1>p, <1>q, <2>7 DEF Symbol, Size
    <3>2. errors' = errors \/ Report("E0009", at, at')
      BY <2>7 DEF Symbol, Quiet
    <3> QED
      BY <1>k, <1>p, <1>q, <1>r, <3>1, <3>2
  <2>8. CASE InJunk
    <3>1. start < at
      BY <1>p, <2>8 DEF InJunk, Cursor, Consuming
    <3>2. errors' = errors \/ Report("E0010", start, at)
      BY <2>8 DEF InJunk, Quiet
    <3> QED
      BY <1>k, <1>p, <1>r, <3>1, <3>2
  <2>9. CASE errors' = errors
    BY <1>k, <2>9
  <2> QED
    BY <2>1, <2>2, <2>3, <2>4, <2>5, <2>6, <2>7, <2>8, <2>9
       DEF Next, Space, LineComment, InLineComment, BlockComment, InBlockComment,
           Word, InWord, Number, InFraction, InExponent, String, InString, Junk, Finish,
           Ended, vars
<1>b. mode' = "block" => start' + 2 <= at'
  <2>1. CASE mode = "block" /\ mode' = "block"
    <3>1. InBlockComment
      BY <2>1 DEF Next, Space, LineComment, InLineComment, BlockComment, OpenComment,
             Word, InWord, Number, InRadix, InWhole, InFraction, InExponent, String, EndString,
             InString, Escape, InCodePoint, Symbol, Junk, InJunk, Finish, Ended
    <3> QED
      BY <1>p, <2>1, <3>1 DEF InBlockComment, CaretInv
  <2>2. CASE mode # "block" /\ mode' = "block"
    <3>1. BlockComment
      BY <2>2 DEF Next, Space, LineComment, InLineComment, InBlockComment, OpenComment,
             Word, InWord, Number, InRadix, InDigits, InWhole, EnterExponent, InFraction,
             InExponent, String, EndString, InString, Escape, InCodePoint, Symbol, CheckLimit,
             Junk, InJunk, Finish, Ended, vars
    <3> QED
      BY <1>p, <3>1 DEF BlockComment
  <2> QED
    BY <2>1, <2>2
<1>d. mode' = "codepoint" => IsSequence(digits') /\ Len(digits') + 3 <= at'
  <2>1. CASE mode = "codepoint" /\ mode' = "codepoint"
    <3>1. InCodePoint
      BY <2>1 DEF Next, Space, LineComment, InLineComment, BlockComment, InBlockComment,
             OpenComment, Word, InWord, Number, InRadix, InWhole, InFraction, InExponent, String,
             EndString, InString, Escape, Symbol, Junk, InJunk, Finish, Ended
    <3>2. /\ IsSequence(digits) /\ Len(digits) + 3 <= at
          /\ at' = at + 1 /\ digits' = Append(digits, Peek(0))
      BY <2>1, <3>1 DEF InCodePoint, CaretInv
    <3>3. IsSequence(digits') /\ Len(digits) \in Nat /\ Len(digits') = Len(digits) + 1
      BY <3>2, Appended DEF Grows
    <3> QED
      BY <1>p, <3>2, <3>3
  <2>2. CASE mode # "codepoint" /\ mode' = "codepoint"
    <3>1. Escape
      BY <2>2 DEF Next, Space, LineComment, InLineComment, BlockComment, InBlockComment,
             OpenComment, Word, InWord, Number, InRadix, InDigits, InWhole, EnterExponent,
             InFraction, InExponent, String, EndString, InString, InCodePoint, Symbol,
             CheckLimit, Junk, InJunk, Finish, Ended, vars
    <3>2. digits' = <<>> /\ at' = at + 3
      BY <2>2, <3>1 DEF Escape
    <3>3. digits' \in Seq({}) /\ Len(digits') = 0
      BY <3>2
    <3> QED
      BY <1>p, <3>2, <3>3 DEF IsSequence
  <2> QED
    BY <2>1, <2>2
<1> QED
  BY <1>b, <1>d, <1>e, <1>f, <1>t DEF CaretInv, IsSequence

\* For every text: an error of the lexer is shown on the line where it begins, its carets
\* under the columns of its characters on that line, tabs expanded, and under no others.
\* (locate, line_text, expand_tabs, visual_column, render_one)
THEOREM LexerCarets == Spec => []CaretsUnderTheText
<1>1. Init => CaretInv
  <2> SUFFICES ASSUME Init PROVE CaretInv
    OBVIOUS
  <2>1. mode = "token" /\ errors = <<>> /\ file \in Seq(STRING)
    BY LexerAssumption DEF Init
  <2>2. errors \in Seq({}) /\ Len(errors) = 0
    BY <2>1
  <2> QED
    BY <2>1, <2>2, TokensStart DEF CaretInv, ErrorsInFile, IsSequence
<1>2. CaretInv /\ [Next]_vars => CaretInv'
  <2>1. CaretInv /\ UNCHANGED vars => CaretInv'
    BY TokensStutter DEF CaretInv, ErrorsInFile, IsSequence, vars, Size
  <2> QED
    BY <2>1, CaretStep
<1>3. CaretInv => CaretsUnderTheText
  <2> SUFFICES ASSUME CaretInv, NEW k \in 1 .. Len(errors)
               PROVE  CaretsUnder(file, errors[k].begin, errors[k].end)
    BY DEF CaretsUnderTheText, CaretsUnder
  <2>1. /\ errors[k].begin \in Nat /\ errors[k].end \in Nat
        /\ errors[k].begin < errors[k].end /\ errors[k].end <= Len(file)
    BY DEF CaretInv, ErrorsInFile, Size
  <2>2. PICK S : file \in Seq(S)
    BY DEF CaretInv, IsSequence
  <2> QED
    BY <2>1, <2>2, SpansHaveCarets
<1> QED
  BY <1>1, <1>2, <1>3, PTL DEF Spec
=============================================================================
