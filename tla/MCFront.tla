------------------------------ MODULE MCFront ------------------------------
(***************************************************************************)
(* Texts that the front end does not read as the documentation has it.     *)
(***************************************************************************)
EXTENDS FireFront

\* A piece of text, again and again.
Times(n, piece) == FlattenSeq([k \in 1 .. n |-> piece])

\* x=1{x=2;}         a semicolon is missing before the block
MissingSemicolon == <<"x", "=", "1", "{", "x", "=", "2", ";", "}">>

\* fn f(a:int,){}    a comma follows the last parameter
LastComma == <<"f", "n", " ", "f", "(", "a", ":", "i", "n", "t", ",", ")", "{", "}">>

\* 0x_8;             a separator comes before the first digit
EarlySeparator == <<"0", "x", "_", "8", ";">>

\* "\                a backslash takes the newline
\* ";
RawNewline == <<"\"", "\\", "\n", "\"", ";">>

\* 26 prefixes without a digit, which are words to the lexer's loop; and 25
\* mistakes in two blocks that are open when the limit is reached.
BadNumbers == Times(26, <<"0", "x", " ">>)
OpenBlocks == <<"{", "{">> \o Times(25, <<")", ";">>)

\* Each of them alone violates the property; TLC stops at the first.
MCTexts ==
  {MissingSemicolon, LastComma, EarlySeparator, RawNewline, BadNumbers, OpenBlocks}
=============================================================================
