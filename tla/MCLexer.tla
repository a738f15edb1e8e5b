------------------------------ MODULE MCLexer ------------------------------
(***************************************************************************)
(* All short texts over the characters that each of the lexer's loops      *)
(* tells apart, alone and where the loops meet.                            *)
(***************************************************************************)
EXTENDS FireLexicon

\* All texts of at most a length over an alphabet, after a beginning.
Over(alphabet, length) == UNION { [1 .. n -> alphabet] : n \in 0 .. length }
After(beginning, texts) == { beginning \o t : t \in texts }

Texts == UNION {
  \* bases, separators, the range of `int`
  Over({"0", "b", "1", "_", "2"}, 4),
  After(<<"0">>, Over({"x", "o", "f", "8", "_", "."}, 3)),
  \* fractions, exponents, ranges
  Over({"1", "e", ".", "+", "_"}, 5),
  \* comments in comments, and next to words
  Over({"/", "*", "a", "\n"}, 5),
  Over({"/", "*"}, 7),
  \* strings, escapes, comment openers and newlines inside
  Over({"\"", "\\", "n", "\n", "/"}, 5),
  After(<<"\"", "\\", "u">>, Over({"{", "}", "1", "\"", "\\"}, 4)),
  After(<<"\"", "\\", "u", "{", "1">>, Over({"1", "0", "}", "\""}, 4)),
  After(<<"\"", "\\", "u", "{">>, { <<"1", "0", "f", "F", "f", "f", "}", "\"">>,
                                    <<"1", "1", "0", "0", "0", "0", "}", "\"">>,
                                    <<"0", "0", "0", "0", "0", "4", "1", "}", "\"">> }),
  After(<<"\"", "\\", "x">>, Over({"a", "g", "\"", "\\"}, 4)),
  \* symbols of one and of two characters
  Over({"-", ">", "=", "<", "&", ".", "!"}, 3),
  Over({"|", "+", "/", "=", ")"}, 3),
  \* words and keywords
  Over({"i", "f", "n", " ", "1"}, 3),
  \* junk, and errors past the limit
  Over({"@", "#", "."}, 5),
  After(<<"0", "x", "@", "0", "x">>, Over({"@", "#", "0", "x", "g"}, 3)),
  \* lines, tabs and carriage returns before an error and inside one
  Over({"\t", "@", "\n", "\r"}, 4),
  After(<<"\t", "\"">>, Over({"\t", "\n", "\r", "\\"}, 3)) }

MCFiles == LET texts == Texts IN texts
=============================================================================
