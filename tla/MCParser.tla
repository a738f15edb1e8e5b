------------------------------ MODULE MCParser ------------------------------
(***************************************************************************)
(* The parser on programs with every production, and on what becomes of    *)
(* them when a token is lost, added or replaced; and on all short files    *)
(* over a few tokens.                                                      *)
(***************************************************************************)
EXTENDS FireGrammar, FireParser

Samples == {
  << "fn", "id", "(", "id", ":", "[", "int", "]", ",", "id", ":", "void", ")", "->", "int",
     "{", "return", "id", ";", "}" >>,
  << "let", "id", ":", "int", "=", "[", "lit", ",", "]", ";", "fn", "id", "(", ")", "{", "}" >>,
  << "if", "id", "{", "break", ";", "}", "elif", "!", "lit", "{", "}", "else", "{", ";", "}" >>,
  << "for", "id", "in", "lit", "..", "id", "{", "id", "(", "lit", ",", "id", ")", ";", "}" >>,
  << "while", "lit", "{", "let", "id", "=", "int", "(", "id", ")", ";", "}" >>,
  << "id", "[", "-", "lit", "]", "+=", "(", "id", ")", ";", "return", ";" >>,
  << "(", "id", ")", "=", "lit", "+", "id", ";", "{", "id", "=", "id", ";", "}" >>,
  << "for", "id", "in", "id", "{", "if", "lit", "{", "id", ";", "}", "}" >> }

\* Every token is in one of them.
Used == UNION { Range(p) : p \in Samples }

Deleted(s)     == { SubSeq(s, 1, i - 1) \o SubSeq(s, i + 1, Len(s)) : i \in 1 .. Len(s) }
Replaced(s)    == { [s EXCEPT ![i] = t] : i \in 1 .. Len(s), t \in Used }
Inserted(s)    == { SubSeq(s, 1, i) \o <<t>> \o SubSeq(s, i + 1, Len(s)) : i \in 0 .. Len(s), t \in Used }

\* All strings of up to four of the tokens that statements are made of.
Short == UNION { [1 .. n -> {"id", "=", ";", "(", "}", "let"}] : n \in 0 .. 4 }

File(s) ==
  LET f == Append(s, "eof")
  IN [tokens |-> f, derived |-> IsProgram(f), broken |-> BrokenPieces(f)]

Corrupted(p) == {p} \cup Deleted(p) \cup Replaced(p) \cup Inserted(p)

AllFiles == { File(s) : s \in UNION { Corrupted(p) : p \in Samples } \cup Short }

MCFiles == LET files == AllFiles IN files

\* No token goes untried where others are replaced or inserted.
ASSUME EveryTokenUsed == Used = Tokens
=============================================================================
