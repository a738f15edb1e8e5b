----------------------------- MODULE FireFront -----------------------------
(***************************************************************************)
(* The first half of Compilation::analyze: the lexer goes through a text,  *)
(* then the parser through its tokens, and both report to one              *)
(* DiagnosticEngine. The parser starts with the errors that the lexer left *)
(* there, and stops at the same limit.                                     *)
(***************************************************************************)
EXTENDS FireLexicon, FireGrammar, TLC

VARIABLES
  parsed,    \* what the parser was given: tokens, of the kinds it tells apart
  place,     \* its position in them
  goals,     \* its call stack
  kind,      \* the kind of the expression it read last
  reports    \* all errors, by the position of the parser's, 0 for the lexer's

parser == <<parsed, place, goals, kind, reports>>

Parser == INSTANCE FireParser WITH
            Files <- {}, LexErrors <- {},
            file <- parsed, at <- place, errors <- reports

---------------------------------------------------------------------------
(* What the parser sees of a token.                                        *)

WordKinds ==
  <<"f", "n">> :> "fn" @@ <<"l", "e", "t">> :> "let" @@ <<"c", "o", "n", "s", "t">> :> "let"
  @@ <<"i", "f">> :> "if" @@ <<"e", "l", "i", "f">> :> "elif" @@ <<"e", "l", "s", "e">> :> "else"
  @@ <<"w", "h", "i", "l", "e">> :> "while" @@ <<"f", "o", "r">> :> "for" @@ <<"i", "n">> :> "in"
  @@ <<"r", "e", "t", "u", "r", "n">> :> "return" @@ <<"b", "r", "e", "a", "k">> :> "break"
  @@ <<"c", "o", "n", "t", "i", "n", "u", "e">> :> "break"
  @@ <<"t", "r", "u", "e">> :> "lit" @@ <<"f", "a", "l", "s", "e">> :> "lit"
  @@ <<"i", "n", "t">> :> "int" @@ <<"f", "l", "o", "a", "t">> :> "int"
  @@ <<"b", "o", "o", "l">> :> "int" @@ <<"s", "t", "r">> :> "int" @@ <<"v", "o", "i", "d">> :> "void"

\* Single characters that the parser knows by themselves.
Alone == {"(", ")", "{", "}", "[", "]", ",", ";", ":", "=", "-"}

SymbolKind(s) ==
  CASE Len(s) = 1 /\ s[1] \in Alone      -> s[1]
    [] s \in { <<"!">>, <<"~">> }        -> "!"
    [] s = <<"-", ">">>                  -> "->"
    [] s = <<".", ".">>                  -> ".."
    [] Len(s) = 2 /\ s[1] \in {"+", "-", "*", "/", "%"} /\ s[2] = "=" -> "+="
    [] OTHER                             -> "+"

KindOf(t) ==
  CASE t.class = "identifier"               -> "id"
    [] t.class \in {"int", "float", "string"} -> "lit"
    [] t.class = "keyword"                  -> WordKinds[Spelling(t.begin, t.end)]
    [] t.class = "symbol"                   -> SymbolKind(Spelling(t.begin, t.end))
    [] t.class = "eof"                      -> "eof"

Kinds(ts) == [k \in 1 .. Len(ts) |-> KindOf(ts[k])]

---------------------------------------------------------------------------
FrontInit ==
  /\ Init
  /\ parsed = [tokens |-> << >>] /\ place = 1 /\ goals = << >> /\ kind = "Other" /\ reports = << >>

Lex == ~Returned /\ Next /\ UNCHANGED parser

\* The tokens are complete: the parser begins.
HandOver ==
  /\ Returned /\ parsed.tokens = << >>
  /\ parsed' = [tokens |-> Kinds(tokens)]
  /\ goals' = <<"Items">>
  /\ reports' = [k \in 1 .. Len(errors) |-> 0]
  /\ UNCHANGED <<vars, place, kind>>

Parse == parsed.tokens # << >> /\ Parser!Next /\ UNCHANGED vars

Analyzed == parsed.tokens # << >> /\ Parser!Done

FrontEnded == Analyzed /\ UNCHANGED <<vars, parser>>

FrontNext == Lex \/ HandOver \/ Parse \/ FrontEnded

\* Both are calls that nothing suspends.
FrontSpec ==
  FrontInit /\ [][FrontNext]_<<vars, parser>> /\ WF_<<vars, parser>>(FrontNext)

---------------------------------------------------------------------------
(* What the documentation says without a condition.                        *)

\* A semicolon in one place would make it a program, which it is not.
LacksSemicolon(ts) ==
  /\ ~IsProgram(ts)
  /\ \E i \in 0 .. Len(ts) - 1 : IsProgram(SubSeq(ts, 1, i) \o <<";">> \o SubSeq(ts, i + 1, Len(ts)))

\* "`_` may separate digits anywhere after the first one"
\* (docs/language-reference.md): a text of which some number begins with one is
\* not read as such, but as the grammar has it.
SeparatorsAfterDigits == Returned => AsRead(Reading)

\* "A string may not contain a raw newline" (docs/diagnostics.md).
StringsOnOneLine ==
  \A k \in 1 .. Len(tokens) :
    tokens[k].class = "string" => All(tokens[k].begin, tokens[k].end, Range(file) \ {"\n"})

\* A text whose tokens the grammar derives is accepted (docs/grammar.md).
DerivedAccepted == Analyzed /\ errors = << >> /\ IsProgram(parsed.tokens) => reports = << >>

\* "One missing semicolon reports once" (docs/architecture.md).
MissingSemicolonOnce ==
  Analyzed /\ errors = << >> /\ LacksSemicolon(parsed.tokens) => Len(reports) <= 1

\* "A hard cap of 25 errors" (docs/architecture.md).
HardCap == Len(errors) <= ErrorLimit /\ Len(reports) <= ErrorLimit

\* What the pages say of the front end. (tokenize, parse_program)
ReadsAsDocumented ==
  /\ SeparatorsAfterDigits
  /\ StringsOnOneLine
  /\ DerivedAccepted
  /\ MissingSemicolonOnce
  /\ HardCap
=============================================================================
