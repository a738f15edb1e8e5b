---------------------------- MODULE FireParser ----------------------------
(***************************************************************************)
(* The parser: a recursive descent whose call stack is a sequence of       *)
(* goals, what is still to be done with the nearest first. A goal is a     *)
(* token to expect, a procedure that has not looked at its token yet, or a *)
(* note of the kind of expression just read. What a procedure does next    *)
(* depends on the goal and one or two tokens: its rule says by which goals *)
(* it is replaced.                                                         *)
(*                                                                         *)
(* A syntax error throws to the nearest loop over statements, the top one  *)
(* or a block's, which skips tokens and goes on (panic mode).              *)
(*                                                                         *)
(* Tokens are classes of tokens that the parser treats alike: "int" stands *)
(* for the types that convert, "+" for all operators that are only binary, *)
(* "!" for those only unary, "+=" for compound assignments. Which tree is  *)
(* built, and the precedence of binary operators, are left out: they       *)
(* decide no error.                                                        *)
(***************************************************************************)
EXTENDS Naturals, Sequences, FiniteSetsExt

CONSTANTS
  Files,        \* what may be parsed: records [tokens, derived, broken] of tokens
                \* that end in "eof", whether the grammar derives them, and the
                \* stretches <<first, last>> of them that end in their only
                \* semicolon, have no brace in or before them, and are no program
  LexErrors,    \* how many errors the lexer may have reported before
  ErrorLimit    \* kErrorLimit

\* Tokens by the names that token.hpp has for them.
LBrace    == "{"
RBrace    == "}"
Comma     == ","
Semicolon == ";"

Tokens ==
  { "fn", "let", "if", "elif", "else", "while", "for", "in", "return", "break",
    LBrace, RBrace, "(", ")", "[", "]", Comma, Semicolon, ":", "->", "..",
    "=", "+=", "+", "-", "!", "id", "lit", "int", "void" }

ASSUME FilesAssumption ==
  \A f \in Files :
    /\ f.tokens \in Seq(Tokens \cup {"eof"}) /\ f.tokens # <<>>
    /\ \A i \in 1 .. Len(f.tokens) : f.tokens[i] = "eof" <=> i = Len(f.tokens)

ASSUME LimitAssumption == ErrorLimit \in Nat \ {0} /\ LexErrors \subseteq Nat

VARIABLES
  file,     \* the file parsed
  at,       \* m_index, from 1
  goals,    \* the call stack
  kind,     \* the kind of the expression read last
  errors    \* the positions of the errors reported, 0 for those of the lexer

vars == <<file, at, goals, kind, errors>>

ExprKinds == {"Name", "Index", "Other"}

\* The goals whose loop catches an error: parse_program's and parse_block's.
Handlers == {"Items", "Statements"}

Goals ==
  Tokens \cup ExprKinds \cup Handlers \cup
  { "Function", "Parameters", "MoreParameters", "Returns", "Type", "Block", "Body", "Statement",
    "Annotation", "Alternative", "Range", "Value", "Assignment", "Target",
    "Expression", "Binary", "Unary", "Postfix", "Primary",
    "Elements", "MoreElements", "Arguments", "MoreArguments", "Error" }

\* m_tokens
tokens == file.tokens

Init ==
  /\ file \in Files
  /\ at = 1
  /\ goals = <<"Items">>
  /\ kind = "Other"
  /\ \E n \in LexErrors : errors = [i \in 1 .. n |-> 0]

---------------------------------------------------------------------------
Peek(offset) == tokens[IF at + offset <= Len(tokens) THEN at + offset ELSE Len(tokens)]

Previous(i) == tokens[IF i > 1 THEN i - 1 ELSE 1]

AtEnd   == Peek(0) = "eof"
AtLimit == Len(errors) >= ErrorLimit

StatementWords == {"fn", "let", "if", "while", "for", "return", "break", RBrace}

\* Mutant: a broken statement ends where a keyword starts another.
ResumesAtKeyword(i) == tokens[i] = "eof" \/ tokens[i] \in StatementWords

\* Where synchronize stops: a semicolon or brace ends the broken statement, a
\* keyword or a closing brace starts the next one.
ResumesAt(i) ==
  \/ tokens[i] = "eof"
  \/ Previous(i) \in {Semicolon, RBrace}
  \/ tokens[i] \in StatementWords

---------------------------------------------------------------------------
(* The rules. "Error" is a goal that no token meets.                       *)

\* parse_program's loop.
ItemsRule(t) ==
  CASE t = "eof" \/ AtLimit -> <<>>
    [] t = "fn" /\ ~AtLimit -> <<"Function", "Items">>
    [] OTHER                -> <<"Statement", "Items">>

TypeRule(t) ==
  CASE t = "["               -> <<"[", "Type", "]">>
    [] t \in {"int", "void"} -> <<t>>
    [] OTHER                 -> <<"Error">>

\* parse_function, whose parameters are separated by commas.
FunctionRule(goal, t) ==
  CASE goal = "Function"   -> <<"fn", "id", "(", "Parameters", ")", "Returns", "Block">>
    [] goal = "Parameters" -> IF t = ")" THEN <<>> ELSE <<"id", ":", "Type", "MoreParameters">>
    [] goal = "MoreParameters" ->
         IF t = Comma THEN <<Comma, "id", ":", "Type", "MoreParameters">> ELSE <<>>
    [] goal = "Returns" -> IF t = "->" THEN <<"->", "Type">> ELSE <<>>

\* Mutant: the loop over a block's statements does not watch the limit.
BlockUnlimited(goal, t) ==
  CASE goal = "Block"                                 -> <<LBrace, "Body">>
    [] goal = "Body"                                  -> <<"Statements", RBrace>>
    [] goal = "Statements" /\ t \in {RBrace, "eof"}   -> <<>>
    [] goal = "Statements" /\ t = "fn"                -> <<"Error", "Statements">>
    [] OTHER                                          -> <<"Statement", "Statements">>

\* parse_block, whose loop catches errors once the brace is read. A function in
\* a block is an error that this loop itself catches.
BlockRule(goal, t) ==
  CASE goal = "Block"                                            -> <<LBrace, "Body">>
    [] goal = "Body"                                             -> <<"Statements", RBrace>>
    [] goal = "Statements" /\ (t \in {RBrace, "eof"} \/ AtLimit) -> <<>>
    [] goal = "Statements" /\ t = "fn" /\ ~AtLimit               -> <<"Error", "Statements">>
    [] OTHER                                                     -> <<"Statement", "Statements">>

StatementRule(t) ==
  CASE t = "let"     -> <<"let", "id", "Annotation", "=", "Expression", Semicolon>>
    [] t = "if"      -> <<"if", "Expression", "Block", "Alternative">>
    [] t = "while"   -> <<"while", "Expression", "Block">>
    [] t = "for"     -> <<"for", "id", "in", "Expression", "Range", "Block">>
    [] t = "return"  -> <<"return", "Value", Semicolon>>
    [] t = "break"   -> <<"break", Semicolon>>
    [] t = LBrace    -> <<"Block">>
    [] t = Semicolon -> <<Semicolon>>
    [] OTHER         -> <<"Expression", "Assignment">>

\* What may follow the first part of a statement. The operator of an assignment
\* is read before its target is judged.
TailRule(goal, t) ==
  CASE goal = "Annotation" -> IF t = ":" THEN <<":", "Type">> ELSE <<>>
    [] goal = "Alternative" ->
         (CASE t = "elif" -> <<"elif", "Expression", "Block", "Alternative">>
            [] t = "else" -> <<"else", "Block">>
            [] OTHER      -> <<>>)
    [] goal = "Range" -> IF t = ".." THEN <<"..", "Expression">> ELSE <<>>
    [] goal = "Value" -> IF t = Semicolon THEN <<>> ELSE <<"Expression">>
    [] goal = "Assignment" ->
         IF t \in {"=", "+="} THEN <<t, "Target", "Expression", Semicolon>> ELSE <<Semicolon>>
    [] goal = "Target" -> IF kind \in {"Name", "Index"} THEN <<>> ELSE <<"Error">>

\* An expression is a name if it is a name, in parentheses or not, and nothing
\* else; an index expression likewise.
ExpressionRule(goal, t) ==
  CASE goal = "Expression" -> <<"Unary", "Binary">>
    [] goal = "Binary"  -> IF t \in {"+", "-"} THEN <<t, "Unary", "Other", "Binary">> ELSE <<>>
    [] goal = "Unary"   -> IF t \in {"-", "!"} THEN <<t, "Unary", "Other">>
                           ELSE <<"Primary", "Postfix">>
    [] goal = "Postfix" -> IF t = "[" THEN <<"[", "Expression", "]", "Index", "Postfix">> ELSE <<>>

\* A type word converts if a parenthesis follows; elsewhere it is no value.
PrimaryRule(t) ==
  CASE t = "lit"                   -> <<"lit", "Other">>
    [] t = "("                     -> <<"(", "Expression", ")">>
    [] t = "["                     -> <<"[", "Elements", "]", "Other">>
    [] t = "id" /\ Peek(1) # "("   -> <<"id", "Name">>
    [] t \in {"id", "int"} /\ Peek(1) = "(" -> <<t, "(", "Arguments", ")", "Other">>
    [] OTHER                       -> <<"Error">>

\* Mutant: a comma must be followed by another element.
ListStrict(goal, t) ==
  CASE goal = "Elements"      -> IF t = "]" THEN <<>> ELSE <<"Expression", "MoreElements">>
    [] goal = "MoreElements"  -> IF t = Comma THEN <<Comma, "Expression", "MoreElements">> ELSE <<>>
    [] goal = "Arguments"     -> IF t = ")" THEN <<>> ELSE <<"Expression", "MoreArguments">>
    [] goal = "MoreArguments" ->
         IF t = Comma THEN <<Comma, "Expression", "MoreArguments">> ELSE <<>>

\* Elements and arguments; a comma may follow the last.
ListRule(goal, t) ==
  CASE goal = "Elements"      -> IF t = "]" THEN <<>> ELSE <<"Expression", "MoreElements">>
    [] goal = "MoreElements"  -> IF t = Comma THEN <<Comma, "Elements">> ELSE <<>>
    [] goal = "Arguments"     -> IF t = ")" THEN <<>> ELSE <<"Expression", "MoreArguments">>
    [] goal = "MoreArguments" -> IF t = Comma THEN <<Comma, "Arguments">> ELSE <<>>

Rule(goal, t) ==
  CASE goal = "Items"                 -> ItemsRule(t)
    [] goal \in {"Function", "Parameters", "MoreParameters", "Returns"} -> FunctionRule(goal, t)
    [] goal = "Type"                  -> TypeRule(t)
    [] goal \in {"Block", "Body", "Statements"} -> BlockRule(goal, t)
    [] goal = "Statement"             -> StatementRule(t)
    [] goal \in {"Annotation", "Alternative", "Range", "Value", "Assignment", "Target"} ->
         TailRule(goal, t)
    [] goal \in {"Expression", "Binary", "Unary", "Postfix"} -> ExpressionRule(goal, t)
    [] goal = "Primary"               -> PrimaryRule(t)
    [] goal \in {"Elements", "MoreElements", "Arguments", "MoreArguments"} -> ListRule(goal, t)

---------------------------------------------------------------------------
(* The steps.                                                              *)

\* expect, match, advance: the token is the one wanted.
Consume ==
  /\ goals # <<>> /\ Head(goals) \in Tokens
  /\ Peek(0) = Head(goals)
  /\ at' = at + 1
  /\ goals' = Tail(goals)
  /\ UNCHANGED <<file, kind, errors>>

\* An expression is complete.
Note ==
  /\ goals # <<>> /\ Head(goals) \in ExprKinds
  /\ kind' = Head(goals)
  /\ goals' = Tail(goals)
  /\ UNCHANGED <<file, at, errors>>

\* A procedure looks at its token and decides.
Decide ==
  /\ goals # <<>> /\ Head(goals) \in Goals \ (Tokens \cup ExprKinds \cup {"Error"})
  /\ goals' = Rule(Head(goals), Peek(0)) \o Tail(goals)
  /\ UNCHANGED <<file, at, kind, errors>>

\* Mutant: a position is reported once, to spare the reader repetitions.
ReportOnce(i) == IF \E e \in 1 .. Len(errors) : errors[e] = i THEN errors ELSE Append(errors, i)

Report(i) == Append(errors, i)

\* What the exception leaves of the call stack: the nearest loop, and below.
Unwound == SubSeq(goals, Min({i \in DOMAIN goals : goals[i] \in Handlers}), Len(goals))

\* fail throws, the nearest loop catches and synchronizes.
Fail ==
  /\ goals # <<>>
  /\ Head(goals) = "Error" \/ Head(goals) \in Tokens \ {Peek(0)}
  /\ errors' = Report(at)
  /\ goals' = Unwound
  /\ at' = Min({i \in at .. Len(tokens) : ResumesAt(i)})
  /\ UNCHANGED <<file, kind>>

Next == Consume \/ Note \/ Decide \/ Fail

\* parse_program is one call that nothing suspends.
Spec == Init /\ [][Next]_vars /\ WF_vars(Next)

Done == goals = <<>>

---------------------------------------------------------------------------
(* What the parser promises.                                               *)

\* The positions of the syntax errors.
Mistakes == {errors[i] : i \in DOMAIN errors} \ {0}

\* A comma comes before the parenthesis that closes the parameters of a function.
CommaAfterParameters ==
  \E i, j \in 1 .. Len(tokens) - 1 :
    /\ i + 3 < j
    /\ SubSeq(tokens, i, i + 2) = <<"fn", "id", "(">> /\ SubSeq(tokens, j, j + 1) = <<Comma, ")">>
    /\ \A k \in i + 3 .. j - 1 : tokens[k] # ")"

\* A file is accepted without an error only if the grammar derives it, and every
\* file that the grammar derives is, but for one with a comma after the last
\* parameter, which parse_function does not expect.
AcceptsTheGrammar ==
  Done /\ ~AtLimit =>
    /\ Mistakes = {} => file.derived
    /\ file.derived /\ ~CommaAfterParameters => Mistakes = {}

\* "A genuinely broken file still reports every independent mistake"
\* (parser.hpp): a broken statement with its semicolon has an error of its own,
\* however many there are before it.
MistakesReported ==
  Done /\ ~AtLimit =>
    \A piece \in file.broken : \E i \in Mistakes : piece[1] <= i /\ i <= piece[2]

\* Once the limit is reached, by the lexer's errors or by its own, the parser
\* reports at most the missing brace of every open block.
ErrorsBounded ==
  LET own == Cardinality({k \in DOMAIN errors : errors[k] # 0})
  IN own <= Max({0, ErrorLimit - (Len(errors) - own)})
            + Cardinality({i \in DOMAIN tokens : tokens[i] = LBrace})

\* The parser ends on every input. Recovery need not skip a token (a stray
\* brace stays where it is), so only the count of errors stops it there.
ParserStops == <>Done
=============================================================================
