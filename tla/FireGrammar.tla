---------------------------- MODULE FireGrammar ---------------------------
(***************************************************************************)
(* The language of docs/grammar.md over the tokens of FireParser, as an    *)
(* EBNF and the set of positions where a match from a given position may   *)
(* end. The parser is held against it.                                     *)
(***************************************************************************)
EXTENDS Naturals, Sequences

LOCAL OneOf(ts) == [form |-> "token", of |-> ts]
LOCAL Tok(t)   == OneOf({t})
LOCAL Sym(n)   == [form |-> "symbol", of |-> n]
LOCAL Cat(es)  == [form |-> "all", of |-> es]
LOCAL Or(es)   == [form |-> "one", of |-> es]
LOCAL Many(e)  == [form |-> "many", of |-> <<e>>]
LOCAL Opt(e)   == Or(<<e, Cat(<<>>)>>)
LOCAL List(e)  == Cat(<<e, Many(Cat(<<Tok(","), e>>))>>)
LOCAL Within(open, e, close) == Cat(<<Tok(open), e, Tok(close)>>)

LOCAL Expr  == Sym("expression")
LOCAL Exprs == Opt(Cat(<<List(Expr), Opt(Tok(","))>>))

\* What each symbol stands for.
Productions ==
  [ program    |-> Many(Or(<<Sym("function"), Sym("statement")>>)),
    function   |-> Cat(<<Tok("fn"), Tok("id"), Within("(", Opt(Sym("parameters")), ")"),
                        Opt(Cat(<<Tok("->"), Sym("type")>>)), Sym("block")>>),
    parameters |-> Cat(<<List(Sym("parameter")), Opt(Tok(","))>>),
    parameter  |-> Cat(<<Tok("id"), Tok(":"), Sym("type")>>),
    type       |-> Or(<<Tok("int"), Tok("void"), Within("[", Sym("type"), "]")>>),
    block      |-> Within("{", Many(Sym("statement")), "}"),
    statement  |-> Or(<<
        Cat(<<Tok("let"), Tok("id"), Opt(Cat(<<Tok(":"), Sym("type")>>)), Tok("="), Expr, Tok(";")>>),
        Cat(<<Tok("if"), Expr, Sym("block"), Many(Cat(<<Tok("elif"), Expr, Sym("block")>>)),
              Opt(Cat(<<Tok("else"), Sym("block")>>))>>),
        Cat(<<Tok("while"), Expr, Sym("block")>>),
        Cat(<<Tok("for"), Tok("id"), Tok("in"), Expr, Opt(Cat(<<Tok(".."), Expr>>)), Sym("block")>>),
        Cat(<<Tok("return"), Opt(Expr), Tok(";")>>),
        Cat(<<Tok("break"), Tok(";")>>),
        Sym("block"),
        Cat(<<Sym("target"), OneOf({"=", "+="}), Expr, Tok(";")>>),
        Cat(<<Expr, Tok(";")>>),
        Tok(";") >>),
    \* "The left side of an assignment must be a name or an index expression."
    target     |-> Or(<<Tok("id"), Within("(", Sym("target"), ")"),
                       Cat(<<Sym("primary"), Many(Within("[", Expr, "]")), Within("[", Expr, "]")>>)>>),
    expression |-> Cat(<<Sym("unary"), Many(Cat(<<OneOf({"+", "-"}), Sym("unary")>>))>>),
    unary      |-> Or(<<Cat(<<OneOf({"-", "!"}), Sym("unary")>>), Sym("postfix")>>),
    postfix    |-> Cat(<<Sym("primary"), Many(Within("[", Expr, "]"))>>),
    primary    |-> Or(<<Tok("lit"), Tok("id"), Within("(", Expr, ")"), Within("[", Exprs, "]"),
                       Cat(<<OneOf({"id", "int"}), Within("(", Exprs, ")")>>)>>) ]

\* The positions after a match of e in s that begins at one of the positions.
RECURSIVE Ends(_, _, _), EndsOfAll(_, _, _), EndsOfMany(_, _, _, _)
Ends(s, e, starts) ==
  IF starts = {} THEN {}
  ELSE CASE e.form = "token"  -> {i + 1 : i \in {j \in starts : j <= Len(s) /\ s[j] \in e.of}}
         [] e.form = "symbol" -> Ends(s, Productions[e.of], starts)
         [] e.form = "one"    -> UNION {Ends(s, e.of[i], starts) : i \in 1 .. Len(e.of)}
         [] e.form = "all"    -> EndsOfAll(s, e.of, starts)
         [] e.form = "many"   -> EndsOfMany(s, e.of[1], starts, starts)

EndsOfAll(s, es, starts) ==
  IF es = <<>> \/ starts = {} THEN starts ELSE EndsOfAll(s, Tail(es), Ends(s, Head(es), starts))

\* Of the ends found so far, the repetitions that begin at the last ones are new.
EndsOfMany(s, e, found, last) ==
  LET more == Ends(s, e, last) \ found
  IN IF more = {} THEN found ELSE EndsOfMany(s, e, found \cup more, more)

\* A file is a program if all of it, up to the end marker, is derived.
IsProgram(text) == Len(text) \in Ends(text, Productions["program"], {1})

\* What lies between two semicolons, without a brace, and is no program.
BrokenPieces(text) ==
  LET ends == {i \in 1 .. Len(text) : text[i] = ";"}
      after(i) == {j + 1 : j \in {k \in ends \cup {0} : k < i}}
      piece(i) == <<CHOOSE j \in after(i) : \A k \in after(i) : k <= j, i>>
  IN { p \in {piece(i) : i \in ends} :
         LET s == SubSeq(text, p[1], p[2])
         IN /\ \A i \in 1 .. p[1] - 1 : text[i] \notin {"{", "}"}
            /\ \A i \in 1 .. Len(s) : s[i] \notin {"{", "}"}
            /\ ~IsProgram(Append(s, "eof")) }
=============================================================================
