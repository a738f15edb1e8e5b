------------------------- MODULE FireParserProofs -------------------------
(***************************************************************************)
(* For every file, limit and number of the lexer's errors: the parser      *)
(* stays in the file, each exception finds a loop that catches it, and no  *)
(* more errors are reported than the limit and the opening braces allow.   *)
(*                                                                         *)
(* Why: an error past the limit unwinds to the nearest loop over the       *)
(* statements of a block, and that loop ends. So it costs the parser a     *)
(* block it had opened, for which it had read a brace; Budget counts them. *)
(***************************************************************************)
EXTENDS FireParser, FiniteSetTheorems, SequenceTheorems, WellFoundedInduction, TLAPS

Places(g, goal) == {i \in 1 .. Len(g) : g[i] = goal}

\* The call stack ends in parse_program, and a block's loop is entered only
\* after its brace.
Stacked(g) ==
  /\ g \in Seq(Goals)
  /\ \A i \in 1 .. Len(g) : g[i] = "Items" <=> i = Len(g)
  /\ \A i \in 2 .. Len(g) : g[i] = "Body" => g[i - 1] = LBrace

\* The lexer's errors come first.
Reports(n) ==
  /\ n \in LexErrors /\ n <= Len(errors)
  /\ errors \in Seq(0 .. Len(tokens))
  /\ \A k \in 1 .. Len(errors) : errors[k] = 0 <=> k <= n

\* The opening braces before a position.
BracesBefore(i) == {k \in 1 .. i - 1 : tokens[k] = LBrace}

\* Whether the nearest goal is one of a set, as a number.
Nearest(g, S) == IF g # <<>> /\ Head(g) \in S THEN 1 ELSE 0

\* The loops over a block's statements on the call stack.
Loops(g) == Cardinality(Places(g, "Statements"))

\* Each of them has read its brace. At the limit each error beyond it has cost
\* one more, and the procedure that runs outside of such a loop may cost another.
Budget(n) ==
  /\ Loops(goals) + Nearest(goals, {"Body"}) <= Cardinality(BracesBefore(at))
  /\ AtLimit =>
       Len(errors) + Loops(goals) + Nearest(goals, Goals \ Handlers)
         <= (IF n > ErrorLimit THEN n ELSE ErrorLimit) + Cardinality(BracesBefore(at))

ParserInv ==
  /\ file \in Files
  /\ at \in 1 .. Len(tokens)
  /\ kind \in ExprKinds
  /\ Stacked(goals)
  /\ \E n \in LexErrors : Reports(n) /\ Budget(n)

---------------------------------------------------------------------------
(* Sets of positions.                                                      *)

LEMMA LimitType == ErrorLimit \in Nat \ {0} /\ LexErrors \subseteq Nat
  BY LimitAssumption

\* A set of positions that fits into another one, moved, is not larger.
LEMMA Moved ==
  ASSUME NEW S \in SUBSET Int, NEW T, IsFiniteSet(T), NEW k \in Int,
         \A i \in S : i + k \in T
  PROVE  IsFiniteSet(S) /\ Cardinality(S) \in Nat /\ Cardinality(S) <= Cardinality(T)
<1> DEFINE f == [i \in S |-> i + k]
<1>1. f \in Injection(S, T)
  <2>1. f \in [S -> T]
    OBVIOUS
  <2>2. ASSUME NEW i \in S, NEW j \in S, f[i] = f[j]
        PROVE  i = j
    <3>1. i \in Int /\ j \in Int /\ i + k = j + k
      BY <2>2
    <3> QED
      BY <3>1
  <2> QED
    BY <2>1, <2>2, Zenon DEF Injection, IsInjective
<1> HIDE DEF f
<1>2. IsFiniteSet(S) /\ Cardinality(S) <= Cardinality(T)
  BY <1>1, FS_Injection, Zenon
<1> QED
  BY <1>2, FS_CardinalityType, Zenon

\* The places of a goal in a sequence can be counted.
LEMMA PlacesType ==
  ASSUME NEW g \in Seq(Goals), NEW goal
  PROVE  /\ Places(g, goal) \subseteq 1 .. Len(g)
         /\ IsFiniteSet(Places(g, goal))
         /\ Cardinality(Places(g, goal)) \in Nat
<1>1. Places(g, goal) \subseteq 1 .. Len(g) /\ IsFiniteSet(1 .. Len(g))
  BY FS_Interval DEF Places
<1> QED
  BY <1>1, FS_Subset, FS_CardinalityType, Zenon

LEMMA LoopsType == ASSUME NEW g \in Seq(Goals) PROVE Loops(g) \in Nat
  BY PlacesType DEF Loops

\* What an exception leaves of the call stack has no more loops.
LEMMA LoopsOfSuffix ==
  ASSUME NEW g \in Seq(Goals), NEW m \in 1 .. Len(g)
  PROVE  Loops(SubSeq(g, m, Len(g))) <= Loops(g)
<1> DEFINE s == SubSeq(g, m, Len(g))
<1>1. /\ s \in Seq(Goals) /\ Len(s) = Len(g) - m + 1
      /\ \A i \in 1 .. Len(s) : s[i] = g[i + (m - 1)]
  OBVIOUS
<1> HIDE DEF s
<1>2. \A i \in Places(s, "Statements") : i + (m - 1) \in Places(g, "Statements")
  BY <1>1 DEF Places
<1>3. Places(s, "Statements") \in SUBSET Int /\ m - 1 \in Int
  BY DEF Places
<1> QED
  BY <1>2, <1>3, Moved, PlacesType, Zenon DEF Loops, s

\* A goal that is a loop is one loop more than the goals after it.
LEMMA LoopsOfTail ==
  ASSUME NEW g \in Seq(Goals), g # <<>>
  PROVE  /\ Loops(Tail(g)) <= Loops(g)
         /\ Head(g) = "Statements" => Loops(Tail(g)) + 1 <= Loops(g)
<1> DEFINE s == Tail(g)
           P == Places(g, "Statements")
<1>1. /\ s \in Seq(Goals) /\ Len(s) = Len(g) - 1
      /\ \A i \in 1 .. Len(s) : s[i] = g[i + 1]
      /\ Head(g) = g[1] /\ 1 \in 1 .. Len(g)
  OBVIOUS
<1> HIDE DEF s
<1>2. \A i \in Places(s, "Statements") : i + 1 \in P \ {1}
  BY <1>1 DEF Places
<1>3. Places(s, "Statements") \in SUBSET Int /\ 1 \in Int
  BY DEF Places
<1>4. /\ IsFiniteSet(P) /\ Cardinality(P) \in Nat /\ IsFiniteSet(P \ {1})
      /\ Cardinality(P \ {1}) = IF 1 \in P THEN Cardinality(P) - 1 ELSE Cardinality(P)
  BY PlacesType, FS_RemoveElement, Zenon
<1>5. Loops(s) \in Nat /\ Loops(s) <= Cardinality(P \ {1})
  BY <1>2, <1>3, <1>4, Moved, Zenon DEF Loops
<1>6. Head(g) = "Statements" => 1 \in P
  BY <1>1 DEF Places
<1>7. Loops(g) = Cardinality(P)
  BY DEF Loops
<1> HIDE DEF P
<1> QED
  BY <1>4, <1>5, <1>6, <1>7 DEF s

\* Goals put before others add their loops.
LEMMA LoopsOfJoin ==
  ASSUME NEW r \in Seq(Goals), NEW s \in Seq(Goals)
  PROVE  Loops(r \o s) <= Loops(r) + Loops(s)
<1> DEFINE g == r \o s
           A == Places(g, "Statements") \cap (1 .. Len(r))
           B == Places(g, "Statements") \ (1 .. Len(r))
<1>1. /\ g \in Seq(Goals) /\ Len(g) = Len(r) + Len(s)
      /\ \A i \in 1 .. Len(r) + Len(s) : g[i] = IF i <= Len(r) THEN r[i] ELSE s[i - Len(r)]
  BY ConcatProperties, Zenon
<1> HIDE DEF g
<1>2. Len(r) \in Nat /\ Len(s) \in Nat
  OBVIOUS
<1>3. \A i \in A : i + 0 \in Places(r, "Statements")
  BY <1>1, <1>2 DEF Places
<1>4. \A i \in B : i + (0 - Len(r)) \in Places(s, "Statements")
  BY <1>1, <1>2 DEF Places
<1>5. A \in SUBSET Int /\ B \in SUBSET Int /\ 0 \in Int /\ 0 - Len(r) \in Int /\ A \cap B = {}
  BY <1>2 DEF Places
<1>6. IsFiniteSet(A) /\ Cardinality(A) \in Nat /\ Cardinality(A) <= Loops(r)
  BY <1>3, <1>5, Moved, PlacesType, Zenon DEF Loops
<1>7. IsFiniteSet(B) /\ Cardinality(B) \in Nat /\ Cardinality(B) <= Loops(s)
  BY <1>4, <1>5, Moved, PlacesType, Zenon DEF Loops
<1>8. Places(g, "Statements") = A \cup B
  BY Zenon
<1>9. Loops(g) = Cardinality(A) + Cardinality(B) - Cardinality(A \cap B)
  BY <1>6, <1>7, <1>8, FS_Union, Zenon DEF Loops
<1>10. Cardinality(A \cap B) = 0
  BY <1>5, FS_EmptySet, Zenon
<1> HIDE DEF A, B
<1>11. Loops(r) \in Nat /\ Loops(s) \in Nat
  BY LoopsType
<1> QED
  BY <1>6, <1>7, <1>9, <1>10, <1>11 DEF g

\* The braces before a position can be counted; a brace read is one more.
LEMMA BracesType ==
  ASSUME NEW i \in Int
  PROVE  /\ IsFiniteSet(BracesBefore(i)) /\ Cardinality(BracesBefore(i)) \in Nat
         /\ \A j \in Int : i <= j => Cardinality(BracesBefore(i)) <= Cardinality(BracesBefore(j))
         /\ i >= 1 /\ tokens[i] = LBrace =>
              Cardinality(BracesBefore(i + 1)) = Cardinality(BracesBefore(i)) + 1
<1>1. \A j \in Int : IsFiniteSet(BracesBefore(j))
  <2> TAKE j \in Int
  <2>1. 1 \in Int /\ j - 1 \in Int
    OBVIOUS
  <2>2. BracesBefore(j) \in SUBSET (1 .. j - 1)
    BY Zenon DEF BracesBefore
  <2> QED
    BY <2>1, <2>2, FS_Interval, FS_Subset, Zenon
<1>2. ASSUME NEW j \in Int, i <= j
      PROVE  BracesBefore(i) \subseteq BracesBefore(j)
  <2>1. 1 .. i - 1 \subseteq 1 .. j - 1
    BY <1>2
  <2> QED
    BY <2>1, Zenon DEF BracesBefore
<1>3. ASSUME i >= 1, tokens[i] = LBrace
      PROVE  BracesBefore(i + 1) = BracesBefore(i) \cup {i} /\ i \notin BracesBefore(i)
  <2>0. i \in 1 .. i + 1 - 1 /\ i + 1 - 1 = i
    BY <1>3
  <2>1. \A k : k \in 1 .. i + 1 - 1 <=> k \in 1 .. i - 1 \/ k = i
    BY <2>0, \A k \in 1 .. i : k = i \/ k \in 1 .. i - 1, 1 .. i - 1 \subseteq 1 .. i
  <2>2. i \notin 1 .. i - 1
    OBVIOUS
  <2> QED
    BY <1>3, <2>1, <2>2 DEF BracesBefore
<1> QED
  BY <1>1, <1>2, <1>3, FS_Subset, FS_AddElement, FS_CardinalityType, Zenon

---------------------------------------------------------------------------
(* The rules.                                                              *)

\* The goals that neither handle errors nor lead to a loop that does.
Plain == Goals \ {"Items", "Statements", "Body"}

Deciding == Goals \ (Tokens \cup ExprKinds \cup {"Error"})

\* Where a rule may put the goals that the call stack is measured by.
Shape(goal, r) ==
  /\ r \in Seq(Goals)
  /\ \A i \in 1 .. Len(r) : r[i] = "Items" <=> goal = "Items" /\ i = Len(r)
  /\ \A i \in 1 .. Len(r) : r[i] = "Body" => i = 2 /\ r[1] = LBrace
  /\ \A i \in 1 .. Len(r) :
       r[i] = "Statements" => (goal = "Body" /\ i = 1) \/ (goal = "Statements" /\ i = 2)
  /\ goal = "Body" => r # <<>> /\ r[1] = "Statements"

\* The tokens that have names are none of the goals that have one.
LEMMA NamedTokens ==
  /\ {LBrace, RBrace, Comma, Semicolon} \cap
       (ExprKinds \cup Handlers \cup {"Body", "Error", "eof"}) = {}
  /\ "eof" \notin Tokens
  BY Zenon DEF LBrace, RBrace, Comma, Semicolon, ExprKinds, Handlers, Tokens

LEMMA PlainGoals ==
  /\ Tokens \subseteq Plain /\ ExprKinds \subseteq Plain
  /\ {"Function", "Parameters", "MoreParameters", "Returns", "Type", "Block", "Statement", "Annotation",
      "Alternative", "Range", "Value", "Assignment", "Target", "Expression", "Binary", "Unary",
      "Postfix", "Primary", "Elements", "MoreElements", "Arguments", "MoreArguments", "Error"}
       \subseteq Plain
  /\ {LBrace, RBrace, Comma, Semicolon} \subseteq Tokens
<1>1. Tokens \subseteq Plain
  BY NamedTokens DEF Plain, Goals, Tokens, Handlers
<1> QED
  BY <1>1 DEF Plain, Goals, ExprKinds, Handlers, Tokens

\* A rule without those goals has the shape.
LEMMA PlainShape ==
  ASSUME NEW goal, goal \notin {"Items", "Body"}, NEW r \in Seq(Plain)
  PROVE  Shape(goal, r)
<1>1. r \in Seq(Goals) /\ \A i \in 1 .. Len(r) : r[i] \in Plain
  BY DEF Plain
<1> QED
  BY <1>1 DEF Shape, Plain

LEMMA FunctionShape ==
  ASSUME NEW goal \in {"Function", "Parameters", "MoreParameters", "Returns"}, NEW t
  PROVE  FunctionRule(goal, t) \in Seq(Plain)
  BY PlainGoals DEF FunctionRule, Tokens

LEMMA TypeShape == ASSUME NEW t PROVE TypeRule(t) \in Seq(Plain)
  BY PlainGoals DEF TypeRule, Tokens

LEMMA StatementShape == ASSUME NEW t PROVE StatementRule(t) \in Seq(Plain)
  BY PlainGoals DEF StatementRule, Tokens

LEMMA TailShape ==
  ASSUME NEW goal \in {"Annotation", "Alternative", "Range", "Value", "Assignment", "Target"}, NEW t
  PROVE  TailRule(goal, t) \in Seq(Plain)
  BY PlainGoals DEF TailRule, Tokens

LEMMA ExpressionShape ==
  ASSUME NEW goal \in {"Expression", "Binary", "Unary", "Postfix"}, NEW t
  PROVE  ExpressionRule(goal, t) \in Seq(Plain)
  BY PlainGoals DEF ExpressionRule, Tokens, ExprKinds

LEMMA PrimaryShape == ASSUME NEW t PROVE PrimaryRule(t) \in Seq(Plain)
  BY PlainGoals DEF PrimaryRule, Tokens, ExprKinds

LEMMA ListShape ==
  ASSUME NEW goal \in {"Elements", "MoreElements", "Arguments", "MoreArguments"}, NEW t
  PROVE  ListRule(goal, t) \in Seq(Plain)
  BY PlainGoals DEF ListRule

\* The two loops, and what they do at the limit.
LEMMA ItemsShape ==
  ASSUME NEW t
  PROVE  /\ Shape("Items", ItemsRule(t))
         /\ AtLimit => ItemsRule(t) = <<>>
<1>1. {"Items", "Function", "Statement"} \subseteq Goals
  BY DEF Goals, Handlers
<1> QED
  BY <1>1 DEF ItemsRule, Shape

LEMMA BlockShape ==
  ASSUME NEW goal \in {"Block", "Body", "Statements"}, NEW t
  PROVE  /\ Shape(goal, BlockRule(goal, t))
         /\ goal = "Statements" /\ AtLimit => BlockRule(goal, t) = <<>>
<1>1. {"Statements", "Statement", "Body", "Error", LBrace, RBrace} \subseteq Goals
  BY PlainGoals DEF Plain, Goals, Handlers
<1>2. LBrace \notin {"Items", "Body", "Statements"} /\ RBrace \notin {"Items", "Body", "Statements"}
  BY NamedTokens DEF Handlers
<1>3. CASE goal = "Block"
  BY <1>1, <1>2, <1>3 DEF BlockRule, Shape
<1>4. CASE goal = "Body"
  <2> DEFINE r == <<"Statements", RBrace>>
  <2>1. r \in Seq(Goals) /\ Len(r) = 2 /\ r[1] = "Statements" /\ r[2] = RBrace /\ r # <<>>
    BY <1>1
  <2>2. BlockRule(goal, t) = r
    BY <1>4 DEF BlockRule
  <2> HIDE DEF r
  <2> QED
    <3>1. \A i \in 1 .. Len(r) : i = 1 \/ i = 2
      BY <2>1
    <3>2. \A i \in 1 .. Len(r) : r[i] \notin {"Items", "Body"} /\ (r[i] = "Statements" => i = 1)
      BY <1>2, <2>1, <3>1
    <3>3. Shape("Body", r)
      BY <2>1, <3>2 DEF Shape
    <3> QED
      BY <1>4, <2>2, <3>3
<1>5. CASE goal = "Statements"
  BY <1>1, <1>2, <1>5 DEF BlockRule, Shape
<1> QED
  BY <1>3, <1>4, <1>5

LEMMA RuleShape ==
  ASSUME NEW goal \in Deciding, NEW t
  PROVE  /\ Shape(goal, Rule(goal, t))
         /\ goal \in Handlers /\ AtLimit => Rule(goal, t) = <<>>
<1>1. CASE goal = "Items"
  BY <1>1, ItemsShape DEF Rule, Handlers
<1>2. CASE goal \in {"Block", "Body", "Statements"}
  BY <1>2, BlockShape DEF Rule, Handlers
<1>3. CASE goal \notin {"Items", "Block", "Body", "Statements"}
  <2>1. Rule(goal, t) \in Seq(Plain)
    BY <1>3, FunctionShape, TypeShape, StatementShape, TailShape, ExpressionShape, PrimaryShape,
       ListShape DEF Rule, Deciding, Goals, Handlers
  <2> QED
    BY <1>3, <2>1, PlainShape DEF Handlers
<1> QED
  BY <1>1, <1>2, <1>3

---------------------------------------------------------------------------
(* The steps keep the call stack in shape, and the budget.                 *)

LEMMA StackedTail ==
  ASSUME NEW g, Stacked(g), g # <<>>
  PROVE  /\ Stacked(Tail(g))
         /\ Tail(g) # <<>> /\ Head(Tail(g)) = "Body" => Head(g) = LBrace
         /\ Head(g) = "Items" => Tail(g) = <<>>
<1>1. /\ Tail(g) \in Seq(Goals) /\ Len(Tail(g)) = Len(g) - 1
      /\ \A i \in 1 .. Len(Tail(g)) : Tail(g)[i] = g[i + 1]
      /\ Head(g) = g[1] /\ Len(g) \in Nat \ {0} /\ g \in Seq(Goals)
      /\ Tail(g) # <<>> => Head(Tail(g)) = g[2] /\ Len(g) >= 2
      /\ Len(g) = 1 => Tail(g) = <<>>
  BY DEF Stacked
<1>2. \A i \in 1 .. Len(Tail(g)) : Tail(g)[i] = "Items" <=> i = Len(Tail(g))
  <2> TAKE i \in 1 .. Len(Tail(g))
  <2>1. i + 1 \in 1 .. Len(g) /\ (i + 1 = Len(g) <=> i = Len(Tail(g)))
    BY <1>1
  <2> QED
    BY <1>1, <2>1 DEF Stacked
<1>3. \A i \in 2 .. Len(Tail(g)) : Tail(g)[i] = "Body" => Tail(g)[i - 1] = LBrace
  <2> TAKE i \in 2 .. Len(Tail(g))
  <2>1. i + 1 \in 2 .. Len(g) /\ (i + 1) - 1 = i /\ i - 1 \in 1 .. Len(Tail(g)) /\ (i - 1) + 1 = i
    BY <1>1
  <2>2. Tail(g)[i] = g[i + 1] /\ Tail(g)[i - 1] = g[i]
    BY <1>1, <2>1
  <2> QED
    BY <2>1, <2>2 DEF Stacked
<1>4. Tail(g) # <<>> /\ Head(Tail(g)) = "Body" => Head(g) = LBrace
  <2>1. ASSUME Len(g) >= 2, g[2] = "Body"
        PROVE  g[1] = LBrace
    <3>1. 2 \in 2 .. Len(g) /\ 2 - 1 = 1
      BY <1>1, <2>1
    <3>2. g[2 - 1] = LBrace
      BY <2>1, <3>1, Zenon DEF Stacked
    <3> QED
      BY <3>1, <3>2
  <2> QED
    BY <1>1, <2>1
<1>5. Head(g) = "Items" => Tail(g) = <<>>
  <2>1. 1 \in 1 .. Len(g)
    BY <1>1
  <2>2. g[1] = "Items" => Len(g) = 1
    BY <2>1, Zenon DEF Stacked
  <2> QED
    BY <1>1, <2>2
<1> QED
  BY <1>1, <1>2, <1>3, <1>4, <1>5 DEF Stacked

LEMMA StackedSuffix ==
  ASSUME NEW g, Stacked(g), NEW m \in 1 .. Len(g)
  PROVE  /\ Stacked(SubSeq(g, m, Len(g)))
         /\ SubSeq(g, m, Len(g)) # <<>> /\ Head(SubSeq(g, m, Len(g))) = g[m]
<1> DEFINE s == SubSeq(g, m, Len(g))
<1>1. /\ s \in Seq(Goals) /\ Len(s) = Len(g) - m + 1
      /\ \A i \in 1 .. Len(s) : s[i] = g[i + (m - 1)]
      /\ s # <<>> /\ Head(s) = g[m]
      /\ Len(g) \in Nat \ {0} /\ g \in Seq(Goals)
  <2>1. g \in Seq(Goals)
    BY DEF Stacked
  <2>2. /\ s \in Seq(Goals) /\ Len(s) = Len(g) - m + 1
        /\ \A i \in 1 .. Len(s) : s[i] = g[i + (m - 1)]
        /\ Len(g) \in Nat \ {0}
    BY <2>1
  <2> HIDE DEF s
  <2>3. s # <<>> /\ Head(s) = s[1] /\ 1 \in 1 .. Len(s) /\ 1 + (m - 1) = m
    BY <2>2
  <2> QED
    BY <2>1, <2>2, <2>3
<1> HIDE DEF s
<1>2. \A i \in 1 .. Len(s) : s[i] = "Items" <=> i = Len(s)
  <2> TAKE i \in 1 .. Len(s)
  <2>1. i + (m - 1) \in 1 .. Len(g) /\ (i + (m - 1) = Len(g) <=> i = Len(s))
    BY <1>1
  <2> QED
    BY <1>1, <2>1 DEF Stacked
<1>3. \A i \in 2 .. Len(s) : s[i] = "Body" => s[i - 1] = LBrace
  <2> TAKE i \in 2 .. Len(s)
  <2>1. /\ i + (m - 1) \in 2 .. Len(g) /\ i - 1 \in 1 .. Len(s)
        /\ (i - 1) + (m - 1) = (i + (m - 1)) - 1
    BY <1>1
  <2>2. s[i] = g[i + (m - 1)] /\ s[i - 1] = g[(i + (m - 1)) - 1]
    BY <1>1, <2>1
  <2> QED
    BY <2>1, <2>2 DEF Stacked
<1> QED
  BY <1>1, <1>2, <1>3 DEF s, Stacked

\* A rule in place of its goal.
LEMMA StackedJoin ==
  ASSUME NEW g, Stacked(g), g # <<>>, NEW r, Shape(Head(g), r), Head(g) # LBrace
  PROVE  /\ Stacked(r \o Tail(g))
         /\ r \o Tail(g) # <<>> => Head(r \o Tail(g)) # "Body"
         /\ Head(g) = "Body" => r \o Tail(g) # <<>> /\ Head(r \o Tail(g)) = "Statements"
<1> DEFINE s == Tail(g)
           w == r \o s
<1>1. /\ Stacked(s) /\ s \in Seq(Goals)
      /\ s # <<>> => s[1] # "Body"
      /\ Head(g) = "Items" => s = <<>>
  BY StackedTail DEF Stacked
<1>2. r \in Seq(Goals)
  BY DEF Shape
<1> HIDE DEF s
<1>3. /\ w \in Seq(Goals) /\ Len(w) = Len(r) + Len(s)
      /\ \A i \in 1 .. Len(r) + Len(s) : w[i] = IF i <= Len(r) THEN r[i] ELSE s[i - Len(r)]
  BY <1>1, <1>2, ConcatProperties, Zenon
<1> HIDE DEF w
<1>4. /\ Len(r) \in Nat /\ Len(s) \in Nat /\ (s = <<>> <=> Len(s) = 0) /\ (r = <<>> <=> Len(r) = 0)
      /\ w # <<>> <=> Len(w) > 0
      /\ w # <<>> => Head(w) = w[1]
  BY <1>1, <1>2, <1>3
<1>5. \A i \in 1 .. Len(w) : w[i] = "Items" <=> i = Len(w)
  <2> TAKE i \in 1 .. Len(w)
  <2>1. CASE i <= Len(r)
    <3>1. w[i] = r[i] /\ i \in 1 .. Len(r)
      BY <1>3, <1>4, <2>1
    <3>2. CASE Head(g) = "Items"
      BY <1>1, <1>3, <1>4, <3>1, <3>2 DEF Shape
    <3>3. CASE Head(g) # "Items"
      <4>1. Len(s) > 0
        BY <3>3, <1>4, StackedTail DEF Stacked, s
      <4> QED
        BY <1>3, <1>4, <2>1, <3>1, <3>3, <4>1 DEF Shape
    <3> QED
      BY <3>2, <3>3
  <2>2. CASE i > Len(r)
    <3>1. w[i] = s[i - Len(r)] /\ i - Len(r) \in 1 .. Len(s)
      BY <1>3, <1>4, <2>2
    <3>2. i - Len(r) = Len(s) <=> i = Len(w)
      BY <1>3, <1>4
    <3> QED
      BY <1>1, <3>1, <3>2 DEF Stacked
  <2> QED
    BY <1>4, <2>1, <2>2
<1>6. \A i \in 2 .. Len(w) : w[i] = "Body" => w[i - 1] = LBrace
  <2> SUFFICES ASSUME NEW i \in 2 .. Len(w), w[i] = "Body"
               PROVE  w[i - 1] = LBrace
    OBVIOUS
  <2>1. CASE i <= Len(r)
    <3>1. w[i] = r[i] /\ i \in 1 .. Len(r) /\ w[i - 1] = r[i - 1]
      BY <1>3, <1>4, <2>1
    <3> QED
      BY <3>1 DEF Shape
  <2>2. CASE i = Len(r) + 1
    <3>1. w[i] = s[1] /\ s # <<>>
      BY <1>3, <1>4, <2>2
    <3> QED
      BY <1>1, <3>1
  <2>3. CASE i > Len(r) + 1
    <3>1. w[i] = s[i - Len(r)] /\ i - Len(r) \in 2 .. Len(s) /\ w[i - 1] = s[(i - Len(r)) - 1]
      <4>1. /\ i - 1 \in 1 .. Len(r) + Len(s) /\ ~(i - 1 <= Len(r))
            /\ i \in 1 .. Len(r) + Len(s) /\ ~(i <= Len(r)) /\ i - Len(r) \in 2 .. Len(s)
            /\ (i - 1) - Len(r) = (i - Len(r)) - 1
        BY <1>3, <1>4, <2>3
      <4> QED
        BY <1>3, <4>1
    <3> QED
      BY <1>1, <3>1 DEF Stacked
  <2> QED
    BY <1>4, <2>1, <2>2, <2>3
<1>7. w # <<>> => Head(w) # "Body"
  BY <1>1, <1>3, <1>4 DEF Shape
<1>8. Head(g) = "Body" => w # <<>> /\ Head(w) = "Statements"
  BY <1>1, <1>3, <1>4 DEF Shape
<1> QED
  BY <1>3, <1>5, <1>6, <1>7, <1>8 DEF w, s, Stacked

\* The loops that a rule adds.
LEMMA LoopsOfRule ==
  ASSUME NEW goal, NEW r, Shape(goal, r)
  PROVE  /\ goal \notin {"Body", "Statements"} => Loops(r) = 0
         /\ Loops(r) <= 1
<1>1. r \in Seq(Goals)
  BY DEF Shape
<1>2. CASE goal \notin {"Body", "Statements"}
  <2>1. Places(r, "Statements") = {}
    BY <1>1, <1>2 DEF Places, Shape
  <2> QED
    BY <2>1, FS_EmptySet DEF Loops
<1>3. CASE goal \in {"Body", "Statements"}
  <2>1. PICK i : Places(r, "Statements") \subseteq {i}
    <3>1. goal = "Body" => Places(r, "Statements") \subseteq {1}
      BY <1>1 DEF Places, Shape
    <3>2. goal = "Statements" => Places(r, "Statements") \subseteq {2}
      BY <1>1 DEF Places, Shape
    <3> QED
      BY <1>3, <3>1, <3>2, Zenon
  <2>2. IsFiniteSet({i}) /\ Cardinality({i}) = 1
    BY FS_Singleton, Zenon
  <2>3. Cardinality(Places(r, "Statements")) <= Cardinality({i})
    BY <2>1, <2>2, FS_Subset, Zenon
  <2> QED
    BY <1>3, <2>2, <2>3 DEF Loops
<1> QED
  BY <1>2, <1>3

\* What every step may rely on.
LEMMA TheFile ==
  ASSUME ParserInv
  PROVE  /\ tokens \in Seq(Tokens \cup {"eof"}) /\ Len(tokens) \in Nat \ {0}
         /\ \A i \in 1 .. Len(tokens) : tokens[i] = "eof" <=> i = Len(tokens)
         /\ Peek(0) = tokens[at]
<1>1. file \in Files /\ at \in 1 .. Len(tokens)
  BY DEF ParserInv
<1>2. /\ tokens \in Seq(Tokens \cup {"eof"}) /\ tokens # <<>>
      /\ \A i \in 1 .. Len(tokens) : tokens[i] = "eof" <=> i = Len(tokens)
  BY <1>1, FilesAssumption, Zenon DEF tokens
<1> HIDE DEF tokens
<1> QED
  BY <1>1, <1>2 DEF Peek

LEMMA Numbers ==
  ASSUME ParserInv
  PROVE  /\ at \in Int /\ 1 <= at /\ at <= Len(tokens) /\ Len(tokens) \in Int
         /\ goals \in Seq(Goals) /\ Loops(goals) \in Nat
         /\ Cardinality(BracesBefore(at)) \in Nat /\ Cardinality(BracesBefore(at + 1)) \in Nat
<1>1. at \in 1 .. Len(tokens) /\ Stacked(goals)
  BY DEF ParserInv
<1>2. Len(tokens) \in Nat
  BY TheFile
<1>3. goals \in Seq(Goals) /\ Loops(goals) \in Nat
  BY <1>1, LoopsType DEF Stacked
<1>4. at \in Int /\ at + 1 \in Int /\ 1 <= at /\ at <= Len(tokens)
  BY <1>1, <1>2
<1>5. Len(tokens) \in Int
  BY <1>2
<1> QED
  BY <1>3, <1>4, <1>5, BracesType, Zenon

LEMMA NearestType == ASSUME NEW g, NEW S PROVE Nearest(g, S) \in {0, 1}
  BY DEF Nearest

\* A brace consumed pays for the loop that follows it.
LEMMA ConsumeKeeps == ASSUME ParserInv, Consume PROVE ParserInv'
<1>1. /\ goals # <<>> /\ Head(goals) \in Tokens /\ tokens[at] = Head(goals)
      /\ at' = at + 1 /\ goals' = Tail(goals)
      /\ file' = file /\ kind' = kind /\ errors' = errors /\ tokens' = tokens
  BY TheFile DEF Consume, tokens
<1>2. at + 1 \in 1 .. Len(tokens)
  BY <1>1, Numbers, TheFile, NamedTokens
<1>3. Stacked(goals)
  BY DEF ParserInv
<1>4. /\ Stacked(Tail(goals))
      /\ Tail(goals) # <<>> /\ Head(Tail(goals)) = "Body" => Head(goals) = LBrace
  BY <1>1, <1>3, StackedTail
<1>5. PICK n \in LexErrors : Reports(n) /\ Budget(n)
  BY DEF ParserInv
<1>6. Loops(Tail(goals)) <= Loops(goals) /\ Loops(Tail(goals)) \in Nat
  BY <1>1, <1>4, Numbers, LoopsOfTail, LoopsType DEF Stacked
<1>7. /\ Cardinality(BracesBefore(at)) <= Cardinality(BracesBefore(at + 1))
      /\ tokens[at] = LBrace =>
           Cardinality(BracesBefore(at + 1)) = Cardinality(BracesBefore(at)) + 1
  <2>1. at \in Int /\ at + 1 \in Int /\ at <= at + 1 /\ at >= 1
    BY Numbers
  <2> QED
    BY <2>1, BracesType, Zenon
<1>8. /\ Nearest(Tail(goals), {"Body"}) = 1 => Head(goals) = LBrace
      /\ Nearest(goals, Goals \ Handlers) = 1
  BY <1>1, <1>4, NamedTokens, PlainGoals DEF Nearest, Plain, Handlers
<1>9. Budget(n)'
  <2>1. /\ Nearest(Tail(goals), {"Body"}) \in {0, 1}
        /\ Nearest(Tail(goals), Goals \ Handlers) \in {0, 1}
        /\ Nearest(goals, {"Body"}) \in {0, 1}
    BY NearestType
  <2>2. Loops(Tail(goals)) + Nearest(Tail(goals), {"Body"}) <= Cardinality(BracesBefore(at + 1))
    BY <1>1, <1>5, <1>6, <1>7, <1>8, <2>1, Numbers DEF Budget
  <2>3. ASSUME AtLimit
        PROVE  Len(errors) + Loops(Tail(goals)) + Nearest(Tail(goals), Goals \ Handlers)
                 <= (IF n > ErrorLimit THEN n ELSE ErrorLimit) + Cardinality(BracesBefore(at + 1))
    <3>1. Len(errors) + Loops(goals) + 1
            <= (IF n > ErrorLimit THEN n ELSE ErrorLimit) + Cardinality(BracesBefore(at))
      BY <1>5, <1>8, <2>3 DEF Budget
    <3>2. Len(errors) \in Nat /\ n \in Nat /\ ErrorLimit \in Nat
      BY <1>5, LimitType DEF Reports
    <3> QED
      BY <1>6, <1>7, <2>1, <3>1, <3>2, Numbers
  <2> QED
    BY <1>1, <2>2, <2>3, Zenon DEF Budget, AtLimit, BracesBefore
<1> QED
  BY <1>1, <1>2, <1>4, <1>5, <1>9, Zenon DEF ParserInv, Reports

LEMMA NoteKeeps == ASSUME ParserInv, Note PROVE ParserInv'
<1>1. /\ goals # <<>> /\ Head(goals) \in ExprKinds
      /\ goals' = Tail(goals) /\ kind' \in ExprKinds
      /\ at' = at /\ file' = file /\ errors' = errors /\ tokens' = tokens
  BY DEF Note, tokens
<1>2. /\ Stacked(Tail(goals))
      /\ Tail(goals) # <<>> => Head(Tail(goals)) # "Body"
  BY <1>1, StackedTail, NamedTokens DEF ParserInv
<1>3. PICK n \in LexErrors : Reports(n) /\ Budget(n)
  BY DEF ParserInv
<1>4. Loops(Tail(goals)) <= Loops(goals) /\ Loops(Tail(goals)) \in Nat
  BY <1>1, <1>2, Numbers, LoopsOfTail, LoopsType DEF Stacked
<1>5. /\ Nearest(Tail(goals), {"Body"}) = 0 /\ Nearest(goals, {"Body"}) \in {0, 1}
      /\ Nearest(goals, Goals \ Handlers) = 1
      /\ Nearest(Tail(goals), Goals \ Handlers) \in {0, 1}
  BY <1>1, <1>2, PlainGoals DEF Nearest, Plain, Handlers
<1>6. Budget(n)'
  <2>1. /\ Len(errors) \in Nat /\ n \in Nat /\ ErrorLimit \in Nat
        /\ Cardinality(BracesBefore(at)) \in Nat
    BY <1>3, LimitType, Numbers DEF Reports
  <2>2. Loops(Tail(goals)) + 0 <= Cardinality(BracesBefore(at))
    BY <1>3, <1>4, <1>5, <2>1, Numbers DEF Budget
  <2>3. ASSUME AtLimit
        PROVE  Len(errors) + Loops(Tail(goals)) + Nearest(Tail(goals), Goals \ Handlers)
                 <= (IF n > ErrorLimit THEN n ELSE ErrorLimit) + Cardinality(BracesBefore(at))
    BY <1>3, <1>4, <1>5, <2>1, <2>3, Numbers DEF Budget
  <2> QED
    BY <1>1, <1>5, <2>2, <2>3, Zenon DEF Budget, AtLimit, BracesBefore
<1> QED
  BY <1>1, <1>2, <1>3, <1>6, Zenon DEF ParserInv, Reports

\* A rule adds a loop only in place of a block's beginning, which has read its
\* brace; at the limit a loop ends.
LEMMA DecideKeeps == ASSUME ParserInv, Decide PROVE ParserInv'
<1> DEFINE goal == Head(goals)
           r    == Rule(goal, Peek(0))
           g    == r \o Tail(goals)
<1>1. /\ goals # <<>> /\ goal \in Deciding /\ goals' = g
      /\ at' = at /\ file' = file /\ kind' = kind /\ errors' = errors /\ tokens' = tokens
  BY DEF Decide, Deciding, tokens
<1>2. Shape(goal, r) /\ (goal \in Handlers /\ AtLimit => r = <<>>)
  BY <1>1, RuleShape, Zenon
<1>3. Stacked(goals)
  BY DEF ParserInv
<1>4. goal # LBrace
  BY <1>1, PlainGoals DEF Deciding
<1> HIDE DEF r
<1>5. /\ Stacked(g)
      /\ g # <<>> => Head(g) # "Body"
      /\ goal = "Body" => g # <<>> /\ Head(g) = "Statements"
  BY <1>1, <1>2, <1>3, <1>4, StackedJoin, Zenon
<1>6. PICK n \in LexErrors : Reports(n) /\ Budget(n)
  BY DEF ParserInv
<1>7. /\ Loops(g) \in Nat /\ Loops(r) \in Nat /\ Loops(Tail(goals)) \in Nat
      /\ Loops(g) <= Loops(r) + Loops(Tail(goals))
      /\ Loops(Tail(goals)) <= Loops(goals)
      /\ goal = "Statements" => Loops(Tail(goals)) + 1 <= Loops(goals)
      /\ goal \notin {"Body", "Statements"} => Loops(r) = 0
      /\ Loops(r) <= 1
  <2>1. goals \in Seq(Goals) /\ r \in Seq(Goals) /\ Tail(goals) \in Seq(Goals) /\ g \in Seq(Goals)
    BY <1>1, <1>2, <1>3, <1>5, StackedTail, Zenon DEF Stacked, Shape
  <2> HIDE DEF g
  <2>2. Loops(g) \in Nat /\ Loops(r) \in Nat /\ Loops(Tail(goals)) \in Nat
    BY <2>1, LoopsType
  <2>3. Loops(g) <= Loops(r) + Loops(Tail(goals))
    BY <2>1, LoopsOfJoin DEF g
  <2>4. /\ goal \notin {"Body", "Statements"} => Loops(r) = 0
        /\ Loops(r) <= 1
    BY <1>2, LoopsOfRule, Zenon
  <2> QED
    BY <1>1, <2>1, <2>2, <2>3, <2>4, LoopsOfTail, Zenon
<1>8. /\ Nearest(g, {"Body"}) = 0 /\ Nearest(g, Goals \ Handlers) \in {0, 1}
      /\ Nearest(goals, {"Body"}) = (IF goal = "Body" THEN 1 ELSE 0)
      /\ Nearest(goals, Goals \ Handlers) = (IF goal \in Handlers THEN 0 ELSE 1)
      /\ goal = "Body" => Nearest(g, Goals \ Handlers) = 0
  BY <1>1, <1>5 DEF Nearest, Deciding, Handlers
<1>9. goal = "Items" => Tail(goals) = <<>>
  BY <1>1, <1>3, StackedTail
<1>10. Budget(n)'
  <2>1. Len(errors) \in Nat /\ n \in Nat /\ ErrorLimit \in Nat
    BY <1>6, LimitType DEF Reports
  <2>2. Loops(goals) \in Nat /\ Cardinality(BracesBefore(at)) \in Nat
    BY Numbers
  <2>3. Loops(g) + 0 <= Cardinality(BracesBefore(at))
    <3>1. Loops(goals) + (IF goal = "Body" THEN 1 ELSE 0) <= Cardinality(BracesBefore(at))
      BY <1>6, <1>8 DEF Budget
    <3> HIDE DEF g, goal
    <3> QED
      BY <1>7, <2>2, <3>1
  <2>4. ASSUME AtLimit
        PROVE  Len(errors) + Loops(g) + Nearest(g, Goals \ Handlers)
                 <= (IF n > ErrorLimit THEN n ELSE ErrorLimit) + Cardinality(BracesBefore(at))
    <3>1. Len(errors) + Loops(goals) + (IF goal \in Handlers THEN 0 ELSE 1)
            <= (IF n > ErrorLimit THEN n ELSE ErrorLimit) + Cardinality(BracesBefore(at))
      BY <1>6, <1>8, <2>4 DEF Budget
    <3>2. goal \in Handlers => Loops(r) = 0
      <4>1. Places(<<>>, "Statements") = {}
        BY DEF Places
      <4>2. Loops(<<>>) = 0
        BY <4>1, FS_EmptySet DEF Loops
      <4> QED
        BY <1>2, <2>4, <4>2
    <3>3. goal = "Items" => Nearest(g, Goals \ Handlers) = 0
      <4>1. goal = "Items" => g = <<>> \o <<>>
        BY <1>2, <1>9, <2>4, Zenon DEF Handlers
      <4>2. <<>> \o <<>> = <<>>
        OBVIOUS
      <4> QED
        BY <4>1, <4>2 DEF Nearest
    <3> HIDE DEF g, goal
    <3>4. goal \in Handlers => goal \in {"Items", "Statements"}
      BY DEF Handlers
    <3>5. CASE goal \in Handlers
      BY <1>7, <1>8, <2>1, <2>2, <3>1, <3>2, <3>3, <3>4, <3>5
    <3>6. CASE goal \notin Handlers
      BY <1>7, <1>8, <2>1, <2>2, <3>1, <3>6 DEF Handlers
    <3> QED
      BY <3>5, <3>6
  <2> HIDE DEF g, goal
  <2> QED
    BY <1>1, <1>8, <2>3, <2>4, Zenon DEF Budget, AtLimit, BracesBefore
<1> QED
  BY <1>1, <1>5, <1>6, <1>10, Zenon DEF ParserInv, Reports

\* The least of a set of natural numbers.
LEMMA MinType ==
  ASSUME NEW S, S \subseteq Nat, S # {}
  PROVE  Min(S) \in S /\ \A n \in S : Min(S) <= n
<1> DEFINE Less == { ss \in Nat \X Nat : ss[1] < ss[2] }
<1>1. IsWellFoundedOn(Less, Nat)
  BY NatLessThanWellFounded, Zenon DEF OpToRel
<1> HIDE DEF Less
<1>2. PICK x \in S : \A y \in S : ~(<<y, x>> \in Less)
  BY <1>1, WFMin, Zenon
<1>3. ASSUME NEW y \in S, y < x
      PROVE  <<y, x>> \in Less
  <2>1. <<y, x>> \in Nat \X Nat /\ <<y, x>>[1] < <<y, x>>[2]
    BY <1>3
  <2> QED
    BY <2>1 DEF Less
<1>4. ASSUME NEW y \in S
      PROVE  x <= y
  <2>1. ~(y < x)
    BY <1>2, <1>3, Zenon
  <2> QED
    BY <2>1
<1> QED
  BY <1>4 DEF Min

\* The exception is caught and the parser resumes in the file.
LEMMA Caught ==
  ASSUME ParserInv, goals # <<>>
  PROVE  /\ Stacked(Unwound) /\ Unwound # <<>> /\ Head(Unwound) \in Handlers
         /\ Loops(Unwound) \in Nat /\ Loops(Unwound) <= Loops(goals)
         /\ LET next == Min({i \in at .. Len(tokens) : ResumesAt(i)})
            IN next \in at .. Len(tokens)
<1> DEFINE S == {i \in DOMAIN goals : goals[i] \in Handlers}
           T == {i \in at .. Len(tokens) : ResumesAt(i)}
<1>1. Stacked(goals) /\ goals \in Seq(Goals) /\ DOMAIN goals = 1 .. Len(goals)
  BY Numbers DEF ParserInv
<1>2. Len(goals) \in S /\ S \subseteq Nat
  <2>1. Len(goals) \in 1 .. Len(goals)
    BY <1>1
  <2> QED
    <3>1. goals[Len(goals)] = "Items"
      BY <1>1, <2>1, Zenon DEF Stacked
    <3>2. S \subseteq 1 .. Len(goals) /\ 1 .. Len(goals) \subseteq Nat
      BY <1>1
    <3> QED
      BY <1>1, <2>1, <3>1, <3>2 DEF Handlers
<1>3. Min(S) \in S
  BY <1>2, MinType, Zenon
<1>4. Min(S) \in 1 .. Len(goals) /\ goals[Min(S)] \in Handlers
  BY <1>1, <1>3, Zenon
<1> HIDE DEF S
<1>5. /\ Stacked(Unwound) /\ Unwound # <<>> /\ Head(Unwound) \in Handlers
      /\ Loops(Unwound) <= Loops(goals)
  BY <1>1, <1>4, StackedSuffix, LoopsOfSuffix, Zenon DEF Unwound, S
<1>6. Loops(Unwound) \in Nat
  BY <1>5, LoopsType DEF Stacked
<1>7. Len(tokens) \in T
  <2>1. tokens[Len(tokens)] = "eof" /\ Len(tokens) \in at .. Len(tokens)
    BY TheFile, Numbers
  <2> QED
    BY <2>1, Zenon DEF ResumesAt
<1>8. T \subseteq Nat
  BY Numbers
<1>9. Min(T) \in T
  BY <1>7, <1>8, MinType, Zenon
<1> QED
  BY <1>5, <1>6, <1>9, Zenon

\* An error at the limit leaves no procedure to run but a loop that ends.
LEMMA FailKeeps == ASSUME ParserInv, Fail PROVE ParserInv'
<1> DEFINE next == Min({i \in at .. Len(tokens) : ResumesAt(i)})
<1>1. /\ goals # <<>> /\ Head(goals) \in Tokens \cup {"Error"}
      /\ goals' = Unwound /\ at' = next /\ errors' = Append(errors, at)
      /\ file' = file /\ kind' = kind /\ tokens' = tokens
  BY DEF Fail, Report, tokens
<1>2. /\ Stacked(Unwound) /\ Unwound # <<>> /\ Head(Unwound) \in Handlers
      /\ Loops(Unwound) \in Nat /\ Loops(Unwound) <= Loops(goals)
      /\ next \in at .. Len(tokens)
  BY <1>1, Caught
<1> HIDE DEF next
<1>3. PICK n \in LexErrors : Reports(n) /\ Budget(n)
  BY DEF ParserInv
<1>4. /\ at \in 1 .. Len(tokens) /\ next \in 1 .. Len(tokens)
      /\ at \in Int /\ next \in Int /\ at <= next
  BY <1>2, Numbers
<1>5. Reports(n)'
  <2>1. /\ errors \in Seq(0 .. Len(tokens)) /\ n \in LexErrors /\ n <= Len(errors)
        /\ \A k \in 1 .. Len(errors) : errors[k] = 0 <=> k <= n
        /\ n \in Nat
    BY <1>3, LimitType DEF Reports
  <2>2. at \in 0 .. Len(tokens) /\ at # 0
    BY Numbers
  <2>3. /\ Append(errors, at) \in Seq(0 .. Len(tokens))
        /\ Len(Append(errors, at)) = Len(errors) + 1 /\ Len(errors) \in Nat
        /\ \A k \in 1 .. Len(errors) + 1 :
             Append(errors, at)[k] = IF k = Len(errors) + 1 THEN at ELSE errors[k]
    BY <2>1, <2>2
  <2>4. \A k \in 1 .. Len(Append(errors, at)) : Append(errors, at)[k] = 0 <=> k <= n
    BY <2>1, <2>2, <2>3
  <2>5. n <= Len(Append(errors, at))
    BY <2>1, <2>3
  <2> QED
    BY <1>1, <2>1, <2>3, <2>4, <2>5, Zenon DEF Reports
<1>6. /\ Nearest(goals, Goals \ Handlers) = 1 /\ Nearest(goals, {"Body"}) \in {0, 1}
      /\ Nearest(Unwound, {"Body"}) = 0 /\ Nearest(Unwound, Goals \ Handlers) = 0
  BY <1>1, <1>2, PlainGoals DEF Nearest, Plain, Handlers
<1>7. Budget(n)'
  <2>1. /\ Cardinality(BracesBefore(at)) \in Nat /\ Cardinality(BracesBefore(next)) \in Nat
        /\ Cardinality(BracesBefore(at)) <= Cardinality(BracesBefore(next))
    BY <1>4, BracesType, Zenon
  <2>2. /\ Len(errors) \in Nat /\ n \in Nat /\ n <= Len(errors) /\ ErrorLimit \in Nat
        /\ Len(Append(errors, at)) = Len(errors) + 1 /\ Loops(goals) \in Nat
    BY <1>3, LimitType, Numbers DEF Reports
  <2>3. Loops(goals) + Nearest(goals, {"Body"}) <= Cardinality(BracesBefore(at))
    BY <1>3 DEF Budget
  <2>4. Loops(Unwound) + 0 <= Cardinality(BracesBefore(next))
    BY <1>2, <1>6, <2>1, <2>2, <2>3
  <2>5. ASSUME Len(Append(errors, at)) >= ErrorLimit
        PROVE  Len(Append(errors, at)) + Loops(Unwound) + 0
                 <= (IF n > ErrorLimit THEN n ELSE ErrorLimit) + Cardinality(BracesBefore(next))
    <3>1. CASE AtLimit
      <4>1. Len(errors) + Loops(goals) + 1
              <= (IF n > ErrorLimit THEN n ELSE ErrorLimit) + Cardinality(BracesBefore(at))
        BY <1>3, <1>6, <3>1 DEF Budget
      <4> QED
        BY <1>2, <2>1, <2>2, <4>1
    <3>2. CASE ~AtLimit
      BY <2>1, <2>2, <2>4, <2>5, <3>2, <1>2 DEF AtLimit
    <3> QED
      BY <3>1, <3>2
  <2> QED
    BY <1>1, <1>6, <2>4, <2>5, Zenon DEF Budget, AtLimit, BracesBefore
<1> QED
  BY <1>1, <1>2, <1>3, <1>4, <1>5, <1>7, Zenon DEF ParserInv

LEMMA ParserInit == Init => ParserInv
<1> SUFFICES ASSUME Init PROVE ParserInv
  OBVIOUS
<1>1. PICK n \in LexErrors : errors = [i \in 1 .. n |-> 0]
  BY DEF Init
<1>2. /\ n \in Nat /\ Len(errors) = n /\ errors \in Seq({0})
      /\ \A k \in 1 .. n : errors[k] = 0
  BY <1>1, LimitType
<1>3. tokens \in Seq(Tokens \cup {"eof"}) /\ Len(tokens) \in Nat \ {0}
  <2>1. tokens \in Seq(Tokens \cup {"eof"}) /\ tokens # <<>>
    BY FilesAssumption, Zenon DEF tokens, Init
  <2> HIDE DEF tokens
  <2> QED
    BY <2>1
<1>4. Stacked(goals)
  <2>1. goals = <<"Items">> /\ "Items" \in Goals
    BY DEF Init, Goals, Handlers
  <2> QED
    BY <2>1 DEF Stacked
<1>5. Loops(goals) = 0
  <2>1. Places(goals, "Statements") = {}
    BY DEF Places, Init
  <2> QED
    BY <2>1, FS_EmptySet DEF Loops
<1>6. Nearest(goals, {"Body"}) = 0 /\ Nearest(goals, Goals \ Handlers) = 0
  BY DEF Nearest, Init, Handlers
<1>7. Cardinality(BracesBefore(at)) \in Nat
  BY BracesType DEF Init
<1>8. Budget(n)
  BY <1>2, <1>5, <1>6, <1>7, LimitType DEF Budget
<1>9. Reports(n)
  <2>1. errors \in Seq(0 .. Len(tokens))
    BY <1>2, <1>3
  <2> QED
    BY <1>2, <2>1 DEF Reports
<1>10. at \in 1 .. Len(tokens) /\ kind \in ExprKinds /\ file \in Files
  BY <1>3 DEF Init, ExprKinds
<1> QED
  BY <1>4, <1>8, <1>9, <1>10, Zenon DEF ParserInv

LEMMA ParserStep == ParserInv /\ [Next]_vars => ParserInv'
<1> SUFFICES ASSUME ParserInv, [Next]_vars PROVE ParserInv'
  OBVIOUS
<1>1. CASE Consume
  BY <1>1, ConsumeKeeps
<1>2. CASE Note
  BY <1>2, NoteKeeps
<1>3. CASE Decide
  BY <1>3, DecideKeeps
<1>4. CASE Fail
  BY <1>4, FailKeeps
<1>5. CASE UNCHANGED vars
  BY <1>5, Zenon DEF vars, ParserInv, Reports, Budget, AtLimit, BracesBefore, tokens
<1> QED
  BY <1>1, <1>2, <1>3, <1>4, <1>5 DEF Next

\* The parser stays in the file and its call stack ends in parse_program, which
\* catches what is thrown, until it returns.
THEOREM ParserInvariant == Spec => []ParserInv
<1>1. Init => ParserInv
  BY ParserInit
<1>2. ParserInv /\ [Next]_vars => ParserInv'
  BY ParserStep
<1> QED
  BY <1>1, <1>2, PTL DEF Spec

\* The greater of two numbers.
LEMMA MaxOfTwo ==
  ASSUME NEW a \in Int, NEW b \in Int
  PROVE  Max({a, b}) = IF a > b THEN a ELSE b
<1>1. \E x \in {a, b} : \A y \in {a, b} : x >= y
  <2>1. CASE a > b
    BY <2>1
  <2>2. CASE ~(a > b)
    BY <2>2
  <2> QED
    BY <2>1, <2>2
<1>2. Max({a, b}) \in {a, b} /\ \A y \in {a, b} : Max({a, b}) >= y
  BY <1>1, Zenon DEF Max
<1> QED
  BY <1>2

\* The parser's own errors are those after the lexer's.
LEMMA OwnErrors ==
  ASSUME ParserInv, NEW n \in LexErrors, Reports(n)
  PROVE  Cardinality({k \in DOMAIN errors : errors[k] # 0}) = Len(errors) - n
<1>1. /\ n \in Nat /\ Len(errors) \in Nat /\ n <= Len(errors) /\ DOMAIN errors = 1 .. Len(errors)
      /\ \A k \in 1 .. Len(errors) : errors[k] = 0 <=> k <= n
  BY LimitType DEF Reports
<1>2. {k \in DOMAIN errors : errors[k] # 0} = (n + 1) .. Len(errors)
  BY <1>1
<1>3. Cardinality((n + 1) .. Len(errors)) =
        IF n + 1 > Len(errors) THEN 0 ELSE Len(errors) - (n + 1) + 1
  <2>1. n + 1 \in Int /\ Len(errors) \in Int
    BY <1>1
  <2> QED
    BY <2>1, FS_Interval, Zenon
<1>4. (IF n + 1 > Len(errors) THEN 0 ELSE Len(errors) - (n + 1) + 1) = Len(errors) - n
  <2>1. n \in Nat /\ Len(errors) \in Nat /\ n <= Len(errors)
    BY <1>1
  <2> QED
    BY <2>1
<1> QED
  BY <1>2, <1>3, <1>4, Zenon

LEMMA ParserInvBounds == ParserInv => ErrorsBounded
<1> SUFFICES ASSUME ParserInv PROVE ErrorsBounded
  OBVIOUS
<1> DEFINE own    == Cardinality({k \in DOMAIN errors : errors[k] # 0})
           all    == Cardinality({i \in DOMAIN tokens : tokens[i] = LBrace})
           behind == Cardinality(BracesBefore(at))
<1>1. PICK n \in LexErrors : Reports(n) /\ Budget(n)
  BY DEF ParserInv
<1>2. own = Len(errors) - n
  BY <1>1, OwnErrors
<1>3. n \in Nat /\ Len(errors) \in Nat /\ ErrorLimit \in Nat
  BY <1>1, LimitType DEF Reports
<1>4. behind \in Nat /\ all \in Nat /\ behind <= all
  <2>1. DOMAIN tokens = 1 .. Len(tokens) /\ Len(tokens) \in Int /\ at \in Int /\ at <= Len(tokens)
    BY TheFile, Numbers
  <2>2. BracesBefore(at) \subseteq {i \in DOMAIN tokens : tokens[i] = LBrace}
    BY <2>1 DEF BracesBefore
  <2>3. IsFiniteSet({i \in DOMAIN tokens : tokens[i] = LBrace})
    <3>1. /\ IsFiniteSet(1 .. Len(tokens))
          /\ {i \in DOMAIN tokens : tokens[i] = LBrace} \subseteq 1 .. Len(tokens)
      BY <2>1, FS_Interval
    <3> QED
      BY <3>1, FS_Subset, Zenon
  <2> QED
    BY <2>2, <2>3, FS_Subset, FS_CardinalityType, Numbers, Zenon
<1> HIDE DEF own, all, behind
<1>5. Max({0, ErrorLimit - (Len(errors) - own)}) = IF n > ErrorLimit THEN 0 ELSE ErrorLimit - n
  <2>1. ErrorLimit - (Len(errors) - own) = ErrorLimit - n /\ ErrorLimit - n \in Int
    BY <1>2, <1>3
  <2>2. Max({0, ErrorLimit - n}) = IF 0 > ErrorLimit - n THEN 0 ELSE ErrorLimit - n
    BY <2>1, 0 \in Int, MaxOfTwo, Zenon
  <2>3. 0 > ErrorLimit - n <=> n > ErrorLimit
    BY <1>3
  <2> QED
    BY <2>1, <2>2, <2>3, Zenon
<1>6. own <= (IF n > ErrorLimit THEN 0 ELSE ErrorLimit - n) + all
  <2>1. CASE ~AtLimit
    BY <1>2, <1>3, <1>4, <2>1 DEF AtLimit
  <2>2. CASE AtLimit
    <3>1. Len(errors) + Loops(goals) + Nearest(goals, Goals \ Handlers)
            <= (IF n > ErrorLimit THEN n ELSE ErrorLimit) + behind
      BY <1>1, <2>2 DEF Budget, behind
    <3>2. Loops(goals) \in Nat /\ Nearest(goals, Goals \ Handlers) \in {0, 1}
      BY Numbers, NearestType
    <3> QED
      BY <1>2, <1>3, <1>4, <3>1, <3>2
  <2> QED
    BY <2>1, <2>2
<1> QED
  BY <1>5, <1>6, Zenon DEF ErrorsBounded, own, all

\* Whatever the file, and however many errors the lexer reported: at most the
\* limit, and one error for each opening brace.
THEOREM ParserErrorsBounded == Spec => []ErrorsBounded
<1>1. ParserInv => ErrorsBounded
  BY ParserInvBounds
<1> QED
  BY <1>1, ParserInvariant, PTL

=============================================================================
