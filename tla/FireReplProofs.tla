-------------------------- MODULE FireReplProofs --------------------------
(***************************************************************************)
(* For every family of lines and length of a session: what an accepted     *)
(* line declared stays where the analyzer and the machine look for it.     *)
(*                                                                         *)
(* The analyzer and the machine each keep a table of the globals and only  *)
(* agree on positions: the variable declared k-th, by whichever line, has  *)
(* slot k, and slot k never holds anything but that variable's value. A    *)
(* line that is accepted declares names that nothing before it has, so     *)
(* that each of its declarations, when run, fills the slot it was given.   *)
(***************************************************************************)
EXTENDS FireRepl, SequenceTheorems, WellFoundedInduction, TLAPS

Ids       == Nat \X STRING
Contents  == Ids \cup {Unset}
Ends      == {"halted", "exit0", "exit3", "fail", "internal"}
Entries   == [id : Ids, slot : Nat]
Statement == [kind : StatementKinds, name : STRING]

\* The variables of the global scope have the slots they stand at.
InOrder(s) == \A k \in 1 .. Len(s) : s[k].slot = k - 1

\* The machine's globals are the analyzer's, or not yet set.
Match(gs, s) ==
  /\ gs \in Seq(Contents) /\ Len(gs) <= Len(s)
  /\ \A k \in 1 .. Len(gs) : gs[k] \in {Unset, s[k].id}

\* Whatever an accepted line declared has a value, unless the line ended early.
Filled ==
  \A k \in 1 .. Len(scope) :
    scope[k].id[1] \in history =>
      /\ k \in 1 .. Len(globals)
      /\ globals[k] = Unset => ends[scope[k].id[1]] # "halted"

Numbered ==
  /\ fragment \in Nat
  /\ ends \in Seq(Ends \cup {"rejected"}) /\ Len(ends) <= fragment
  /\ status = "open" => Len(ends) = fragment
  /\ history \subseteq 1 .. Len(ends)
  /\ \A k \in 1 .. Len(scope) : scope[k].id[1] \in 1 .. fragment
  /\ \A f \in DOMAIN table : table[f].id[1] \in 1 .. fragment /\ table[f].index \in Nat

ReplInv ==
  /\ scope \in Seq(Entries) /\ global_count = Len(scope)
  /\ functions \in Seq(Ids)
  /\ Numbered
  /\ InOrder(scope)
  /\ Match(globals, scope)
  /\ Filled
  /\ FunctionsWhereDeclared

---------------------------------------------------------------------------
(* Numbers.                                                                *)

\* The least of a set of natural numbers.
LEMMA MinType ==
  ASSUME NEW S, S \subseteq Nat, S # {}
  PROVE  Min(S) \in S /\ \A n \in S : Min(S) <= n
<1> DEFINE Less == { ss \in Nat \X Nat : ss[1] < ss[2] }
<1>1. IsWellFoundedOn(Less, Nat)
  BY NatLessThanWellFounded, Zenon DEF OpToRel
<1> HIDE DEF Less
<1>2. PICK x \in S : \A y \in S : ~(<<y, x>> \in Less)
  BY <1>1, WFMin, Zenon
<1>3. ASSUME NEW y \in S, y < x
      PROVE  <<y, x>> \in Less
  <2>1. <<y, x>> \in Nat \X Nat /\ <<y, x>>[1] < <<y, x>>[2]
    BY <1>3
  <2> QED
    BY <2>1 DEF Less
<1>4. ASSUME NEW y \in S
      PROVE  x <= y
  <2>1. ~(y < x)
    BY <1>2, <1>3, Zenon
  <2> QED
    BY <2>1
<1> QED
  BY <1>4 DEF Min

\* The greatest of a set of positions.
LEMMA MaxType ==
  ASSUME NEW N \in Nat, NEW S, S \subseteq 1 .. N, S # {}
  PROVE  Max(S) \in S
<1> DEFINE T == {N - i : i \in S}
<1>1. T \subseteq Nat /\ T # {}
  OBVIOUS
<1>2. Min(T) \in T /\ \A n \in T : Min(T) <= n
  BY <1>1, MinType, Zenon
<1>3. PICK x \in S : Min(T) = N - x
  BY <1>2, Zenon
<1>4. ASSUME NEW y \in S
      PROVE  x >= y
  <2>1. N - x <= N - y
    BY <1>2, <1>3
  <2>2. x \in Int /\ y \in Int
    OBVIOUS
  <2> QED
    BY <2>1, <2>2
<1> QED
  BY <1>4, Zenon DEF Max

LEMMA MaxOfOne == ASSUME NEW k \in Int PROVE Max({k}) = k
<1>1. \E x \in {k} : \A y \in {k} : x >= y
  OBVIOUS
<1> QED
  BY <1>1, Zenon DEF Max

---------------------------------------------------------------------------
(* What the analyzer and the machine have after each statement is defined  *)
(* by recursion: the definitions have what they define.                    *)

Beginning(n, line) ==
  [scope |-> scope, table |-> Declare(n, line.functions), count |-> global_count,
   ok |-> AllNew(line.functions)]

LEMMA AnalysisIs ==
  ASSUME NEW n, NEW line, line.statements \in Seq(Statement)
  PROVE  /\ Analysis(n, line)[0] = Beginning(n, line)
         /\ \A i \in 1 .. Len(line.statements) :
              Analysis(n, line)[i] =
                AnalyzeStatement(Analysis(n, line)[i - 1], n, line.statements[i])
<1> DEFINE N == Len(line.statements)
           Good(m, A) == A = [i \in 0 .. m |->
                                IF i = 0 THEN Beginning(n, line)
                                ELSE AnalyzeStatement(A[i - 1], n, line.statements[i])]
           Missing == {m \in 0 .. N : ~\E A : Good(m, A)}
<1>1. N \in Nat
  OBVIOUS
<1> HIDE DEF N
<1>2. Missing = {}
  <2> SUFFICES ASSUME Missing # {} PROVE FALSE
    OBVIOUS
  <2> DEFINE m == Min(Missing)
  <2>1. Missing \subseteq Nat
    BY <1>1
  <2>2. m \in Missing /\ \A l \in Missing : m <= l
    BY <2>1, MinType, Zenon
  <2>3. m \in 0 .. N /\ ~\E A : Good(m, A)
    BY <2>2, Zenon
  <2> HIDE DEF m, Missing
  <2>4. CASE m = 0
    <3>1. Good(0, [i \in 0 .. 0 |-> Beginning(n, line)])
      OBVIOUS
    <3> QED
      BY <2>3, <2>4, <3>1, Zenon
  <2>5. CASE m # 0
    <3>1. m - 1 \in 0 .. N /\ ~(m <= m - 1) /\ m \in Nat /\ m >= 1
      BY <1>1, <2>3, <2>5
    <3>2. \E A : Good(m - 1, A)
      BY <2>2, <3>1, Zenon DEF Missing
    <3>3. PICK A : Good(m - 1, A)
      BY <3>2, Zenon
    <3> DEFINE B == [i \in 0 .. m |->
                       IF i = m THEN AnalyzeStatement(A[m - 1], n, line.statements[m])
                                      ELSE A[i]]
    <3>4. \A i \in 0 .. m - 1 :
            A[i] = IF i = 0 THEN Beginning(n, line)
                   ELSE AnalyzeStatement(A[i - 1], n, line.statements[i])
      BY <3>3, Zenon
    <3>5. \A i \in 0 .. m : B[i] = IF i = 0 THEN Beginning(n, line)
                                   ELSE AnalyzeStatement(B[i - 1], n, line.statements[i])
      <4> TAKE i \in 0 .. m
      <4>1. CASE i = m
        <5>1. /\ B[i - 1] = A[m - 1] /\ i # 0
              /\ B[i] = AnalyzeStatement(A[m - 1], n, line.statements[m])
          BY <3>1, <4>1
        <5> QED
          BY <4>1, <5>1
      <4>2. CASE i # m
        <5>1. i \in 0 .. m - 1 /\ B[i] = A[i]
          BY <3>1, <4>2
        <5>2. i # 0 => B[i - 1] = A[i - 1]
          BY <3>1, <4>2
        <5> HIDE DEF B
        <5> QED
          BY <3>4, <5>1, <5>2, Zenon
      <4> QED
        BY <4>1, <4>2
    <3>6. Good(m, B)
      <4>1. B = [i \in 0 .. m |-> B[i]]
        OBVIOUS
      <4> HIDE DEF B
      <4> QED
        BY <3>5, <4>1
    <3> QED
      BY <2>3, <3>6, Zenon
  <2> QED
    BY <2>4, <2>5
<1>3. N \in 0 .. N
  BY <1>1
<1>4. \E A : Good(N, A)
  BY <1>2, <1>3, Zenon
<1>5. Analysis(n, line) = CHOOSE A : Good(N, A)
  BY Zenon DEF Analysis, Beginning, N
<1>6. Good(N, Analysis(n, line))
  BY <1>4, <1>5, Zenon
<1>7. \A i \in 0 .. N :
        Analysis(n, line)[i] =
          IF i = 0 THEN Beginning(n, line)
          ELSE AnalyzeStatement(Analysis(n, line)[i - 1], n, line.statements[i])
  BY <1>6, Zenon
<1>8. 0 \in 0 .. N /\ \A i \in 1 .. N : i \in 0 .. N /\ i # 0
  BY <1>1
<1> QED
  BY <1>7, <1>8, Zenon DEF N

Adopted(A) == [globals |-> AdoptGlobals(A.count), end |-> "halted"]

LEMMA ExecutionIs ==
  ASSUME NEW A, NEW line, line.statements \in Seq(Statement)
  PROVE  /\ Execution(A, line)[0] = Adopted(A)
         /\ \A i \in 1 .. Len(line.statements) :
              Execution(A, line)[i] =
                RunStatement(Execution(A, line)[i - 1], A, line.statements[i])
<1> DEFINE N == Len(line.statements)
           Good(m, E) == E = [i \in 0 .. m |->
                                IF i = 0 THEN Adopted(A)
                                ELSE RunStatement(E[i - 1], A, line.statements[i])]
           Missing == {m \in 0 .. N : ~\E E : Good(m, E)}
<1>1. N \in Nat
  OBVIOUS
<1> HIDE DEF N
<1>2. Missing = {}
  <2> SUFFICES ASSUME Missing # {} PROVE FALSE
    OBVIOUS
  <2> DEFINE m == Min(Missing)
  <2>1. Missing \subseteq Nat
    BY <1>1
  <2>2. m \in Missing /\ \A l \in Missing : m <= l
    BY <2>1, MinType, Zenon
  <2>3. m \in 0 .. N /\ ~\E E : Good(m, E)
    BY <2>2, Zenon
  <2> HIDE DEF m, Missing
  <2>4. CASE m = 0
    <3>1. Good(0, [i \in 0 .. 0 |-> Adopted(A)])
      OBVIOUS
    <3> QED
      BY <2>3, <2>4, <3>1, Zenon
  <2>5. CASE m # 0
    <3>1. m - 1 \in 0 .. N /\ ~(m <= m - 1) /\ m \in Nat /\ m >= 1
      BY <1>1, <2>3, <2>5
    <3>2. \E E : Good(m - 1, E)
      BY <2>2, <3>1, Zenon DEF Missing
    <3>3. PICK E : Good(m - 1, E)
      BY <3>2, Zenon
    <3> DEFINE B == [i \in 0 .. m |-> IF i = m THEN RunStatement(E[m - 1], A, line.statements[m])
                                      ELSE E[i]]
    <3>4. \A i \in 0 .. m - 1 :
            E[i] = IF i = 0 THEN Adopted(A)
                   ELSE RunStatement(E[i - 1], A, line.statements[i])
      BY <3>3, Zenon
    <3>5. \A i \in 0 .. m : B[i] = IF i = 0 THEN Adopted(A)
                                   ELSE RunStatement(B[i - 1], A, line.statements[i])
      <4> TAKE i \in 0 .. m
      <4>1. CASE i = m
        <5>1. B[i - 1] = E[m - 1] /\ B[i] = RunStatement(E[m - 1], A, line.statements[m]) /\ i # 0
          BY <3>1, <4>1
        <5> QED
          BY <4>1, <5>1
      <4>2. CASE i # m
        <5>1. i \in 0 .. m - 1 /\ B[i] = E[i]
          BY <3>1, <4>2
        <5>2. i # 0 => B[i - 1] = E[i - 1]
          BY <3>1, <4>2
        <5> HIDE DEF B
        <5> QED
          BY <3>4, <5>1, <5>2, Zenon
      <4> QED
        BY <4>1, <4>2
    <3>6. Good(m, B)
      <4>1. B = [i \in 0 .. m |-> B[i]]
        OBVIOUS
      <4> HIDE DEF B
      <4> QED
        BY <3>5, <4>1
    <3> QED
      BY <2>3, <3>6, Zenon
  <2> QED
    BY <2>4, <2>5
<1>3. N \in 0 .. N
  BY <1>1
<1>4. \E E : Good(N, E)
  BY <1>2, <1>3, Zenon
<1>5. Execution(A, line) = CHOOSE E : Good(N, E)
  BY Zenon DEF Execution, Adopted, N
<1>6. Good(N, Execution(A, line))
  BY <1>4, <1>5, Zenon
<1>7. \A i \in 0 .. N :
        Execution(A, line)[i] =
          IF i = 0 THEN Adopted(A)
          ELSE RunStatement(Execution(A, line)[i - 1], A, line.statements[i])
  BY <1>6, Zenon
<1>8. 0 \in 0 .. N /\ \A i \in 1 .. N : i \in 0 .. N /\ i # 0
  BY <1>1
<1> QED
  BY <1>7, <1>8, Zenon DEF N

---------------------------------------------------------------------------
(* Analysis.                                                               *)

Analyses(n, line) ==
  [scope : Seq(Entries), table : {Declare(n, line.functions)}, count : Nat, ok : BOOLEAN]

\* After i statements of line n the scope is what it was and what they declare;
\* as long as nothing is wrong, no other variable has the name of one of these,
\* and what they use is declared.
Analyzed(A, n, line, i) ==
  /\ A \in Analyses(n, line)
  /\ A.count = Len(A.scope) /\ InOrder(A.scope)
  /\ Len(scope) <= Len(A.scope)
  /\ \A k \in 1 .. Len(scope) : A.scope[k] = scope[k]
  /\ \A k \in Len(scope) + 1 .. Len(A.scope) :
       /\ A.scope[k].id[1] = n
       /\ \E j \in 1 .. i : /\ line.statements[j].kind = "let"
                            /\ line.statements[j].name = A.scope[k].id[2]
       /\ A.ok => Named(A, A.scope[k].id[2]) = {k}
  /\ A.ok => \A j \in 1 .. i : line.statements[j].kind \in {"let", "read", "store"} =>
                                 Named(A, line.statements[j].name) # {}

LEMMA LineTyped ==
  ASSUME NEW line \in Lines
  PROVE  line.functions \in Seq(STRING) /\ line.statements \in Seq(Statement)
  BY LinesAssumption, Zenon DEF Statement

\* A variable declared at the end is named by its own name alone.
NamesOneMore(A, B, e) ==
  \A x : Named(B, x) = Named(A, x) \cup (IF e.id[2] = x THEN {Len(A.scope) + 1} ELSE {})

LEMMA NamedAppended ==
  ASSUME NEW A, NEW B, NEW e \in Entries,
         A.scope \in Seq(Entries), B.scope = Append(A.scope, e)
  PROVE  NamesOneMore(A, B, e)
<1>1. /\ Len(B.scope) = Len(A.scope) + 1 /\ Len(A.scope) \in Nat
      /\ \A i \in 1 .. Len(A.scope) : B.scope[i] = A.scope[i]
      /\ B.scope[Len(A.scope) + 1] = e
  OBVIOUS
<1>2. 1 .. Len(B.scope) = (1 .. Len(A.scope)) \cup {Len(A.scope) + 1}
  BY <1>1
<1> QED
  BY <1>1, <1>2 DEF Named, NamesOneMore

LEMMA LetAnalyzed ==
  ASSUME NEW line \in Lines, NEW n \in Nat, NEW i \in 1 .. Len(line.statements), NEW A,
         Analyzed(A, n, line, i - 1), scope \in Seq(Entries),
         line.statements[i].kind = "let"
  PROVE  Analyzed(AnalyzeStatement(A, n, line.statements[i]), n, line, i)
<1> DEFINE x == line.statements[i].name
           e == [id |-> <<n, x>>, slot |-> A.count]
           B == AnalyzeStatement(A, n, line.statements[i])
<1>0. line.statements \in Seq(Statement) /\ x \in STRING /\ i \in Nat /\ i - 1 \in Nat
  <2>1. line.statements \in Seq(Statement)
    BY LineTyped
  <2>2. line.statements[i] \in Statement /\ i \in Nat /\ i - 1 \in Nat
    BY <2>1
  <2> QED
    BY <2>1, <2>2 DEF Statement
<1>1. /\ A.scope \in Seq(Entries) /\ A.count \in Nat /\ A.ok \in BOOLEAN
      /\ A.table = Declare(n, line.functions) /\ A.count = Len(A.scope)
      /\ A = [scope |-> A.scope, table |-> A.table, count |-> A.count, ok |-> A.ok]
  BY DEF Analyzed, Analyses
<1>2. B = [scope |-> Append(A.scope, e), table |-> A.table, count |-> A.count + 1,
           ok |-> A.ok /\ Named(A, x) = {}]
  BY <1>1 DEF AnalyzeStatement, NewSlot
<1>3. e \in Entries /\ e.id[1] = n /\ e.id[2] = x /\ e.slot = Len(A.scope)
  BY <1>0, <1>1 DEF Entries, Ids
<1> HIDE DEF e, B, x
<1>4. B \in Analyses(n, line)
  BY <1>1, <1>2, <1>3 DEF Analyses
<1>5. /\ B.scope = Append(A.scope, e) /\ B.count = A.count + 1
      /\ B.ok <=> A.ok /\ Named(A, x) = {}
      /\ Len(B.scope) = Len(A.scope) + 1 /\ Len(A.scope) \in Nat /\ Len(scope) \in Nat
      /\ \A k \in 1 .. Len(A.scope) : B.scope[k] = A.scope[k]
      /\ B.scope[Len(A.scope) + 1] = e
  <2>1. B.scope = Append(A.scope, e) /\ B.count = A.count + 1 /\ B.ok = (A.ok /\ Named(A, x) = {})
    BY <1>2, Zenon
  <2>2. Len(scope) \in Nat
    OBVIOUS
  <2>3. /\ Len(Append(A.scope, e)) = Len(A.scope) + 1 /\ Len(A.scope) \in Nat
        /\ \A k \in 1 .. Len(A.scope) : Append(A.scope, e)[k] = A.scope[k]
        /\ Append(A.scope, e)[Len(A.scope) + 1] = e
    BY <1>1, <1>3
  <2> QED
    BY <2>1, <2>2, <2>3, Zenon
<1>6. /\ B.count = Len(B.scope) /\ Len(scope) <= Len(B.scope)
      /\ \A k \in 1 .. Len(scope) : B.scope[k] = scope[k]
  BY <1>1, <1>5 DEF Analyzed
<1>7. InOrder(B.scope)
  <2> SUFFICES ASSUME NEW k \in 1 .. Len(B.scope) PROVE B.scope[k].slot = k - 1
    BY DEF InOrder
  <2>1. CASE k \in 1 .. Len(A.scope)
    BY <1>5, <2>1 DEF Analyzed, InOrder
  <2>2. CASE k = Len(A.scope) + 1
    BY <1>3, <1>5, <2>2
  <2> QED
    BY <1>5, <2>1, <2>2
<1>8. \A y : Named(B, y) = Named(A, y) \cup (IF x = y THEN {Len(A.scope) + 1} ELSE {})
  <2> TAKE y
  <2>1. Named(B, y) = Named(A, y) \cup (IF e.id[2] = y THEN {Len(A.scope) + 1} ELSE {})
    <3>1. e \in Entries /\ A.scope \in Seq(Entries) /\ B.scope = Append(A.scope, e)
      BY <1>1, <1>3, <1>5
    <3> HIDE DEF B, e
    <3>2. NamesOneMore(A, B, e)
      BY <3>1, NamedAppended
    <3> QED
      BY <3>2 DEF NamesOneMore
  <2> QED
    BY <1>3, <2>1
<1>9. ASSUME NEW k \in Len(scope) + 1 .. Len(B.scope)
      PROVE  /\ B.scope[k].id[1] = n
             /\ \E j \in 1 .. i : /\ line.statements[j].kind = "let"
                                  /\ line.statements[j].name = B.scope[k].id[2]
             /\ B.ok => Named(B, B.scope[k].id[2]) = {k}
  <2>1. CASE k = Len(A.scope) + 1
    <3>1. B.scope[k].id[1] = n /\ B.scope[k].id[2] = x
      BY <1>3, <1>5, <2>1
    <3>2. i \in 1 .. i
      BY <1>0
    <3>3. B.ok => Named(B, x) = {k}
      BY <1>5, <1>8, <2>1
    <3> QED
      BY <3>1, <3>2, <3>3 DEF x
  <2>2. CASE k # Len(A.scope) + 1
    <3>1. k \in Len(scope) + 1 .. Len(A.scope) /\ B.scope[k] = A.scope[k] /\ k \in 1 .. Len(A.scope)
      BY <1>5, <2>2
    <3>2. /\ A.scope[k].id[1] = n
          /\ \E j \in 1 .. i - 1 : /\ line.statements[j].kind = "let"
                                   /\ line.statements[j].name = A.scope[k].id[2]
          /\ A.ok => Named(A, A.scope[k].id[2]) = {k}
      BY <3>1, Zenon DEF Analyzed
    <3>3. 1 .. i - 1 \subseteq 1 .. i
      BY <1>0
    <3>4. ASSUME B.ok
          PROVE  Named(B, A.scope[k].id[2]) = {k}
      <4>1. A.scope[k].id[2] # x
        <5>1. Named(A, x) = {}
          BY <1>5, <3>4
        <5>2. A.scope[k].id[2] = x => k \in Named(A, x)
          BY <3>1 DEF Named
        <5> QED
          BY <5>1, <5>2
      <4> QED
        BY <1>5, <1>8, <3>2, <3>4, <4>1
    <3> QED
      BY <3>1, <3>2, <3>3, <3>4
  <2> QED
    BY <2>1, <2>2
<1>10. ASSUME B.ok, NEW j \in 1 .. i, line.statements[j].kind \in {"let", "read", "store"}
       PROVE  Named(B, line.statements[j].name) # {}
  <2>1. CASE j = i
    BY <1>8, <2>1 DEF x
  <2>2. CASE j # i
    <3>1. j \in 1 .. i - 1
      BY <1>0, <2>2
    <3>2. Named(A, line.statements[j].name) # {}
      BY <1>5, <1>10, <3>1, Zenon DEF Analyzed
    <3> QED
      BY <1>8, <3>2
  <2> QED
    BY <2>1, <2>2
<1> QED
  BY <1>4, <1>6, <1>7, <1>9, <1>10, Zenon DEF Analyzed, B

LEMMA OtherAnalyzed ==
  ASSUME NEW line \in Lines, NEW n \in Nat, NEW i \in 1 .. Len(line.statements), NEW A,
         Analyzed(A, n, line, i - 1),
         line.statements[i].kind # "let"
  PROVE  Analyzed(AnalyzeStatement(A, n, line.statements[i]), n, line, i)
<1> DEFINE x == line.statements[i].name
           B == AnalyzeStatement(A, n, line.statements[i])
<1>0. line.statements \in Seq(Statement) /\ i \in Nat /\ line.statements[i] \in Statement
  BY LineTyped
<1>1. /\ A.scope \in Seq(Entries) /\ A.count \in Nat /\ A.ok \in BOOLEAN
      /\ A.table = Declare(n, line.functions)
      /\ A = [scope |-> A.scope, table |-> A.table, count |-> A.count, ok |-> A.ok]
  BY DEF Analyzed, Analyses
<1>2. /\ B = [scope |-> A.scope, table |-> A.table, count |-> A.count, ok |-> B.ok]
      /\ B.ok \in BOOLEAN /\ (B.ok => A.ok)
      /\ line.statements[i].kind \in {"let", "read", "store"} /\ B.ok => Named(A, x) # {}
  BY <1>0, <1>1 DEF AnalyzeStatement, Statement, StatementKinds
<1> HIDE DEF B, x
<1>3. /\ B \in Analyses(n, line) /\ B.scope = A.scope /\ B.count = A.count
  BY <1>1, <1>2 DEF Analyses
<1>4. \A y : Named(B, y) = Named(A, y)
  BY <1>3 DEF Named
<1>5. \A j \in 1 .. i : j = i \/ j \in 1 .. i - 1
  BY <1>0
<1>6. 1 .. i - 1 \subseteq 1 .. i
  BY <1>0
<1>7. ASSUME NEW k \in Len(scope) + 1 .. Len(B.scope)
      PROVE  /\ B.scope[k].id[1] = n
             /\ \E j \in 1 .. i : /\ line.statements[j].kind = "let"
                                  /\ line.statements[j].name = B.scope[k].id[2]
             /\ B.ok => Named(B, B.scope[k].id[2]) = {k}
  <2>1. /\ A.scope[k].id[1] = n
        /\ \E j \in 1 .. i - 1 : /\ line.statements[j].kind = "let"
                                 /\ line.statements[j].name = A.scope[k].id[2]
        /\ A.ok => Named(A, A.scope[k].id[2]) = {k}
    BY <1>3, Zenon DEF Analyzed
  <2> QED
    BY <1>2, <1>3, <1>4, <1>6, <2>1
<1>8. ASSUME B.ok, NEW j \in 1 .. i, line.statements[j].kind \in {"let", "read", "store"}
      PROVE  Named(B, line.statements[j].name) # {}
  <2>1. CASE j = i
    BY <1>2, <1>4, <1>8, <2>1 DEF x
  <2>2. CASE j # i
    <3>1. Named(A, line.statements[j].name) # {}
      BY <1>2, <1>5, <1>8, <2>2, Zenon DEF Analyzed
    <3> QED
      BY <1>4, <3>1
  <2> QED
    BY <2>1, <2>2
<1>9. /\ B.count = Len(B.scope) /\ InOrder(B.scope) /\ Len(scope) <= Len(B.scope)
      /\ \A k \in 1 .. Len(scope) : B.scope[k] = scope[k]
  BY <1>3, Zenon DEF Analyzed
<1> QED
  BY <1>3, <1>7, <1>8, <1>9, Zenon DEF Analyzed, B

LEMMA FragmentAnalyzed ==
  ASSUME NEW line \in Lines, NEW n \in Nat, scope \in Seq(Entries), global_count = Len(scope),
         InOrder(scope)
  PROVE  Analyzed(AnalyzeFragment(n, line), n, line, Len(line.statements))
<1> DEFINE N == Len(line.statements)
           Wrong == {i \in 0 .. N : ~Analyzed(Analysis(n, line)[i], n, line, i)}
<1>1. line.statements \in Seq(Statement) /\ N \in Nat
  BY LineTyped
<1>2. Analyzed(Beginning(n, line), n, line, 0)
  <2>1. AllNew(line.functions) \in BOOLEAN
    BY Zenon DEF AllNew, IsInjective
  <2>2. /\ Beginning(n, line) \in Analyses(n, line)
        /\ Beginning(n, line).scope = scope /\ Beginning(n, line).count = Len(scope)
    BY <2>1 DEF Beginning, Analyses
  <2>3. Len(scope) + 1 .. Len(scope) = {} /\ 1 .. 0 = {} /\ Len(scope) <= Len(scope)
    OBVIOUS
  <2> QED
    BY <2>2, <2>3, Zenon DEF Analyzed
<1>3. Wrong = {}
  <2> SUFFICES ASSUME Wrong # {} PROVE FALSE
    OBVIOUS
  <2> DEFINE m == Min(Wrong)
  <2>1. Wrong \subseteq Nat
    BY <1>1
  <2>2. m \in Wrong /\ \A l \in Wrong : m <= l
    BY <2>1, MinType, Zenon
  <2>3. m \in 0 .. N /\ ~Analyzed(Analysis(n, line)[m], n, line, m)
    BY <2>2, Zenon
  <2>4. m # 0
    BY <1>1, <1>2, <2>3, AnalysisIs, Zenon
  <2> HIDE DEF m
  <2>5. m - 1 \in 0 .. N /\ ~(m <= m - 1) /\ m \in 1 .. N
    BY <1>1, <2>3, <2>4
  <2>6. Analyzed(Analysis(n, line)[m - 1], n, line, m - 1)
    BY <2>2, <2>5, Zenon
  <2>7. Analyzed(AnalyzeStatement(Analysis(n, line)[m - 1], n, line.statements[m]), n, line, m)
    BY <2>5, <2>6, LetAnalyzed, OtherAnalyzed, Zenon
  <2> QED
    BY <1>1, <2>3, <2>5, <2>7, AnalysisIs, Zenon
<1>4. N \in 0 .. N
  BY <1>1
<1> QED
  BY <1>3, <1>4, Zenon DEF AnalyzeFragment

---------------------------------------------------------------------------
(* Execution.                                                              *)

\* What a line that may run can rely on.
Ready(A, n, line) ==
  /\ Analyzed(A, n, line, Len(line.statements)) /\ A.ok
  /\ Match(globals, scope)
  /\ \A k \in 1 .. Len(A.scope) : A.scope[k].id # Unset

\* After i statements the globals match the analyzer's, none that had a value
\* has lost it, and each declaration run has given one to its variable.
Executed(R, A, line, i) ==
  /\ R \in [globals : Seq(Contents), end : Ends]
  /\ Len(R.globals) = Len(A.scope)
  /\ \A k \in 1 .. Len(A.scope) : R.globals[k] \in {Unset, A.scope[k].id}
  /\ \A k \in 1 .. Len(globals) : globals[k] # Unset => R.globals[k] = globals[k]
  /\ R.end = "halted" =>
       \A j \in 1 .. i : line.statements[j].kind = "let" =>
         \A k : Named(A, line.statements[j].name) = {k} => R.globals[k] # Unset

LEMMA NamedIs ==
  ASSUME NEW A, NEW x, A.scope \in Seq(Entries), Named(A, x) # {}
  PROVE  Max(Named(A, x)) \in 1 .. Len(A.scope)
<1>1. Named(A, x) \subseteq 1 .. Len(A.scope) /\ Len(A.scope) \in Nat
  BY DEF Named
<1>2. Max(Named(A, x)) \in Named(A, x)
  BY <1>1, MaxType
<1> QED
  BY <1>1, <1>2

LEMMA StoreExecuted ==
  ASSUME NEW line \in Lines, NEW n \in Nat, NEW i \in 1 .. Len(line.statements), NEW A, NEW R,
         Ready(A, n, line), Executed(R, A, line, i - 1),
         R.end = "halted", line.statements[i].kind \in {"let", "store"}
  PROVE  Executed(RunStatement(R, A, line.statements[i]), A, line, i)
<1> DEFINE x == line.statements[i].name
           k0 == Max(Named(A, x))
           Q == RunStatement(R, A, line.statements[i])
<1>0. line.statements \in Seq(Statement) /\ i \in Nat
  BY LineTyped
<1>1. /\ A.scope \in Seq(Entries) /\ InOrder(A.scope) /\ Len(A.scope) \in Nat
      /\ Named(A, x) # {}
      /\ \A k \in 1 .. Len(A.scope) : A.scope[k].id # Unset
  <2>1. A.scope \in Seq(Entries) /\ InOrder(A.scope)
    BY DEF Ready, Analyzed, Analyses
  <2>2. Named(A, x) # {}
    BY Zenon DEF Ready, Analyzed
  <2> QED
    BY <2>1, <2>2 DEF Ready
<1>2. /\ k0 \in 1 .. Len(A.scope)
      /\ \A k : Named(A, x) = {k} => k \in 1 .. Len(A.scope) /\ k = k0
  <2>1. k0 \in 1 .. Len(A.scope)
    BY <1>1, NamedIs
  <2>2. ASSUME NEW k, Named(A, x) = {k}
        PROVE  k \in 1 .. Len(A.scope) /\ k = k0
    <3>1. k \in 1 .. Len(A.scope)
      BY <2>2 DEF Named
    <3> QED
      BY <1>1, <2>2, <3>1, MaxOfOne
  <2> QED
    BY <2>1, <2>2
<1>3. A.scope[k0] \in Entries /\ A.scope[k0].id \in Contents /\ A.scope[k0].slot + 1 = k0
  <2>1. A.scope[k0] \in Entries /\ A.scope[k0].slot = k0 - 1 /\ k0 \in Int
    BY <1>1, <1>2 DEF InOrder
  <2> QED
    BY <2>1 DEF Entries, Contents
<1>4. /\ R.globals \in Seq(Contents) /\ Len(R.globals) = Len(A.scope)
      /\ R = [globals |-> R.globals, end |-> R.end]
      /\ \A k \in 1 .. Len(A.scope) : R.globals[k] \in {Unset, A.scope[k].id}
  BY DEF Executed
<1>5. Q = [R EXCEPT !.globals[k0] = A.scope[k0].id]
  <2>1. Q = [R EXCEPT !.globals[A.scope[k0].slot + 1] = A.scope[k0].id]
    BY DEF RunStatement
  <2> QED
    BY <1>3, <2>1
<1> HIDE DEF x, k0, Q
<1>6. /\ Q = [globals |-> [R.globals EXCEPT ![k0] = A.scope[k0].id], end |-> "halted"]
      /\ Q.globals \in Seq(Contents) /\ Q.end = "halted"
      /\ Len(Q.globals) = Len(A.scope)
      /\ \A k \in 1 .. Len(A.scope) :
           Q.globals[k] = IF k = k0 THEN A.scope[k0].id ELSE R.globals[k]
  <2>1. Q = [globals |-> [R.globals EXCEPT ![k0] = A.scope[k0].id], end |-> "halted"]
    BY <1>4, <1>5
  <2> QED
    BY <1>2, <1>3, <1>4, <2>1
<1>7. \A k \in 1 .. Len(A.scope) : Q.globals[k] \in {Unset, A.scope[k].id}
  BY <1>4, <1>6
<1>8. \A k \in 1 .. Len(globals) : globals[k] # Unset => Q.globals[k] = globals[k]
  <2> TAKE k \in 1 .. Len(globals)
  <2>1. k \in 1 .. Len(A.scope)
    BY DEF Ready, Match, Analyzed, Analyses
  <2>2. globals[k] # Unset => R.globals[k] = globals[k]
    BY Zenon DEF Executed
  <2> QED
    BY <1>4, <1>6, <2>1, <2>2
<1>9. ASSUME NEW j \in 1 .. i, line.statements[j].kind = "let",
             NEW k, Named(A, line.statements[j].name) = {k}
      PROVE  Q.globals[k] # Unset
  <2>1. CASE j = i
    BY <1>1, <1>2, <1>6, <1>9, <2>1 DEF x
  <2>2. CASE j # i
    <3>1. j \in 1 .. i - 1
      BY <1>0, <2>2
    <3>2. R.globals[k] # Unset
      BY <1>9, <3>1, Zenon DEF Executed
    <3>3. k \in 1 .. Len(A.scope)
      BY <1>9 DEF Named
    <3> QED
      BY <1>1, <1>6, <3>2, <3>3
  <2> QED
    BY <2>1, <2>2
<1> QED
  BY <1>6, <1>7, <1>8, <1>9 DEF Executed, Q

LEMMA OtherExecuted ==
  ASSUME NEW line \in Lines, NEW i \in 1 .. Len(line.statements), NEW A, NEW R,
         Executed(R, A, line, i - 1),
         R.end # "halted" \/ line.statements[i].kind \notin {"let", "store"}
  PROVE  Executed(RunStatement(R, A, line.statements[i]), A, line, i)
<1> DEFINE Q == RunStatement(R, A, line.statements[i])
<1>0. line.statements \in Seq(Statement) /\ i \in Nat /\ line.statements[i] \in Statement
  BY LineTyped
<1>1. R \in [globals : Seq(Contents), end : Ends]
  BY DEF Executed
<1>2. /\ Q \in [globals : Seq(Contents), end : Ends] /\ Q.globals = R.globals
      /\ Q.end = "halted" => R.end = "halted"
  <2>1. CASE R.end # "halted"
    <3>1. Q = R
      BY <2>1 DEF RunStatement
    <3> QED
      BY <1>1, <2>1, <3>1
  <2>2. CASE R.end = "halted" /\ line.statements[i].kind = "read"
    <3>1. Q = [R EXCEPT !.end = "internal"] \/ Q = [R EXCEPT !.end = R.end]
      BY <2>2 DEF RunStatement
    <3> QED
      BY <1>1, <2>2, <3>1 DEF Ends
  <2>3. CASE R.end = "halted" /\ line.statements[i].kind \in {"exit0", "exit3", "fail"}
    <3>1. Q = [R EXCEPT !.end = line.statements[i].kind]
      BY <2>3 DEF RunStatement
    <3> QED
      BY <1>1, <2>3, <3>1 DEF Ends
  <2>4. CASE R.end = "halted" /\ line.statements[i].kind \in {"call", "wrong"}
    <3>1. Q = R
      BY <2>4 DEF RunStatement
    <3> QED
      BY <1>1, <2>4, <3>1
  <2> QED
    BY <1>0, <2>1, <2>2, <2>3, <2>4 DEF Statement, StatementKinds
<1> HIDE DEF Q
<1>3. ASSUME Q.end = "halted", NEW j \in 1 .. i, line.statements[j].kind = "let",
             NEW k, Named(A, line.statements[j].name) = {k}
      PROVE  Q.globals[k] # Unset
  <2>1. j # i
    BY <1>2, <1>3
  <2>2. j \in 1 .. i - 1
    BY <1>0, <2>1
  <2>3. R.globals[k] # Unset
    BY <1>2, <1>3, <2>2, Zenon DEF Executed
  <2> QED
    BY <1>2, <2>3
<1> QED
  BY <1>2, <1>3 DEF Executed, Q

LEMMA LineExecuted ==
  ASSUME NEW line \in Lines, NEW n \in Nat, NEW A, Ready(A, n, line)
  PROVE  Executed(Run(A, line), A, line, Len(line.statements))
<1> DEFINE N == Len(line.statements)
           Wrong == {i \in 0 .. N : ~Executed(Execution(A, line)[i], A, line, i)}
<1>1. line.statements \in Seq(Statement) /\ N \in Nat
  BY LineTyped
<1>2. Executed(Adopted(A), A, line, 0)
  <2>1. /\ A.scope \in Seq(Entries) /\ A.count = Len(A.scope) /\ A.count \in Nat
        /\ Len(scope) <= Len(A.scope)
        /\ \A k \in 1 .. Len(scope) : A.scope[k] = scope[k]
    BY DEF Ready, Analyzed, Analyses
  <2>2. /\ globals \in Seq(Contents) /\ Len(globals) <= Len(scope)
        /\ \A k \in 1 .. Len(globals) : globals[k] \in {Unset, scope[k].id}
    BY DEF Ready, Match
  <2> DEFINE gs == AdoptGlobals(A.count)
  <2>3. /\ gs \in Seq(Contents) /\ Len(gs) = Len(A.scope)
        /\ \A k \in 1 .. Len(A.scope) : gs[k] = IF k <= Len(globals) THEN globals[k] ELSE Unset
    BY <2>1, <2>2 DEF AdoptGlobals, Contents
  <2> HIDE DEF gs
  <2>4. \A k \in 1 .. Len(A.scope) : gs[k] \in {Unset, A.scope[k].id}
    <3> TAKE k \in 1 .. Len(A.scope)
    <3>1. CASE k <= Len(globals)
      <4>1. k \in 1 .. Len(globals) /\ k \in 1 .. Len(scope)
        BY <2>1, <2>2, <3>1
      <4> QED
        BY <2>1, <2>2, <2>3, <3>1, <4>1
    <3>2. CASE ~(k <= Len(globals))
      BY <2>3, <3>2
    <3> QED
      BY <3>1, <3>2
  <2>5. \A k \in 1 .. Len(globals) : gs[k] = globals[k]
    BY <2>1, <2>2, <2>3
  <2>6. Adopted(A) = [globals |-> gs, end |-> "halted"]
    BY DEF Adopted, gs
  <2>7. \A j \in 1 .. 0 : FALSE
    OBVIOUS
  <2> QED
    BY <2>3, <2>4, <2>5, <2>6, <2>7 DEF Executed, Ends
<1>3. Wrong = {}
  <2> SUFFICES ASSUME Wrong # {} PROVE FALSE
    OBVIOUS
  <2> DEFINE m == Min(Wrong)
  <2>1. Wrong \subseteq Nat
    BY <1>1
  <2>2. m \in Wrong /\ \A l \in Wrong : m <= l
    BY <2>1, MinType, Zenon
  <2>3. m \in 0 .. N /\ ~Executed(Execution(A, line)[m], A, line, m)
    BY <2>2, Zenon
  <2>4. m # 0
    BY <1>1, <1>2, <2>3, ExecutionIs, Zenon
  <2> HIDE DEF m
  <2>5. m - 1 \in 0 .. N /\ ~(m <= m - 1) /\ m \in 1 .. N
    BY <1>1, <2>3, <2>4
  <2>6. Executed(Execution(A, line)[m - 1], A, line, m - 1)
    BY <2>2, <2>5, Zenon
  <2>7. Executed(RunStatement(Execution(A, line)[m - 1], A, line.statements[m]), A, line, m)
    BY <2>5, <2>6, StoreExecuted, OtherExecuted, Zenon
  <2> QED
    BY <1>1, <2>3, <2>5, <2>7, ExecutionIs, Zenon
<1>4. N \in 0 .. N
  BY <1>1
<1> QED
  BY <1>3, <1>4, Zenon DEF Run

---------------------------------------------------------------------------
(* The steps.                                                              *)

\* The entry e is that of the function f which line n is the first to declare: the
\* functions of a line get the places behind those there are.
Placed(e, n, f, fs) ==
  /\ e.id = <<n, f>>
  /\ \E j \in 1 .. Len(fs) : fs[j] = f /\ e.index = Len(functions) + j - 1

LEMMA DeclareIs ==
  ASSUME NEW n \in Nat, NEW fs, fs \in Seq(STRING), NEW f, f \in DOMAIN Declare(n, fs)
  PROVE  /\ f \in DOMAIN table => Declare(n, fs)[f] = table[f]
         /\ f \notin DOMAIN table => Placed(Declare(n, fs)[f], n, f, fs)
<1> DEFINE S == {i \in DOMAIN fs : fs[i] = f}
<1>1. f \in DOMAIN table \cup ToSet(fs)
  BY DEF Declare
<1>2. CASE f \in DOMAIN table
  BY <1>1, <1>2 DEF Declare
<1>3. CASE f \notin DOMAIN table
  <2>1. S \subseteq Nat /\ S # {}
    BY <1>1, <1>3 DEF ToSet
  <2>2. Min(S) \in S
    BY <2>1, MinType, Zenon
  <2>3. Declare(n, fs)[f] = [id |-> <<n, f>>, index |-> Len(functions) + Min(S) - 1]
    BY <1>1, <1>3 DEF Declare, FirstIndex
  <2> DEFINE j == Min(S)
  <2>4. j \in 1 .. Len(fs) /\ fs[j] = f
    BY <2>2
  <2> HIDE DEF j
  <2>5. /\ Declare(n, fs)[f].id = <<n, f>>
        /\ Declare(n, fs)[f].index = Len(functions) + j - 1
    <3>1. Declare(n, fs)[f] = [id |-> <<n, f>>, index |-> Len(functions) + j - 1]
      BY <2>3, Zenon DEF j
    <3> QED
      BY <3>1
  <2> QED
    BY <1>3, <2>4, <2>5 DEF Placed
<1> QED
  BY <1>2, <1>3

\* What a line, accepted or not, leaves in the analyzer.
LEMMA AnalyzerAfter ==
  ASSUME ReplInv, NEW line \in Lines, NEW A, A = AnalyzeFragment(fragment + 1, line)
  PROVE  /\ Analyzed(A, fragment + 1, line, Len(line.statements))
         /\ A.scope \in Seq(Entries) /\ A.count = Len(A.scope) /\ InOrder(A.scope)
         /\ Len(scope) <= Len(A.scope)
         /\ \A k \in 1 .. Len(scope) : A.scope[k] = scope[k]
         /\ \A k \in Len(scope) + 1 .. Len(A.scope) : A.scope[k].id[1] = fragment + 1
         /\ \A k \in 1 .. Len(A.scope) : A.scope[k].id[1] \in 1 .. fragment + 1
         /\ A.table = Declare(fragment + 1, line.functions)
         /\ \A f \in DOMAIN A.table :
              A.table[f].id[1] \in 1 .. fragment + 1 /\ A.table[f].index \in Nat
<1>1. /\ scope \in Seq(Entries) /\ global_count = Len(scope) /\ InOrder(scope)
      /\ functions \in Seq(Ids) /\ fragment \in Nat /\ fragment + 1 \in Nat
  BY DEF ReplInv, Numbered
<1>2. Analyzed(A, fragment + 1, line, Len(line.statements))
  BY <1>1, FragmentAnalyzed
<1>3. /\ A.scope \in Seq(Entries) /\ A.count = Len(A.scope) /\ InOrder(A.scope)
      /\ Len(scope) <= Len(A.scope)
      /\ \A k \in 1 .. Len(scope) : A.scope[k] = scope[k]
      /\ A.table = Declare(fragment + 1, line.functions)
  BY <1>2 DEF Analyzed, Analyses
<1>4. \A k \in Len(scope) + 1 .. Len(A.scope) : A.scope[k].id[1] = fragment + 1
  BY <1>2, Zenon DEF Analyzed
<1>5. \A k \in 1 .. Len(A.scope) : A.scope[k].id[1] \in 1 .. fragment + 1
  <2> TAKE k \in 1 .. Len(A.scope)
  <2>1. CASE k \in 1 .. Len(scope)
    <3>1. A.scope[k].id[1] \in 1 .. fragment
      BY <1>3, <2>1, Zenon DEF ReplInv, Numbered
    <3> QED
      BY <1>1, <3>1
  <2>2. CASE k \in Len(scope) + 1 .. Len(A.scope)
    <3>1. A.scope[k].id[1] = fragment + 1
      BY <1>4, <2>2
    <3> QED
      BY <1>1, <3>1
  <2> QED
    BY <1>1, <1>3, <2>1, <2>2
<1>6. ASSUME NEW f \in DOMAIN A.table
      PROVE  A.table[f].id[1] \in 1 .. fragment + 1 /\ A.table[f].index \in Nat
  <2>1. line.functions \in Seq(STRING)
    BY LineTyped
  <2>2. CASE f \in DOMAIN table
    <3>1. A.table[f] = table[f]
      <4>1. f \in DOMAIN Declare(fragment + 1, line.functions)
        BY <1>3, <1>6, Zenon
      <4>2. Declare(fragment + 1, line.functions)[f] = table[f]
        BY <1>1, <2>1, <2>2, <4>1, DeclareIs
      <4> QED
        BY <1>3, <4>2, Zenon
    <3>2. table[f].id[1] \in 1 .. fragment /\ table[f].index \in Nat
      BY <2>2, Zenon DEF ReplInv, Numbered
    <3> QED
      BY <1>1, <3>1, <3>2
  <2>3. CASE f \notin DOMAIN table
    <3>1. Placed(A.table[f], fragment + 1, f, line.functions)
      BY <1>1, <1>3, <1>6, <2>1, <2>3, DeclareIs, Zenon
    <3> QED
      BY <1>1, <2>1, <3>1 DEF Placed
  <2> QED
    BY <2>2, <2>3
<1> QED
  BY <1>2, <1>3, <1>4, <1>5, <1>6, Zenon

LEMMA RejectKeeps ==
  ASSUME ReplInv, NEW line \in Lines, Reject(line)
  PROVE  ReplInv'
<1> DEFINE n == fragment + 1
<1>1. PICK A : A = AnalyzeFragment(n, line)
  OBVIOUS
<1>2. /\ status = "open" /\ fragment' = n
      /\ scope' = A.scope /\ table' = A.table /\ global_count' = A.count
      /\ ends' = Append(ends, "rejected")
      /\ functions' = functions /\ globals' = globals /\ history' = history /\ status' = status
  BY <1>1 DEF Reject, Typed, KeepAnalysis, module
<1>3. /\ A.scope \in Seq(Entries) /\ A.count = Len(A.scope) /\ InOrder(A.scope)
      /\ Len(scope) <= Len(A.scope)
      /\ \A k \in 1 .. Len(scope) : A.scope[k] = scope[k]
      /\ \A k \in Len(scope) + 1 .. Len(A.scope) : A.scope[k].id[1] = n
      /\ \A k \in 1 .. Len(A.scope) : A.scope[k].id[1] \in 1 .. n
      /\ A.table = Declare(n, line.functions)
      /\ \A f \in DOMAIN A.table : A.table[f].id[1] \in 1 .. n /\ A.table[f].index \in Nat
  BY <1>1, AnalyzerAfter, Zenon
<1>4. /\ fragment \in Nat /\ Len(ends) = fragment /\ history \subseteq 1 .. fragment
      /\ ends \in Seq(Ends \cup {"rejected"}) /\ scope \in Seq(Entries) /\ functions \in Seq(Ids)
  BY <1>2 DEF ReplInv, Numbered
<1>5. /\ ends' \in Seq(Ends \cup {"rejected"}) /\ Len(ends') = n
      /\ \A i \in 1 .. fragment : ends'[i] = ends[i]
  BY <1>2, <1>4
<1>6. n \notin history /\ 1 .. fragment \subseteq 1 .. n /\ n \in Nat
  BY <1>4
<1>7. Numbered'
  BY <1>2, <1>3, <1>4, <1>5, <1>6 DEF Numbered
<1>8. Match(globals, A.scope)
  <2>1. /\ globals \in Seq(Contents) /\ Len(globals) <= Len(scope)
        /\ \A k \in 1 .. Len(globals) : globals[k] \in {Unset, scope[k].id}
    BY DEF ReplInv, Match
  <2>2. 1 .. Len(globals) \subseteq 1 .. Len(scope) /\ Len(globals) <= Len(A.scope)
    BY <1>3, <1>4, <2>1
  <2> QED
    BY <1>3, <2>1, <2>2 DEF Match
<1>9. Filled'
  <2> SUFFICES ASSUME NEW k \in 1 .. Len(A.scope), A.scope[k].id[1] \in history
               PROVE  /\ k \in 1 .. Len(globals)
                      /\ globals[k] = Unset => ends'[A.scope[k].id[1]] # "halted"
    BY <1>2, Zenon DEF Filled
  <2>1. k \in 1 .. Len(scope)
    <3>1. k \notin Len(scope) + 1 .. Len(A.scope)
      BY <1>3, <1>6
    <3> QED
      BY <1>3, <1>4, <3>1
  <2>2. A.scope[k] = scope[k] /\ scope[k].id[1] \in 1 .. fragment
    BY <1>3, <1>4, <2>1
  <2> QED
    BY <1>5, <2>1, <2>2, Zenon DEF ReplInv, Filled
<1>10. FunctionsWhereDeclared'
  <2> SUFFICES ASSUME NEW f \in DOMAIN A.table, A.table[f].id[1] \in history
               PROVE  /\ A.table[f].index < Len(functions)
                      /\ functions[A.table[f].index + 1] = A.table[f].id
    BY <1>2, Zenon DEF FunctionsWhereDeclared
  <2>1. line.functions \in Seq(STRING)
    BY LineTyped
  <2>2. f \in DOMAIN table
    <3>1. ASSUME f \notin DOMAIN table PROVE FALSE
      <4>1. Placed(A.table[f], n, f, line.functions)
        BY <1>3, <1>6, <2>1, <3>1, DeclareIs, Zenon
      <4> QED
        BY <1>6, <4>1 DEF Placed
    <3> QED
      BY <3>1
  <2>3. A.table[f] = table[f]
    <3>1. f \in DOMAIN Declare(n, line.functions) /\ A.table = Declare(n, line.functions)
      BY <1>3, Zenon
    <3>2. Declare(n, line.functions)[f] = table[f]
      BY <1>6, <2>1, <2>2, <3>1, DeclareIs
    <3> QED
      BY <3>1, <3>2, Zenon
  <2> QED
    BY <2>2, <2>3, Zenon DEF ReplInv, FunctionsWhereDeclared
<1> QED
  BY <1>2, <1>3, <1>4, <1>7, <1>8, <1>9, <1>10, Zenon DEF ReplInv

\* One sequence behind another.
Joined(u, s, t) ==
  /\ Len(u) = Len(s) + Len(t)
  /\ \A i \in 1 .. Len(s) : u[i] = s[i]
  /\ \A i \in 1 .. Len(t) : u[Len(s) + i] = t[i]

LEMMA ConcatIs ==
  ASSUME NEW S, NEW s, s \in Seq(S), NEW t, t \in Seq(S)
  PROVE  s \o t \in Seq(S) /\ Joined(s \o t, s, t)
<1>1. s \o t \in Seq(S) /\ Len(s \o t) = Len(s) + Len(t) /\ Len(s) \in Nat /\ Len(t) \in Nat
  OBVIOUS
<1>2. \A i \in 1 .. Len(s) + Len(t) : (s \o t)[i] = IF i <= Len(s) THEN s[i] ELSE t[i - Len(s)]
  OBVIOUS
<1>3. ASSUME NEW i \in 1 .. Len(t)
      PROVE  (s \o t)[Len(s) + i] = t[i]
  <2>1. Len(s) + i \in 1 .. Len(s) + Len(t) /\ ~(Len(s) + i <= Len(s)) /\ (Len(s) + i) - Len(s) = i
    BY <1>1
  <2> QED
    BY <1>2, <2>1
<1>4. ASSUME NEW i \in 1 .. Len(s)
      PROVE  (s \o t)[i] = s[i]
  <2>1. i \in 1 .. Len(s) + Len(t) /\ i <= Len(s)
    BY <1>1
  <2> QED
    BY <1>2, <2>1
<1> QED
  BY <1>1, <1>3, <1>4, Zenon DEF Joined

\* The run of a line that was accepted.
LEMMA AcceptedRuns ==
  ASSUME ReplInv, NEW line \in Lines, NEW A, A = AnalyzeFragment(fragment + 1, line), A.ok
  PROVE  Executed(Run(A, line), A, line, Len(line.statements))
<1>1. /\ Analyzed(A, fragment + 1, line, Len(line.statements))
      /\ A.scope \in Seq(Entries)
      /\ \A k \in 1 .. Len(A.scope) : A.scope[k].id[1] \in 1 .. fragment + 1
  BY AnalyzerAfter, Zenon
<1>2. fragment \in Nat /\ fragment + 1 \in Nat
  BY DEF ReplInv, Numbered
<1>3. \A k \in 1 .. Len(A.scope) : A.scope[k].id # Unset
  BY <1>1, <1>2 DEF Unset
<1>4. Ready(A, fragment + 1, line)
  BY <1>1, <1>3, Zenon DEF Ready, ReplInv
<1> QED
  BY <1>2, <1>4, LineExecuted, Zenon

LEMMA AcceptKeeps ==
  ASSUME ReplInv, NEW line \in Lines, Accept(line)
  PROVE  ReplInv'
<1> DEFINE n  == fragment + 1
           fs == line.functions
<1>1. PICK A : A = AnalyzeFragment(n, line)
  OBVIOUS
<1>2. PICK R : R = Run(A, line)
  OBVIOUS
<1>3. /\ status = "open" /\ fragment' = n /\ A.ok
      /\ scope' = A.scope /\ table' = A.table /\ global_count' = A.count
      /\ functions' = functions \o [i \in 1 .. Len(fs) |-> <<n, fs[i]>>]
      /\ globals' = R.globals /\ history' = history \cup {n} /\ ends' = Append(ends, R.end)
  BY <1>1, <1>2 DEF Accept, Typed, KeepAnalysis
<1>4. /\ A.scope \in Seq(Entries) /\ A.count = Len(A.scope) /\ InOrder(A.scope)
      /\ Len(scope) <= Len(A.scope)
      /\ \A k \in 1 .. Len(scope) : A.scope[k] = scope[k]
      /\ \A k \in 1 .. Len(A.scope) : A.scope[k].id[1] \in 1 .. n
      /\ A.table = Declare(n, fs)
      /\ \A f \in DOMAIN A.table : A.table[f].id[1] \in 1 .. n /\ A.table[f].index \in Nat
  BY <1>1, AnalyzerAfter, Zenon
<1>5. \A k \in Len(scope) + 1 .. Len(A.scope) :
        /\ A.scope[k].id[1] = n
        /\ \E j \in 1 .. Len(line.statements) :
             line.statements[j].kind = "let" /\ line.statements[j].name = A.scope[k].id[2]
        /\ Named(A, A.scope[k].id[2]) = {k}
  <2>1. Analyzed(A, n, line, Len(line.statements))
    BY <1>1, AnalyzerAfter, Zenon
  <2> QED
    BY <1>3, <2>1, Zenon DEF Analyzed
<1>6. Executed(R, A, line, Len(line.statements))
  BY <1>1, <1>2, <1>3, AcceptedRuns, Zenon
<1>7. /\ R.globals \in Seq(Contents) /\ R.end \in Ends /\ Len(R.globals) = Len(A.scope)
      /\ \A k \in 1 .. Len(A.scope) : R.globals[k] \in {Unset, A.scope[k].id}
      /\ \A k \in 1 .. Len(globals) : globals[k] # Unset => R.globals[k] = globals[k]
  BY <1>6 DEF Executed
<1>8. /\ fragment \in Nat /\ Len(ends) = fragment /\ history \subseteq 1 .. fragment
      /\ ends \in Seq(Ends \cup {"rejected"}) /\ scope \in Seq(Entries) /\ functions \in Seq(Ids)
      /\ globals \in Seq(Contents) /\ fs \in Seq(STRING)
  BY <1>3, LineTyped DEF ReplInv, Numbered, Match
<1>9. /\ ends' \in Seq(Ends \cup {"rejected"}) /\ Len(ends') = n
      /\ ends'[n] = R.end /\ \A i \in 1 .. fragment : ends'[i] = ends[i]
  BY <1>3, <1>7, <1>8
<1>10. n \notin history /\ 1 .. fragment \subseteq 1 .. n /\ n \in 1 .. n /\ n \in Nat
  BY <1>8
<1>11. Numbered'
  BY <1>3, <1>4, <1>8, <1>9, <1>10 DEF Numbered
<1>12. Match(globals', scope')
  BY <1>3, <1>4, <1>7 DEF Match
<1>13. /\ functions' \in Seq(Ids) /\ Len(functions') = Len(functions) + Len(fs)
       /\ \A i \in 1 .. Len(functions) : functions'[i] = functions[i]
       /\ \A i \in 1 .. Len(fs) : functions'[Len(functions) + i] = <<n, fs[i]>>
  <2> DEFINE added == [i \in 1 .. Len(fs) |-> <<n, fs[i]>>]
  <2>1. \A i \in 1 .. Len(fs) : <<n, fs[i]>> \in Ids
    BY <1>8, <1>10 DEF Ids
  <2>2. /\ added \in Seq(Ids) /\ Len(added) = Len(fs)
        /\ \A i \in 1 .. Len(fs) : added[i] = <<n, fs[i]>>
    BY <1>8, <2>1
  <2> HIDE DEF added
  <2>3. functions' = functions \o added
    BY <1>3, Zenon DEF added
  <2>4. functions' \in Seq(Ids) /\ Joined(functions', functions, added)
    BY <1>8, <2>2, <2>3, ConcatIs
  <2>5. \A i \in 1 .. Len(fs) : functions'[Len(functions) + i] = <<n, fs[i]>>
    BY <2>2, <2>4, Zenon DEF Joined
  <2> QED
    BY <2>2, <2>4, <2>5, Zenon DEF Joined
<1>14. Filled'
  <2> SUFFICES ASSUME NEW k \in 1 .. Len(A.scope), A.scope[k].id[1] \in history \cup {n}
               PROVE  /\ k \in 1 .. Len(R.globals)
                      /\ R.globals[k] = Unset => ends'[A.scope[k].id[1]] # "halted"
    BY <1>3, Zenon DEF Filled
  <2>1. CASE k \in 1 .. Len(scope)
    <3>1. A.scope[k] = scope[k] /\ scope[k].id[1] \in 1 .. fragment
      BY <1>4, <2>1, Zenon DEF ReplInv, Numbered
    <3>2. scope[k].id[1] \in history /\ ends'[scope[k].id[1]] = ends[scope[k].id[1]]
      BY <1>8, <1>9, <3>1
    <3>3. k \in 1 .. Len(globals) /\ (globals[k] = Unset => ends[scope[k].id[1]] # "halted")
      BY <2>1, <3>2, Zenon DEF ReplInv, Filled
    <3>4. R.globals[k] = Unset => globals[k] = Unset
      BY <1>7, <3>3, Zenon
    <3> QED
      BY <1>7, <3>1, <3>2, <3>3, <3>4
  <2>2. CASE k \in Len(scope) + 1 .. Len(A.scope)
    <3>1. A.scope[k].id[1] = n /\ Named(A, A.scope[k].id[2]) = {k}
      BY <1>5, <2>2, Zenon
    <3>2. PICK j \in 1 .. Len(line.statements) :
            line.statements[j].kind = "let" /\ line.statements[j].name = A.scope[k].id[2]
      BY <1>5, <2>2, Zenon
    <3>3. R.end = "halted" => R.globals[k] # Unset
      <4>1. Named(A, line.statements[j].name) = {k}
        BY <3>1, <3>2, Zenon
      <4> QED
        BY <1>6, <3>2, <4>1, Zenon DEF Executed
    <3> QED
      BY <1>7, <1>9, <3>1, <3>3
  <2> QED
    BY <1>4, <1>8, <2>1, <2>2
<1>15. FunctionsWhereDeclared'
  <2> SUFFICES ASSUME NEW f \in DOMAIN A.table, A.table[f].id[1] \in history'
               PROVE  /\ A.table[f].index < Len(functions')
                      /\ functions'[A.table[f].index + 1] = A.table[f].id
    BY <1>3, Zenon DEF FunctionsWhereDeclared
  <2>1. f \in DOMAIN Declare(n, fs) /\ A.table = Declare(n, fs)
    BY <1>4, Zenon
  <2>2. Len(functions) \in Nat /\ Len(fs) \in Nat
    BY <1>8
  <2>3. CASE f \in DOMAIN table
    <3>1. A.table[f] = table[f]
      <4>1. Declare(n, fs)[f] = table[f]
        BY <1>8, <1>10, <2>1, <2>3, DeclareIs
      <4> QED
        BY <2>1, <4>1, Zenon
    <3>2. table[f].id[1] \in 1 .. fragment /\ table[f].index \in Nat
      BY <2>3, Zenon DEF ReplInv, Numbered
    <3>3. table[f].id[1] \in history
      BY <1>3, <1>8, <3>1, <3>2
    <3>4. table[f].index < Len(functions) /\ functions[table[f].index + 1] = table[f].id
      BY <2>3, <3>3, Zenon DEF ReplInv, FunctionsWhereDeclared
    <3>5. table[f].index + 1 \in 1 .. Len(functions)
      BY <2>2, <3>2, <3>4
    <3> QED
      BY <1>13, <2>2, <3>1, <3>2, <3>4, <3>5
  <2>4. CASE f \notin DOMAIN table
    <3>1. Placed(A.table[f], n, f, fs)
      BY <1>8, <1>10, <2>1, <2>4, DeclareIs, Zenon
    <3>2. PICK j \in 1 .. Len(fs) : fs[j] = f /\ A.table[f].index = Len(functions) + j - 1
      BY <3>1 DEF Placed
    <3>3. A.table[f].id = <<n, f>>
      BY <3>1, Zenon DEF Placed
    <3>4. A.table[f].index + 1 = Len(functions) + j /\ A.table[f].index < Len(functions) + Len(fs)
      BY <2>2, <3>2
    <3> QED
      BY <1>13, <3>2, <3>3, <3>4
  <2> QED
    BY <2>3, <2>4
<1> QED
  BY <1>3, <1>4, <1>11, <1>12, <1>13, <1>14, <1>15, Zenon DEF ReplInv

LEMMA CrashKeeps ==
  ASSUME ReplInv, NEW line \in Lines, Crash(line)
  PROVE  ReplInv'
<1>1. /\ fragment' = fragment + 1 /\ status' = "crashed"
      /\ scope' = scope /\ table' = table /\ global_count' = global_count
      /\ functions' = functions /\ globals' = globals /\ history' = history /\ ends' = ends
  BY DEF Crash, Typed, analyzer, module
<1>2. Numbered'
  <2>1. /\ fragment \in Nat /\ ends \in Seq(Ends \cup {"rejected"}) /\ Len(ends) <= fragment
        /\ history \subseteq 1 .. Len(ends)
        /\ \A k \in 1 .. Len(scope) : scope[k].id[1] \in 1 .. fragment
        /\ \A f \in DOMAIN table : table[f].id[1] \in 1 .. fragment /\ table[f].index \in Nat
    BY DEF ReplInv, Numbered
  <2>2. /\ fragment + 1 \in Nat /\ Len(ends) <= fragment + 1
        /\ 1 .. fragment \subseteq 1 .. fragment + 1
    BY <2>1
  <2> QED
    BY <1>1, <2>1, <2>2 DEF Numbered
<1>3. Filled' /\ FunctionsWhereDeclared'
  BY <1>1, Zenon DEF ReplInv, Filled, FunctionsWhereDeclared
<1> QED
  BY <1>1, <1>2, <1>3, Zenon DEF ReplInv

LEMMA QuitKeeps ==
  ASSUME ReplInv, Quit
  PROVE  ReplInv'
<1>1. /\ fragment' = fragment /\ status' = "left"
      /\ scope' = scope /\ table' = table /\ global_count' = global_count
      /\ functions' = functions /\ globals' = globals /\ history' = history /\ ends' = ends
  BY DEF Quit, analyzer, module
<1>2. Numbered'
  BY <1>1 DEF ReplInv, Numbered
<1>3. Filled' /\ FunctionsWhereDeclared'
  BY <1>1, Zenon DEF ReplInv, Filled, FunctionsWhereDeclared
<1> QED
  BY <1>1, <1>2, <1>3, Zenon DEF ReplInv

---------------------------------------------------------------------------
(* The theorems.                                                           *)

\* The state of a session is well formed after every line, whatever is typed: the
\* analyzer's scope and the machine's globals stay parallel, and what accepted lines
\* declared is where the analyzer's entries say.
THEOREM ReplInvariant == Spec => []ReplInv
<1>1. Init => ReplInv
  <2> SUFFICES ASSUME Init PROVE ReplInv
    OBVIOUS
  <2>1. DOMAIN table = {} /\ 1 .. Len(scope) = {} /\ 1 .. Len(globals) = {}
    BY DEF Init
  <2>2. /\ scope \in Seq(Entries) /\ global_count = Len(scope) /\ functions \in Seq(Ids)
        /\ globals \in Seq(Contents) /\ Len(globals) <= Len(scope)
        /\ ends \in Seq(Ends \cup {"rejected"}) /\ fragment = 0 /\ Len(ends) = 0 /\ history = {}
    BY DEF Init
  <2>3. Numbered
    BY <2>1, <2>2 DEF Numbered
  <2> QED
    BY <2>1, <2>2, <2>3, Zenon DEF ReplInv, InOrder, Match, Filled, FunctionsWhereDeclared
<1>2. ReplInv /\ [Next]_vars => ReplInv'
  <2> SUFFICES ASSUME ReplInv, [Next]_vars PROVE ReplInv'
    OBVIOUS
  <2>1. CASE UNCHANGED vars
    BY <2>1, Zenon DEF vars, analyzer, module, ReplInv, Numbered, InOrder, Match, Filled,
                       FunctionsWhereDeclared
  <2>2. ASSUME NEW line \in Lines, Reject(line) \/ Accept(line) \/ Crash(line)
        PROVE  ReplInv'
    BY <2>2, RejectKeeps, AcceptKeeps, CrashKeeps, Zenon
  <2>3. CASE Quit
    BY <2>3, QuitKeeps, Zenon
  <2> QED
    BY <2>1, <2>2, <2>3, Zenon DEF Next
<1> QED
  BY <1>1, <1>2, PTL DEF Spec

\* A function of an accepted line is found at the index that the analyzer keeps for
\* it, however many rejected lines took indices and gave none back.
THEOREM FunctionsStayWhereDeclared == Spec => []FunctionsWhereDeclared
<1>1. ReplInv => FunctionsWhereDeclared
  BY DEF ReplInv
<1> QED
  BY <1>1, ReplInvariant, PTL

\* No line loses or overwrites what an earlier line stored in a global: the slot
\* that the analyzer remembers holds that declaration's value, for as long as the
\* session lasts.
THEOREM GlobalsStay == Spec => []GlobalsPersist
<1>1. ReplInv => GlobalsPersist
  <2> SUFFICES ASSUME ReplInv, NEW v \in ToSet(scope), v.id[1] \in history
               PROVE  \/ globals[v.slot + 1] = v.id
                      \/ globals[v.slot + 1] = Unset /\ ends[v.id[1]] # "halted"
    BY Zenon DEF GlobalsPersist
  <2>1. PICK k \in 1 .. Len(scope) : v = scope[k]
    BY DEF ToSet, ReplInv
  <2>2. v.slot = k - 1
    BY <2>1, Zenon DEF ReplInv, InOrder
  <2>3. v.slot + 1 = k
    BY <2>2
  <2>4. k \in 1 .. Len(globals) /\ (globals[k] = Unset => ends[v.id[1]] # "halted")
    BY <2>1, Zenon DEF ReplInv, Filled
  <2>5. globals[k] \in {Unset, v.id}
    BY <2>1, <2>4, Zenon DEF ReplInv, Match
  <2> QED
    BY <2>3, <2>4, <2>5
<1> QED
  BY <1>1, ReplInvariant, PTL

\* A line adds functions behind those there are, and leaves alone every global that
\* has a value; a rejected line does neither.
THEOREM SessionOnlyGrows == Spec => SessionGrows
<1> DEFINE Grows == /\ IsPrefix(functions, functions')
                    /\ \A i \in 1 .. Len(globals) : globals[i] # Unset => globals'[i] = globals[i]
<1>1. ReplInv /\ [Next]_vars => [Grows]_vars
  <2> SUFFICES ASSUME ReplInv, Next PROVE Grows
    OBVIOUS
  <2>1. functions \in Seq(Ids)
    BY DEF ReplInv
  <2>2. CASE functions' = functions /\ globals' = globals
    <3>1. IsPrefix(functions, functions)
      BY <2>1 DEF IsPrefix
    <3> QED
      BY <2>2, <3>1
  <2>3. ASSUME NEW line \in Lines, Accept(line)
        PROVE  Grows
    <3> DEFINE added == [i \in 1 .. Len(line.functions) |-> <<fragment + 1, line.functions[i]>>]
    <3>1. PICK A : A = AnalyzeFragment(fragment + 1, line)
      OBVIOUS
    <3>2. A.ok /\ globals' = Run(A, line).globals /\ functions' = functions \o added
      BY <2>3, <3>1 DEF Accept
    <3>3. Executed(Run(A, line), A, line, Len(line.statements))
      BY <3>1, <3>2, AcceptedRuns, Zenon
    <3>4. line.functions \in Seq(STRING) /\ fragment \in Nat
      BY LineTyped DEF ReplInv, Numbered
    <3>5. added \in Seq(Ids)
      BY <3>4 DEF Ids
    <3> HIDE DEF added
    <3>6. IsPrefix(functions, functions')
      BY <2>1, <3>2, <3>5 DEF IsPrefix
    <3>7. \A i \in 1 .. Len(globals) : globals[i] # Unset => globals'[i] = globals[i]
      BY <3>2, <3>3, Zenon DEF Executed
    <3> QED
      BY <3>6, <3>7
  <2>4. ASSUME NEW line \in Lines, Reject(line) \/ Crash(line)
        PROVE  functions' = functions /\ globals' = globals
    BY <2>4 DEF Reject, Crash, module
  <2>5. Quit => functions' = functions /\ globals' = globals
    BY DEF Quit, module
  <2> QED
    BY <2>2, <2>3, <2>4, <2>5, Zenon DEF Next
<1> QED
  BY <1>1, ReplInvariant, PTL DEF Spec, SessionGrows

===========================================================================
