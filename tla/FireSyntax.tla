---------------------------- MODULE FireSyntax ----------------------------
(***************************************************************************)
(* The syntax tree (ast.hpp) and the types (type.hpp).                     *)
(*                                                                         *)
(* A node is a record whose `kind` is that of the code. Fields of one name *)
(* hold the same sort of thing in every node that has them, so that two    *)
(* trees can be compared. An optional part is a sequence of length 0 or 1. *)
(* The passes add the fields that the code fills in later: `type` on every *)
(* expression, storage and slot on names, target and index on calls.       *)
(***************************************************************************)
EXTENDS Sequences

\* Types are interned in the code, so that pointer equality is type equality.
IntT      == <<"int">>
FloatT    == <<"float">>
BoolT     == <<"bool">>
StrT      == <<"str">>
VoidT     == <<"void">>
ErrorT    == <<"error">>
ArrayT(t) == <<"array">> \o t
NoType    == <<>>            \* a null `const Type*`

IsArray(t)   == t # NoType /\ Head(t) = "array"
ElementOf(t) == Tail(t)
IsNumeric(t) == t \in {IntT, FloatT}
IsOrdered(t) == t \in {IntT, FloatT, StrT}

ArithmeticOps == {"+", "-", "*", "/", "%"}
BitwiseOps    == {"&", "|", "^", "<<", ">>"}
OrderOps      == {"<", "<=", ">", ">="}
EqualOps      == {"==", "!="}

---------------------------------------------------------------------------
(* Expressions.                                                            *)

IntLit(n)       == [kind |-> "IntLiteral", int |-> n]
FloatLit(x)     == [kind |-> "FloatLiteral", float |-> x]
StrLit(s)       == [kind |-> "StringLiteral", str |-> s]
BoolLit(b)      == [kind |-> "BoolLiteral", bool |-> b]
ArrayLit(es)    == [kind |-> "ArrayLiteral", elements |-> es]
Name(x)         == [kind |-> "Name", name |-> x]
Unary(op, e)    == [kind |-> "Unary", op |-> op, operand |-> e]
Binary(l, op, r)  == [kind |-> "Binary", op |-> op, left |-> l, right |-> r]
Logical(l, op, r) == [kind |-> "Logical", op |-> op, left |-> l, right |-> r]
Apply(f, args)  == [kind |-> "Call", callee |-> f, arguments |-> args]
Index(t, i)     == [kind |-> "Index", target |-> t, position |-> i]

---------------------------------------------------------------------------
(* Statements.                                                             *)

VarDecl(x, t, e, const) ==
  [kind |-> "VarDecl", name |-> x, annotation |-> t, init |-> e, is_const |-> const]
Let(x, e)        == VarDecl(x, NoType, e, FALSE)
LetT(x, t, e)    == VarDecl(x, t, e, FALSE)
Const(x, e)      == VarDecl(x, NoType, e, TRUE)
Do(e)            == [kind |-> "ExprStmt", expr |-> e]
Compound(t, op, e) == [kind |-> "Assign", target |-> t, compound |-> op, value |-> e]
Assign(t, e)     == Compound(t, "", e)
Block(ss)        == [kind |-> "Block", statements |-> ss]
IfElse(c, t, e)  == [kind |-> "If", condition |-> c, then_branch |-> t, else_branch |-> e]
If(c, ss)        == IfElse(c, Block(ss), <<>>)
While(c, ss)     == [kind |-> "While", condition |-> c, body |-> Block(ss)]
ForRange(x, a, b, ss) ==
  [kind |-> "ForRange", name |-> x, start |-> a, end |-> b, body |-> Block(ss)]
ForIn(x, e, ss)  == [kind |-> "ForIn", name |-> x, iterable |-> e, body |-> Block(ss)]
Break            == [kind |-> "Break"]
Continue         == [kind |-> "Continue"]
Ret(e)           == [kind |-> "Return", result |-> <<e>>]
RetVoid          == [kind |-> "Return", result |-> <<>>]

---------------------------------------------------------------------------
(* Declarations and programs. A function's index is its position.          *)

Param(x, t) == [name |-> x, type |-> t]

Fun(f, params, t, ss) ==
  [name |-> f, params |-> params, return_type |-> t, body |-> Block(ss)]

Program(top, functions) == [top_level |-> top, functions |-> functions]
=============================================================================
