------------------------------- MODULE Syntax -------------------------------
(***************************************************************************)
(* Tokens (token.rs), types (types.rs) and the abstract syntax tree (ast.rs).  *)
(* Source positions are left out.  A token that carries nothing is its kind;   *)
(* every node of one sort is a record with the same fields, so that nodes can  *)
(* be compared.                                                              *)
(***************************************************************************)
EXTENDS Integers, Sequences

Tok(k) == [k |-> k, name |-> "", n |-> 0]
Id(x)  == [k |-> "Var", name |-> x, n |-> 0]
Num(i) == [k |-> "Int", name |-> "", n |-> i]
Str(i) == [k |-> "StringLiteral", name |-> "", n |-> i]   \* of one character, of code i

-----------------------------------------------------------------------------
\* Types.  A function type holds the parameters and the results.

Type(c, tag, of) == [c |-> c, tag |-> tag, of |-> of]

IntT       == Type("int", "", <<>>)
BoolT      == Type("bool", "", <<>>)
Unknown    == Type("unknown", "", <<>>)
Array(t)   == Type("array", "", <<t>>)
Record(x)  == Type("record", x, <<>>)
Tuple(ts)  == Type("tuple", "", ts)
Fun(ps, rs) == Type("fun", "", <<Tuple(ps), Tuple(rs)>>)

\* get_size and get_align panic for the other types.
get_size(t)  == IF t.c = "int" THEN 8 ELSE 4
get_align(t) == IF t.c = "int" THEN 8 ELSE 4

\* Rounds up to a multiple of n.
round_to_n(x, n) == ((x + n - 1) \div n) * n

-----------------------------------------------------------------------------
\* Expressions: kind, a name, field or operator, a number, the operands.

Expr(k, name, n, es) == [k |-> k, name |-> name, n |-> n, es |-> es]

IntE(i)       == Expr("int", "", i, <<>>)
BoolE(b)      == Expr("bool", "", b, <<>>)       \* 0 or 1
VarE(x)       == Expr("var", x, 0, <<>>)
ArrayLit(es)  == Expr("array", "", 0, es)
BinaryE(op, a, b) == Expr("binary", op, 0, <<a, b>>)
UnaryE(op, a) == Expr("unary", op, 0, <<a>>)
CallE(f, es)  == Expr("call", f, 0, es)
Subscript(a, i) == Expr("subscript", "", 0, <<a, i>>)
Dot(a, field) == Expr("dot", field, 0, <<a>>)

\* A variable declaration; dims is a sequence of optional sizes.  What may be
\* absent is a sequence of length 0 or 1.
VarDecl(x, t, dims, init) == [name |-> x, t |-> t, dims |-> dims, init |-> init]

\* Left-hand sides: a declaration or an expression.
V(vd) == [k |-> "V", vd |-> vd]
E(e)  == [k |-> "E", e |-> e]

\* Statements.
ReturnS(es)        == [k |-> "return", es |-> es]
LocalDecl(vd)      == [k |-> "local", vd |-> vd]
Assign(lhs, rhs)   == [k |-> "assign", lhs |-> lhs, rhs |-> rhs]
Compound(ss)       == [k |-> "compound", ss |-> ss]
If(g, then, else)  == [k |-> "if", g |-> g, then |-> then, else |-> else]
While(g, body)     == [k |-> "while", g |-> g, body |-> body]
Procedure(f, es)   == [k |-> "procedure", name |-> f, es |-> es]

\* Declarations.
FunDecl(f, params, t, body) ==
  [k |-> "fun", name |-> f, params |-> params, t |-> t, body |-> body]
RecordDecl(x, members) == [k |-> "record", name |-> x, members |-> members]
Global(vd)             == [k |-> "global", vd |-> vd]
=============================================================================
