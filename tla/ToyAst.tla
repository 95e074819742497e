------------------------------- MODULE ToyAst -------------------------------
(***************************************************************************)
(* The Toylang syntax tree (src/toylang/ast.rs).  A node is a record whose  *)
(* field k names the variant of the Rust enum.  A method, struct or         *)
(* variable name is an opaque value; Option<Expr> is a sequence of at most  *)
(* one expression.                                                          *)
(***************************************************************************)
EXTENDS Integers, Sequences

\* enum Expr
IntLit(n)                == [k |-> "IntLit", n |-> n]
Var(x)                   == [k |-> "Var", name |-> x]
StaticCall(ty, m, args)  == [k |-> "StaticCall", ty |-> ty, method |-> m, args |-> args]
MethodCall(r, m, args)   == [k |-> "MethodCall", receiver |-> r, method |-> m, args |-> args]
StructLit(name, fields)  == [k |-> "StructLit", name |-> name, fields |-> fields]

\* The (String, Expr) pair of a struct literal.
FieldInit(x, e) == [field |-> x, expr |-> e]

\* enum Stmt
Let(x, e)   == [k |-> "Let", name |-> x, expr |-> e]
ExprStmt(e) == [k |-> "ExprStmt", expr |-> e]

\* The call forms the compiler recognises by name.
IsVecNew(e) == e.k = "StaticCall" /\ e.ty = "Vec" /\ e.method = "new"
IsPush(e)   == e.k = "MethodCall" /\ e.method = "push"
IsLen(e)    == e.k = "MethodCall" /\ e.method = "len"

\* Es is closed under sub-expression: every node of a tree in Es is in Es.
IsExprUniverse(Es, Names) ==
  \A e \in Es :
    \/ e.k = "IntLit" /\ e.n \in Int
    \/ e.k = "Var" /\ e.name \in Names
    \/ e.k = "StaticCall" /\ e.args \in Seq(Es)
    \/ e.k = "MethodCall" /\ e.receiver \in Es /\ e.args \in Seq(Es)
    \/ e.k = "StructLit" /\ \A i \in 1 .. Len(e.fields) : e.fields[i].expr \in Es

IsStmt(s, Es, Names) ==
  \/ s.k = "Let" /\ s.name \in Names /\ s.expr \in Es
  \/ s.k = "ExprStmt" /\ s.expr \in Es
=============================================================================
