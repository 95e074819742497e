----------------------------- MODULE MCToyLower -----------------------------
(* All short bodies over a small set of expressions, scoped or not.          *)
EXTENDS ToyLowerProps

CONSTANT MaxStmts   \* statements per body

MCNames == {"v", "w"}

Pt(e1, e2) == StructLit("Point", <<FieldInit("x", e1), FieldInit("y", e2)>>)
Push(x, e) == MethodCall(Var(x), "push", <<e>>)
Length(x)  == MethodCall(Var(x), "len", << >>)

Atoms   == {IntLit(1), IntLit(3), Var("v"), Var("w"), StaticCall("Vec", "new", << >>)}
Nested  == {Pt(Pt(IntLit(1), Length("v")), IntLit(3)),
            Push("v", Pt(Length("w"), IntLit(1))),
            Push("w", Push("v", Var("w")))}
Foreign == {StaticCall("Box", "new", <<IntLit(1)>>), MethodCall(IntLit(1), "len", << >>)}

\* Every node of the trees above and of the statements below.
MCExprs == Atoms \cup Nested \cup Foreign \cup
  {Length("v"), Length("w"), Pt(IntLit(1), Var("w")), Pt(IntLit(1), Length("v")),
   Pt(Length("w"), IntLit(1)), Push("v", Var("w"))}

MCStmts ==
  {Let("v", Var("v")), Let("v", StaticCall("Vec", "new", << >>)),
   Let("v", Pt(IntLit(1), Var("w"))), Let("w", IntLit(1)), Let("w", Push("v", Var("w")))}
  \cup {ExprStmt(e) : e \in Nested \cup Foreign \cup {Var("v"), Length("v")}}

Signatures ==
  {[params |-> << >>, inputs |-> << >>],
   [params |-> <<"v", "w">>, inputs |-> <<"Vec", "i32">>],
   [params |-> <<"v", "v">>, inputs |-> <<"i32", "Vec">>],
   [params |-> <<"w", "v">>, inputs |-> <<"Vec">>],
   [params |-> <<"v">>, inputs |-> <<"&Vec", "i32">>]}

MCFunctions ==
  {[params |-> s.params, inputs |-> s.inputs, output |-> "usize", point |-> TRUE,
    stmts |-> b, ret |-> r] :
     s \in Signatures,
     b \in UNION {[1 .. n -> MCStmts] : n \in 0 .. MaxStmts},
     r \in {<< >>} \cup {<<e>> : e \in {Var("v"), Push("w", Push("v", Var("w")))}}}
  \cup {[params |-> << >>, inputs |-> << >>, output |-> "unit", point |-> FALSE,
         stmts |-> << >>, ret |-> << >>]}

\* Those without parameters: their Vecs are bound by lets.
LenFunctions == {f \in MCFunctions : f.params = << >>}
=============================================================================
