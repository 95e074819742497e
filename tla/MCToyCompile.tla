---------------------------- MODULE MCToyCompile ----------------------------
(* Every supported body of up to MaxStmts statements over a small set of     *)
(* statements, called with every argument list.                             *)
EXTENDS ToyCompile

CONSTANTS MaxStmts,   \* statements per body
          Shadowing   \* TRUE: instead, bodies with a let that mentions its own name

MCNames == {"v", "w"}

MCArgValues(t) ==
  CASE t = "i32"   -> {Machine!Value("i32", 2)}
    [] t = "Vec"   -> {Machine!Value("Vec", << <<3, 3>> >>)}
    [] t = "&Vec"  -> {Machine!Value("&Vec", << >>), Machine!Value("&Vec", << <<1, 2>>, <<3, 3>> >>)}
    [] t = "Point" -> {Machine!Value("Point", <<1, 2>>)}
    [] OTHER       -> {}

Pt(e1, e2) == StructLit("Point", <<FieldInit("x", e1), FieldInit("y", e2)>>)
Push(x, e) == MethodCall(Var(x), "push", <<e>>)
Length(x)  == MethodCall(Var(x), "len", << >>)
VecNew     == StaticCall("Vec", "new", << >>)

MCStmts ==
  {Let("v", VecNew), Let("v", Pt(IntLit(1), Var("w"))), Let("v", Var("w")),
   Let("w", IntLit(2)), Let("w", Pt(IntLit(-8), IntLit(2))), Let("w", Var("v")),
   Let("w", Push("v", Pt(Var("w"), IntLit(2)))), Let("v", Var("v"))}
  \cup {ExprStmt(e) : e \in {Push("v", Pt(IntLit(2), Var("w"))), Push("v", Var("w")),
                             Push("w", Var("v")), Length("v"), Var("w")}}

Returned == {IntLit(1), IntLit(9), Var("v"), Var("w"), VecNew, Length("v"),
             Pt(Var("w"), IntLit(1)), Push("v", Var("w"))}

Signatures ==
  {[params |-> << >>, inputs |-> << >>],
   [params |-> <<"v">>, inputs |-> <<"&Vec">>],
   [params |-> <<"w", "v">>, inputs |-> <<"i32", "Vec">>],
   [params |-> <<"v", "w">>, inputs |-> <<"Vec", "Point">>]}

Fn(s, b, r, o) ==
  [params |-> s.params, inputs |-> s.inputs, output |-> o, point |-> TRUE, stmts |-> b, ret |-> r]

\* tests/point.toylang
PointFunctions ==
  {Fn([params |-> << >>, inputs |-> << >>],
      <<Let("v", VecNew), ExprStmt(Push("v", Pt(IntLit(1), IntLit(2)))),
        ExprStmt(Push("v", Pt(IntLit(3), IntLit(4))))>>, <<Var("v")>>, "Vec"),
   Fn([params |-> <<"v">>, inputs |-> <<"&Vec">>], << >>, <<Length("v")>>, "usize")}

MCExprs == {s.expr : s \in MCStmts} \cup Returned
             \cup {IntLit(n) : n \in {-8, 1, 2, 3, 4}}
             \cup {Pt(IntLit(2), Var("w")), Pt(Var("w"), IntLit(2))}
             \cup UNION {NodesOf(f) : f \in PointFunctions}

\* Bodies of n statements that mean something so far, prefix by prefix.
RECURSIVE Bodies(_, _)
Bodies(s, n) ==
  IF n = 0 THEN {<< >>}
  ELSE {b \in {Append(a, st) : a \in Bodies(s, n - 1), st \in MCStmts} :
          LET f == Fn(s, b, << >>, "unit")
          IN /\ \A as \in Arguments(f) : Source!After(f, as)[n].ok
             /\ Shadowing \/ InScope(f)}

\* A body without parameters may be longer: it has a Vec to build first.
MaxLength(s) == IF s.params = << >> THEN MaxStmts + 1 ELSE MaxStmts

\* The output types a trailing expression could have.
Outputs(e) ==
  CASE e.k = "IntLit" -> {"i32"} [] e.k = "StructLit" -> {"Point"}
    [] IsVecNew(e) -> {"Vec"} [] IsPush(e) -> {"unit"} [] IsLen(e) -> {"usize"}
    [] OTHER -> {"i32", "unit", "Point", "Vec"}

Candidates ==
  UNION {{Fn(s, b, << >>, "unit") : b \in UNION {Bodies(s, n) : n \in 0 .. MaxLength(s)}}
           \cup UNION {{Fn(s, b, <<e>>, o) : o \in Outputs(e), b \in UNION {Bodies(s, n) : n \in 0 .. MaxLength(s)}}
                        : e \in Returned} : s \in Signatures}

MCFunctions ==
  {f \in Candidates \cup PointFunctions :
     /\ MeansSomething(f) /\ OnReference(f) /\ InOrder(f)
     /\ InScope(f) # Shadowing}

\* The functions of tests/point.toylang are among them.
ASSUME PointAssumption == Shadowing \/ PointFunctions \subseteq MCFunctions
=============================================================================
