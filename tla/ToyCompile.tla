----------------------------- MODULE ToyCompile -----------------------------
(***************************************************************************)
(* ToyProgram on the functions the compiler is meant for: it implements     *)
(* ToyMeaning, that is, the call returns what the source means.             *)
(***************************************************************************)
EXTENDS ToyProgram, ToyChecks

Source == INSTANCE ToyMeaning

(* The functions the compiler is meant for: they mean something for every    *)
(* argument list, and keep to the restrictions of the lowering.              *)
(*  - InScope: a let's initialiser does not mention the let's own name;      *)
(*  - OnReference: len is called on an &Vec parameter only;                  *)
(*  - InOrder: a literal's fields are written in declaration order.          *)
Parts(e) ==
  CASE e.k = "StructLit"  -> {e.fields[i].expr : i \in 1 .. Len(e.fields)}
    [] e.k = "MethodCall" -> {e.receiver} \cup {e.args[i] : i \in DOMAIN e.args}
    [] OTHER              -> {}
\* An expression that means something is no deeper than this.
Nodes(e) == {e} \cup Parts(e) \cup UNION {Parts(p) : p \in Parts(e)}
NodesOf(f) == UNION ({Nodes(f.stmts[i].expr) : i \in 1 .. Len(f.stmts)}
                       \cup {Nodes(f.ret[i]) : i \in DOMAIN f.ret})
LetNames(f) == {f.stmts[i].name : i \in {j \in 1 .. Len(f.stmts) : f.stmts[j].k = "Let"}}

InScope(f) ==
  \A i \in 1 .. Len(f.stmts) :
    f.stmts[i].k = "Let" =>
      \A e \in Nodes(f.stmts[i].expr) : e.k = "Var" => e.name # f.stmts[i].name
OnReference(f) ==
  \A e \in NodesOf(f) : IsLen(e) =>
    /\ e.receiver.name \notin LetNames(f)
    /\ \A p \in DOMAIN f.params : f.params[p] = e.receiver.name => f.inputs[p] = "&Vec"
InOrder(f) ==
  \A e \in NodesOf(f) :
    e.k = "StructLit" => \A i \in 1 .. Len(e.fields) : e.fields[i].field = <<"x", "y">>[i]

MeansSomething(f) == \A as \in Arguments(f) : Source!Meaningful(f, as)
Supported(f) == MeansSomething(f) /\ InScope(f) /\ OnReference(f) /\ InOrder(f)

-----------------------------------------------------------------------------
(* A call of the compiled function returns once, with what the source means. *)
ImplementsMeaning == Source!Spec

(* Every supported function is compiled, and its call returns.               *)
CallReturns == <>(outcome.status = "returned")

(* The body of a supported function meets the demands on types and moves of  *)
(* the checks that mir_borrowck (borrowck.rs:26) spares it: it uses no local *)
(* before it has a value, after it was moved or after it died, pushes to a   *)
(* Vec that is still there, and hands every call what it takes.              *)
BodiesPassChecks == phase = "done" /\ bb = -1 => PassesChecks
=============================================================================
