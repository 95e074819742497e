----------------------------- MODULE ToyMeaning -----------------------------
(***************************************************************************)
(* What a Toylang function means, from its syntax tree alone: the abstract  *)
(* specification of the compiled function.  Toylang borrows Rust's          *)
(* semantics: a let shadows after its initialiser is evaluated, a struct    *)
(* literal names its fields, values that are not Copy move, len borrows its *)
(* receiver, and a receiver of push is borrowed after the argument is       *)
(* evaluated.  A function that would not type-check has no meaning.         *)
(***************************************************************************)
EXTENDS ToyAst, ToyMir

CONSTANTS Names, I32Card

VARIABLES fn, args, outcome

Value(t, v) == [type |-> t, is |-> v]
None        == Value("none", 0)
InRange(n)  == -(I32Card \div 2) <= n /\ n < I32Card \div 2

\* A result: the value of an expression, and the variables after it.
Result(v, env)    == [value |-> v, env |-> env]
Meaningless(env)  == Result(None, env)

\* A number or a variable.
EvalAtom(e, env) ==
  CASE e.k = "IntLit" ->
         Result(IF InRange(e.n) THEN Value("i32", e.n) ELSE None, env)
    [] e.k = "Var" ->
         Result(env[e.name],
                IF env[e.name].type \in CopyTypes THEN env
                                                  ELSE [env EXCEPT ![e.name] = None])
    [] OTHER -> Meaningless(env)

\* A literal names both fields of a Point.  Each is an i32, so an atom.
EvalLit(e, env) ==
  IF e.name = "Point" /\ Len(e.fields) = 2 /\ {e.fields[1].field, e.fields[2].field} = {"x", "y"}
    THEN LET first  == EvalAtom(e.fields[1].expr, env)
             second == EvalAtom(e.fields[2].expr, first.env)
             x      == IF e.fields[1].field = "x" THEN first.value ELSE second.value
             y      == IF e.fields[1].field = "x" THEN second.value ELSE first.value
         IN Result(IF x.type = "i32" /\ y.type = "i32" THEN Value("Point", <<x.is, y.is>>) ELSE None,
                   second.env)
    ELSE Meaningless(env)

\* What push takes is a Point: a literal or an atom, as no call returns one.
EvalPoint(e, env) == IF e.k = "StructLit" THEN EvalLit(e, env) ELSE EvalAtom(e, env)

\* A receiver is a variable.
EvalPush(e, env) ==
  IF e.receiver.k = "Var" /\ Len(e.args) = 1
    THEN LET r   == EvalPoint(e.args[1], env)
             v   == e.receiver.name
             vec == r.env[v]
         IN IF vec.type = "Vec" /\ r.value.type = "Point"
              THEN Result(Value("unit", 0),
                          [r.env EXCEPT ![v] = Value("Vec", Append(vec.is, r.value.is))])
              ELSE Meaningless(r.env)
    ELSE Meaningless(env)
EvalLen(e, env) ==
  IF e.receiver.k = "Var" /\ e.args = << >> /\ env[e.receiver.name].type \in {"Vec", "&Vec"}
    THEN Result(Value("usize", Len(env[e.receiver.name].is)), env)
    ELSE Meaningless(env)

Eval(e, env) ==
  CASE IsVecNew(e) -> Result(IF e.args = << >> THEN Value("Vec", << >>) ELSE None, env)
    [] IsPush(e)   -> EvalPush(e, env)
    [] IsLen(e)    -> EvalLen(e, env)
    [] OTHER       -> EvalPoint(e, env)

\* The variables before the first statement, and after s; ok says that every
\* initialiser so far has a value.
Entered(f, as) ==
  [ok |-> Len(f.params) = Len(f.inputs),
   env |-> [x \in Names |->
     LET ps == {p \in 1 .. Len(f.params) : f.params[p] = x}
     IN IF ps = {} THEN None ELSE as[CHOOSE p \in ps : \A q \in ps : q <= p]]]
Onward(s, before) ==
  LET r == Eval(s.expr, before.env)
  IN [ok  |-> before.ok /\ r.value.type # "none",
      env |-> IF s.k = "Let" THEN [r.env EXCEPT ![s.name] = r.value] ELSE r.env]

\* The variables after the first i statements, for each i.
After(f, as) ==
  LET after[i \in 0 .. Len(f.stmts)] ==
        IF i = 0 THEN Entered(f, as) ELSE Onward(f.stmts[i], after[i - 1])
  IN after

Meaning(f, as) ==
  LET last == After(f, as)[Len(f.stmts)]
      v    == IF f.ret = << >> THEN Value("unit", 0) ELSE Eval(f.ret[1], last.env).value
  IN IF last.ok /\ f.point /\ v.type = f.output THEN v ELSE None

\* Does f mean something when it is called with as?
Meaningful(f, as) == Meaning(f, as).type # "none"

-----------------------------------------------------------------------------
(* The abstract behaviour: the call returns the function's value, once.      *)
Init == outcome = [status |-> "running"]

Answer ==
  /\ outcome = [status |-> "running"]
  /\ outcome' # outcome
  /\ outcome' = [status |-> "returned", value |-> Meaning(fn, args)]
  /\ UNCHANGED <<fn, args>>

Spec == Init /\ [][Answer]_<<fn, args, outcome>>
=============================================================================
