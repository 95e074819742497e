----------------------------- MODULE ToyGrammar -----------------------------
(***************************************************************************)
(* Which token lists read as which definitions, without a cursor or a stack: *)
(* an expression, a type, a statement and a definition each have a set of    *)
(* texts.  With Tolerant = FALSE these are the texts of the written grammar  *)
(* (implemented.md:307-326): commas stand between the elements of a list,    *)
(* one more may follow the last field of a struct definition, <> is not      *)
(* empty, and a body ends with its brace.  Tolerant = TRUE adds the liberties *)
(* that the loops of src/toylang/parser.rs take: the comma after any element *)
(* is optional, <> may be empty, and a last function without a return value  *)
(* may end with the file instead of its brace.                               *)
(***************************************************************************)
EXTENDS ToySyntax

CONSTANT Tolerant   \* a Boolean

VARIABLES
  tokens,   \* the token list
  source,   \* at most one: the program it was written down from
  answer    \* what the parser says

Then(S, T)  == {s \o t : s \in S, t \in T}
Symbol(t)   == {<<Tok(t)>>}
Written(x)  == {<<Word(x)>>}

\* The texts of sets S[1], S[2], ... one after the other.
RECURSIVE Run(_)
Run(S) == IF S = << >> THEN {<< >>} ELSE Then(Head(S), Run(Tail(S)))

\* What may follow an element of a list, the last one or another.
Separators(last, trailing) ==
  (IF Tolerant \/ last THEN {<< >>} ELSE {})
    \cup (IF Tolerant \/ ~last \/ trailing THEN Symbol(",") ELSE {})

\* An opening symbol, elements with their separators, a closing symbol.
ListWith(open, S, close, trailing) ==
  Run(<<Symbol(open)>>
        \o [n \in DOMAIN S |-> Then(S[n], Separators(n = Len(S), trailing))]
        \o <<Symbol(close)>>)
List(open, S, close) == ListWith(open, S, close, FALSE)

RECURSIVE TypeTexts(_), ExprTexts(_)
TypeTexts(ty) ==
  CASE ty.k = "named"   -> Written(ty.name)
    [] ty.k = "generic" /\ ~Tolerant /\ ty.args = << >> -> {}
    [] ty.k = "generic" ->
         Then(Written(ty.name), List("<", [n \in DOMAIN ty.args |-> TypeTexts(ty.args[n])], ">"))
    [] OTHER ->
         Then(CASE ty.k = "&" -> Symbol("&")
                [] ty.k = "&mut" -> {<<Tok("&"), Word("mut")>>}
                [] ty.k = "*const" -> {<<Tok("*"), Word("const")>>}
                [] ty.k = "*mut" -> {<<Tok("*"), Word("mut")>>},
              TypeTexts(ty.to))

ExprTexts(e) ==
  LET Args(es) == List("(", [n \in DOMAIN es |-> ExprTexts(es[n])], ")")
      Inits(fs) ==
        List("{", [n \in DOMAIN fs |->
                     Run(<<Written(fs[n].field), Symbol(":"), ExprTexts(fs[n].expr)>>)], "}")
  IN CASE e.k = "IntLit"     -> {<<Number(e.n)>>}
       [] e.k = "Var"        -> Written(e.name)
       [] e.k = "StructLit"  -> Then(Written(e.name), Inits(e.fields))
       [] e.k = "StaticCall" ->
            Run(<<Written(e.ty), Symbol("::"), Written(e.method), Args(e.args)>>)
       [] e.k = "MethodCall" ->
            Run(<<ExprTexts(e.receiver), Symbol("."), Written(e.method), Args(e.args)>>)

StmtTexts(s) ==
  CASE s.k = "Let" ->
         Run(<<Written("let"), Written(s.name), Symbol("="), ExprTexts(s.expr), Symbol(";")>>)
    [] s.k = "ExprStmt" -> Then(ExprTexts(s.expr), Symbol(";"))

PrimitiveTexts == {<<Word(ty)>> : ty \in PrimitiveTypes}

\* The parts of a definition up to and with its last symbol, and that symbol.
StructTexts(d) ==
  Run(<<Written("struct"), Written(d.name),
        ListWith("{", [n \in DOMAIN d.fields |->
                         Run(<<Written(d.fields[n].name), Symbol(":"),
                               Written(d.fields[n].rust_type) \cap PrimitiveTexts>>)], "}", TRUE)>>)
FnTexts(d, last) ==
  LET body == d.body[1] IN
  Run(<<Written("fn"), Written(d.name),
        List("(", [n \in DOMAIN d.params |->
                     Run(<<Written(d.params[n].name), Symbol(":"), TypeTexts(d.params[n].ty)>>)], ")"),
        IF d.return_ty = << >> THEN {<< >>} ELSE Then(Symbol("->"), TypeTexts(d.return_ty[1])),
        Symbol("{")>>
      \o [n \in DOMAIN body.stmts |-> StmtTexts(body.stmts[n])]
      \o <<IF body.ret = << >> THEN {<< >>} ELSE ExprTexts(body.ret[1]),
           Symbol("}") \cup (IF Tolerant /\ last /\ body.ret = << >> THEN {<< >>} ELSE {})>>)

\* The token lists that read as the definitions ds.
ProgramTexts(ds) ==
  Run([n \in DOMAIN ds |-> IF ds[n].k = "struct" THEN StructTexts(ds[n])
                                                  ELSE FnTexts(ds[n], n = Len(ds))]
        \o <<Symbol("Eof")>>)

\* The definitions of a kind by name; of several with one name, the last.
Registered(k, ds) ==
  LET Of(x) == {n \in DOMAIN ds : ds[n].k = k /\ ds[n].name = x}
  IN [x \in {ds[n].name : n \in {m \in DOMAIN ds : ds[m].k = k}} |->
        ds[CHOOSE n \in Of(x) : \A m \in Of(x) : m <= n]]

-----------------------------------------------------------------------------
Pending            == [verdict |-> "pending"]
Rejected           == [verdict |-> "rejected"]
Accepted(ds, s, f) == [verdict |-> "accepted", defs |-> ds, structs |-> s, functions |-> f]

Init == answer = Pending

\* The token list is read as definitions it is a text of, the ones that were
\* written down if it was, and these are registered.
Accept ==
  /\ answer = Pending
  /\ answer'.verdict = "accepted"
  /\ LET ds == answer'.defs IN
       /\ tokens \in ProgramTexts(ds)
       /\ source \in {<< >>, <<ds>>}
       /\ answer' = Accepted(ds, Registered("struct", ds), Registered("fn", ds))
  /\ UNCHANGED <<tokens, source>>

Reject ==
  /\ answer = Pending /\ answer' = Rejected
  /\ source = << >>
  /\ UNCHANGED <<tokens, source>>

Spec == Init /\ [][Accept \/ Reject]_<<tokens, source, answer>>
=============================================================================
