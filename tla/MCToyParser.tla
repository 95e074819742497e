---------------------------- MODULE MCToyParser -----------------------------
(* The texts of a set of programs, and every text that comes of one of them  *)
(* by deleting, inserting or replacing one token or by breaking off.         *)
EXTENDS ToyParserProps

P     == Named("P")
VecP  == Generic("Vec", <<P>>)
Calls == MethodCall(MethodCall(Var("v"), "push", <<Var("a"), IntLit(1)>>), "len", << >>)
Lit   == StructLit("P", <<FieldInit("x", IntLit(1)), FieldInit("y", Calls)>>)

\* An empty struct, two namesakes, a name that is a keyword elsewhere.
Structs ==
  {ToyStruct("P", << >>),
   ToyStruct("P", <<ToyField("x", "i32"), ToyField("y", "bool")>>),
   ToyStruct("struct", <<ToyField("fn", "f64")>>)}
Fn(x, params, ty, stmts, ret) == ToyFunction(x, params, ty, <<FnBody(stmts, ret)>>)
SmallFns ==
  {Fn("P", << >>, << >>, << >>, << >>),
   Fn("f", << >>, <<VecP>>, <<Let("v", StaticCall("Vec", "new", << >>))>>, <<Var("v")>>),
   Fn("f", <<ToyParam("v", Pointer("&mut", P))>>, << >>, <<ExprStmt(Var("a"))>>, << >>)}
LargeFns ==
  {Fn("f", <<ToyParam("v", Pointer("&", VecP)), ToyParam("p", Pointer("*mut", P))>>,
      << >>, <<ExprStmt(Calls)>>, << >>),
   Fn("g", <<ToyParam("m", Pointer("*const", Generic("M", <<P, VecP>>)))>>,
      <<Named("usize")>>, <<ExprStmt(Var("a"))>>, <<IntLit(2)>>),
   Fn("let", << >>, << >>, <<Let("let", Lit)>>, << >>)}
Small == Structs \cup SmallFns

MCPrograms ==
  {<< >>} \cup {<<d>> : d \in Small \cup LargeFns} \cup {<<d, e>> : d, e \in Small}

-----------------------------------------------------------------------------
\* One text of each program, with all commas and the last brace, to be edited.
Written(ds) == LET texts == Grammar!ProgramTexts(ds)
               IN CHOOSE ts \in texts : \A us \in texts : Len(us) <= Len(ts)
Edited == {Written(<<d>>) : d \in Small \cup LargeFns}
            \cup {Written(<<ToyStruct("P", << >>), Fn("g", << >>, << >>, << >>, <<Lit>>)>>)}

Vocabulary ==
  {Word("let"), Word("mut"), Word("fn"), Word("i32"), Number(1)}
    \cup {Tok(t) : t \in TokenKinds \ {"Ident", "IntLit", "Eof", "->", "*", "="}}

Deletions(ts)  == {SubSeq(ts, 1, n - 1) \o SubSeq(ts, n + 1, Len(ts)) : n \in 1 .. Len(ts) - 1}
Insertions(ts) == {SubSeq(ts, 1, n - 1) \o <<tok>> \o SubSeq(ts, n, Len(ts)) :
                     n \in 1 .. Len(ts), tok \in Vocabulary}
Replacements(ts) == {[ts EXCEPT ![n] = tok] : n \in 1 .. Len(ts) - 1, tok \in Vocabulary}
Prefixes(ts)   == {Append(SubSeq(ts, 1, n), Tok("Eof")) : n \in 0 .. Len(ts) - 1}

MCInputs ==
  UNION {Deletions(ts) \cup Insertions(ts) \cup Replacements(ts) \cup Prefixes(ts) : ts \in Edited}

\* Every text of the written grammar is one of the grammar with liberties.
ASSUME DocumentedAssumption ==
  \A p \in MCPrograms : Documented!ProgramTexts(p) \subseteq Grammar!ProgramTexts(p)

-----------------------------------------------------------------------------
\* fn f(a: M<P>, b: P) { }  keeps to the written grammar,  fn f(a: M<> b: P,) {
\* takes every liberty.
Strict ==
  <<Word("fn"), Word("f"), Tok("("), Word("a"), Tok(":"), Word("M"), Tok("<"), Word("P"), Tok(">"),
    Tok(","), Word("b"), Tok(":"), Word("P"), Tok(")"), Tok("{"), Tok("}"), Tok("Eof")>>
Loose ==
  <<Word("fn"), Word("f"), Tok("("), Word("a"), Tok(":"), Word("M"), Tok("<"), Tok(">"),
    Word("b"), Tok(":"), Word("P"), Tok(","), Tok(")"), Tok("{"), Tok("Eof")>>
LooseInputs == {Strict, Loose}
NoPrograms  == {}
=============================================================================
