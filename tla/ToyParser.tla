------------------------------ MODULE ToyParser -----------------------------
(***************************************************************************)
(* The recursive descent parser of src/toylang/parser.rs.  The Rust call    *)
(* stack is the agenda: what the active functions still have to do, the     *)
(* innermost first.  An item is a token kind to expect, a loop or a choice  *)
(* that a peek decides, or a constructor to apply to the values parsed last. *)
(* The local variables of the active functions are the values.  The first   *)
(* error is returned through every caller.                                  *)
(***************************************************************************)
EXTENDS ToySyntax

CONSTANT Inputs   \* token lists, as tokenize returns them

ASSUME InputsAssumption ==
  \A ts \in Inputs :
    /\ ts \in Seq([t : TokenKinds, s : STRING, n : Int]) /\ Len(ts) > 0
    /\ \A p \in 1 .. Len(ts) : ts[p].t = "Eof" <=> p = Len(ts)

VARIABLES
  tokens, pos,          \* the Parser struct
  agenda, values,       \* what is left to do, what has been parsed for it
  structs, functions,   \* the two maps: name -> definition
  defs,                 \* history: the definitions in the order of the text
  status                \* "parsing", "accepted" or "rejected"

state == <<tokens, pos, agenda, values, structs, functions, defs, status>>

Peek     == tokens[pos + 1]
Sees(t)  == Peek.t = t
Reads(s) == Peek = Word(s)

\* Mistake: consume runs past Eof.
ConsumedUnchecked == pos + 1
\* consume: at the last token, Eof, the cursor stays.
Consumed == IF pos + 1 < Len(tokens) THEN pos + 1 ELSE pos

Doing(item) == status = "parsing" /\ agenda # << >> /\ Head(agenda) = item

\* Replace the item at hand by items, with the cursor at p and values vs.
Continue(items, p, vs) ==
  /\ agenda' = items \o Tail(agenda)
  /\ pos' = p
  /\ values' = vs
  /\ UNCHANGED <<tokens, structs, functions, defs, status>>

Goto(items)        == Continue(items, pos, values)
Take(items)        == Continue(items, Consumed, values)
TakeValue(items, v) == Continue(items, Consumed, Append(values, v))

\* The n values parsed last, and those below them.
Top(n)   == SubSeq(values, Len(values) - n + 1, Len(values))
Below(n) == SubSeq(values, 1, Len(values) - n)

-----------------------------------------------------------------------------
Start ==
  /\ pos = 0
  /\ agenda = <<"program">> /\ values = << >>
  /\ structs = << >> /\ functions = << >> /\ defs = << >>
  /\ status = "parsing"
Init == tokens \in Inputs /\ Start

Expect == \E t \in TokenKinds \ {"Ident"} : Doing(t) /\ Sees(t) /\ Take(<< >>)
ExpectIdent == Doing("Ident") /\ Sees("Ident") /\ TakeValue(<< >>, Peek.s)

\* parse_program's loop; struct and fn are ordinary words elsewhere.
ParseStruct ==
  /\ Doing("program") /\ Reads("struct")
  /\ Take(<<"Ident", "{", "empty", "fields", "}", "ToyStruct", "program">>)
ParseFn ==
  /\ Doing("program") /\ Reads("fn")
  /\ Take(<<"Ident", "(", "empty", "params", ")", "return_ty", "{", "empty", "stmts",
           "FnBody", "some", "ToyFunction", "program">>)
Accept ==
  /\ Doing("program") /\ Sees("Eof")
  /\ status' = "accepted"
  /\ UNCHANGED <<tokens, pos, agenda, values, structs, functions, defs>>

\* Mistake: the first definition of a name stays.
InsertIfAbsent(map, d) ==
  [x \in DOMAIN map \cup {d.name} |-> IF x \in DOMAIN map THEN map[x] ELSE d]
\* HashMap::insert: the last definition of a name stays.
Insert(map, d) ==
  [x \in DOMAIN map \cup {d.name} |-> IF x = d.name THEN d ELSE map[x]]
InsertStruct ==
  /\ Doing("ToyStruct")
  /\ LET d == ToyStruct(Top(2)[1], Top(2)[2]) IN
       /\ structs' = Insert(structs, d)
       /\ defs' = Append(defs, d)
  /\ agenda' = Tail(agenda) /\ values' = Below(2)
  /\ UNCHANGED <<tokens, pos, functions, status>>
InsertFn ==
  /\ Doing("ToyFunction")
  /\ LET d == ToyFunction(Top(4)[1], Top(4)[2], Top(4)[3], Top(4)[4]) IN
       /\ functions' = Insert(functions, d)
       /\ defs' = Append(defs, d)
  /\ agenda' = Tail(agenda) /\ values' = Below(4)
  /\ UNCHANGED <<tokens, pos, structs, status>>

-----------------------------------------------------------------------------
\* The five lists: what closes each, and how an element is parsed.
Closer == [fields |-> "}", params |-> ")", args |-> ")", inits |-> "}", type_args |-> ">"]
Element ==
  [fields    |-> <<"Ident", ":", "primitive_type", "ToyField", "push">>,
   params    |-> <<"Ident", ":", "type_str", "ToyParam", "push">>,
   args      |-> <<"expr", "push">>,
   inits     |-> <<"Ident", ":", "expr", "FieldInit", "push">>,
   type_args |-> <<"type_str", "push">>]

ListEnds == \E l \in DOMAIN Closer : Doing(l) /\ Peek.t \in {Closer[l], "Eof"} /\ Goto(<< >>)
ListGoesOn ==
  \E l \in DOMAIN Closer :
    Doing(l) /\ Peek.t \notin {Closer[l], "Eof"} /\ Goto(Element[l] \o <<"comma", l>>)
Comma ==
  /\ Doing("comma")
  /\ \/ Sees(",") /\ Take(<< >>)
     \/ ~Sees(",") /\ Goto(<< >>)

PrimitiveType ==
  /\ Doing("primitive_type") /\ Sees("Ident") /\ Peek.s \in PrimitiveTypes
  /\ TakeValue(<< >>, Peek.s)

ReturnTy ==
  /\ Doing("return_ty")
  /\ \/ Sees("->") /\ Take(<<"type_str", "some">>)
     \/ ~Sees("->") /\ Goto(<<"empty">>)

-----------------------------------------------------------------------------
\* Mistake: at the end of the file the loop consumes and goes round again.
BodyEndsAtBraceOnly ==
  /\ Doing("stmts")
  /\ \/ Sees("}") /\ Take(<<"empty">>)
     \/ Sees("Eof") /\ Take(<<"stmts">>)
\* parse_fn_body.  A body ends at its brace, and at the end of the file too.
BodyEnds == Doing("stmts") /\ Peek.t \in {"}", "Eof"} /\ Take(<<"empty">>)
LetStmt ==
  Doing("stmts") /\ Reads("let") /\ Take(<<"Ident", "=", "expr", ";", "Let", "push", "stmts">>)
OtherStmt ==
  /\ Doing("stmts") /\ Peek.t \notin {"}", "Eof"} /\ ~Reads("let")
  /\ Goto(<<"expr", "expr_end">>)
ExprEnd ==
  /\ Doing("expr_end")
  /\ \/ Sees(";") /\ Take(<<"ExprStmt", "push", "stmts">>)
     \/ ~Sees(";") /\ Goto(<<"}", "some">>)

Expr == Doing("expr") /\ Goto(<<"primary", "chain">>)
Chain ==
  /\ Doing("chain")
  /\ \/ Sees(".") /\ Take(<<"Ident", "(", "empty", "args", ")", "MethodCall", "chain">>)
     \/ ~Sees(".") /\ Goto(<< >>)
Literal == Doing("primary") /\ Sees("IntLit") /\ TakeValue(<< >>, IntLit(Peek.n))
Name    == Doing("primary") /\ Sees("Ident") /\ TakeValue(<<"after_name">>, Peek.s)
AfterName ==
  /\ Doing("after_name")
  /\ \/ Sees("::") /\ Take(<<"Ident", "(", "empty", "args", ")", "StaticCall">>)
     \/ Sees("{") /\ Take(<<"empty", "inits", "}", "StructLit">>)
     \/ Peek.t \notin {"::", "{"} /\ Goto(<<"Var">>)

-----------------------------------------------------------------------------
\* parse_type_str
ReferenceType ==
  Doing("type_str") /\ Sees("&") /\ Take(<<"mut", "type_str", "Pointer">>)
Mut ==
  /\ Doing("mut")
  /\ \/ Reads("mut") /\ TakeValue(<< >>, "&mut")
     \/ ~Reads("mut") /\ Continue(<< >>, pos, Append(values, "&"))
RawPointerType ==
  Doing("type_str") /\ Sees("*") /\ Take(<<"qualifier", "type_str", "Pointer">>)
Qualifier ==
  /\ Doing("qualifier")
  /\ \/ Reads("const") /\ TakeValue(<< >>, "*const")
     \/ Reads("mut") /\ TakeValue(<< >>, "*mut")
NamedType == Doing("type_str") /\ Sees("Ident") /\ TakeValue(<<"type_name">>, Peek.s)
TypeName ==
  /\ Doing("type_name")
  /\ \/ Sees("<") /\ Take(<<"empty", "type_args", ">", "Generic">>)
     \/ ~Sees("<") /\ Goto(<<"Named">>)

-----------------------------------------------------------------------------
\* The constructors: how many values each takes, and what it makes of them.
Arity ==
  [empty |-> 0, some |-> 1, push |-> 2, ToyField |-> 2, ToyParam |-> 2, FieldInit |-> 2,
   Named |-> 1, Generic |-> 2, Pointer |-> 2, Var |-> 1, StructLit |-> 2,
   StaticCall |-> 3, MethodCall |-> 3, Let |-> 2, ExprStmt |-> 1, FnBody |-> 2]

Made(c, v) ==
  CASE c = "empty"      -> << >>
    [] c = "some"       -> <<v[1]>>
    [] c = "push"       -> Append(v[1], v[2])
    [] c = "ToyField"   -> ToyField(v[1], v[2])
    [] c = "ToyParam"   -> ToyParam(v[1], v[2])
    [] c = "FieldInit"  -> FieldInit(v[1], v[2])
    [] c = "Named"      -> Named(v[1])
    [] c = "Generic"    -> Generic(v[1], v[2])
    [] c = "Pointer"    -> Pointer(v[1], v[2])
    [] c = "Var"        -> Var(v[1])
    [] c = "StructLit"  -> StructLit(v[1], v[2])
    [] c = "StaticCall" -> StaticCall(v[1], v[2], v[3])
    [] c = "MethodCall" -> MethodCall(v[1], v[2], v[3])
    [] c = "Let"        -> Let(v[1], v[2])
    [] c = "ExprStmt"   -> ExprStmt(v[1])
    [] c = "FnBody"     -> FnBody(v[1], v[2])

Make ==
  \E c \in DOMAIN Arity :
    Doing(c) /\ Continue(<< >>, pos, Append(Below(Arity[c]), Made(c, Top(Arity[c]))))

-----------------------------------------------------------------------------
\* The ways a function returns Err.
Fails ==
  \/ \E t \in TokenKinds : Doing(t) /\ ~Sees(t)
  \/ Doing("program") /\ ~Reads("struct") /\ ~Reads("fn") /\ ~Sees("Eof")
  \/ Doing("primitive_type") /\ ~(Sees("Ident") /\ Peek.s \in PrimitiveTypes)
  \/ Doing("qualifier") /\ ~Reads("const") /\ ~Reads("mut")
  \/ Doing("type_str") /\ Peek.t \notin {"&", "*", "Ident"}
  \/ Doing("primary") /\ Peek.t \notin {"IntLit", "Ident"}
Reject ==
  /\ Fails
  /\ status' = "rejected"
  /\ UNCHANGED <<tokens, pos, agenda, values, structs, functions, defs>>

Next ==
  \/ Expect \/ ExpectIdent
  \/ ParseStruct \/ ParseFn \/ Accept \/ InsertStruct \/ InsertFn
  \/ ListEnds \/ ListGoesOn \/ Comma \/ PrimitiveType \/ ReturnTy
  \/ BodyEnds \/ LetStmt \/ OtherStmt \/ ExprEnd
  \/ Expr \/ Chain \/ Literal \/ Name \/ AfterName
  \/ ReferenceType \/ Mut \/ RawPointerType \/ Qualifier \/ NamedType \/ TypeName
  \/ Make \/ Reject

\* Sequential code that waits for nothing.
Spec == Init /\ [][Next]_state /\ WF_state(Next)

-----------------------------------------------------------------------------
(* The cursor stays on a token, and what is registered is what the rest of   *)
(* the compiler relies on: a name leads to a definition of that name, a      *)
(* parsed function has a body, and a field has one of the four types.        *)
TypeOK ==
  /\ pos \in 0 .. Len(tokens) - 1
  /\ status \in {"parsing", "accepted", "rejected"}
  /\ \A x \in DOMAIN structs :
       /\ structs[x].name = x
       /\ \A n \in DOMAIN structs[x].fields : structs[x].fields[n].rust_type \in PrimitiveTypes
  /\ \A x \in DOMAIN functions : functions[x].name = x /\ functions[x].body # << >>
=============================================================================
