-------------------------- MODULE ToyParser_proofs -------------------------
(***************************************************************************)
(* Proofs about the parser, for token lists of any length and any nesting:   *)
(* its cursor, and what is registered.                                      *)
(***************************************************************************)
EXTENDS ToyParser, SequenceTheorems, TLAPS

\* The cursor is on a token of the input.
OnToken == tokens \in Inputs /\ pos \in 0 .. Len(tokens) - 1

\* The positions of the definitions of kind k and name x.
Places(k, x, ds) == {n \in DOMAIN ds : ds[n].k = k /\ ds[n].name = x}

\* The map holds the last definition of each name, of those of kind k.
HoldsLast(map, k, ds) ==
  /\ \A x : x \in DOMAIN map <=> Places(k, x, ds) # {}
  /\ \A x \in DOMAIN map :
       \E n \in Places(k, x, ds) : map[x] = ds[n] /\ \A m \in Places(k, x, ds) : m <= n

LastWins == HoldsLast(structs, "struct", defs) /\ HoldsLast(functions, "fn", defs)

PInv ==
  /\ OnToken
  /\ LastWins
  /\ \E S : defs \in Seq(S)

-----------------------------------------------------------------------------
(* Registering one more definition.                                         *)

LEMMA OneMore ==
  ASSUME NEW S, NEW ds \in Seq(S), NEW d
  PROVE  /\ DOMAIN Append(ds, d) = DOMAIN ds \cup {Len(ds) + 1}
         /\ Len(ds) + 1 \notin DOMAIN ds /\ Len(ds) + 1 \in Int
         /\ \A n \in DOMAIN ds : Append(ds, d)[n] = ds[n] /\ n <= Len(ds) + 1 /\ n \in Int
         /\ Append(ds, d)[Len(ds) + 1] = d
OBVIOUS

LEMMA PlacesGrow ==
  ASSUME NEW S, NEW ds \in Seq(S), NEW d, NEW k, NEW x
  PROVE  Places(k, x, Append(ds, d)) =
           IF d.k = k /\ d.name = x THEN Places(k, x, ds) \cup {Len(ds) + 1}
                                    ELSE Places(k, x, ds)
BY OneMore DEF Places

LEMMA OtherKind ==
  ASSUME NEW S, NEW ds \in Seq(S), NEW d, NEW k, d.k # k, NEW map, HoldsLast(map, k, ds)
  PROVE  HoldsLast(map, k, Append(ds, d))
<1>1. \A x : Places(k, x, Append(ds, d)) = Places(k, x, ds)
  BY PlacesGrow
<1>2. \A x : \A n \in Places(k, x, ds) : Append(ds, d)[n] = ds[n]
  BY OneMore DEF Places
<1> QED BY <1>1, <1>2 DEF HoldsLast

LEMMA SameKind ==
  ASSUME NEW S, NEW ds \in Seq(S), NEW d, NEW map, HoldsLast(map, d.k, ds)
  PROVE  HoldsLast(Insert(map, d), d.k, Append(ds, d))
<1> DEFINE es   == Append(ds, d)
           last == Len(ds) + 1
<1>1. /\ es[last] = d /\ last \in Int
      /\ \A x : \A n \in Places(d.k, x, ds) : es[n] = ds[n] /\ n <= last
  BY OneMore DEF Places
<1>2. \A x : x # d.name => Places(d.k, x, es) = Places(d.k, x, ds)
  BY PlacesGrow
<1>3. Places(d.k, d.name, es) = Places(d.k, d.name, ds) \cup {last}
  BY PlacesGrow
<1> HIDE DEF es, last
<1>4. /\ DOMAIN Insert(map, d) = DOMAIN map \cup {d.name}
      /\ Insert(map, d)[d.name] = d
      /\ \A x \in DOMAIN map : x # d.name => Insert(map, d)[x] = map[x]
  BY DEF Insert
<1>5. \A x : x \in DOMAIN Insert(map, d) <=> Places(d.k, x, es) # {}
  BY <1>2, <1>3, <1>4 DEF HoldsLast
<1>6. ASSUME NEW x \in DOMAIN Insert(map, d)
      PROVE  \E n \in Places(d.k, x, es) :
               Insert(map, d)[x] = es[n] /\ \A m \in Places(d.k, x, es) : m <= n
  <2>1. CASE x = d.name
    BY <1>1, <1>3, <1>4, <2>1
  <2>2. CASE x # d.name
    BY <1>1, <1>2, <1>4, <2>2 DEF HoldsLast
  <2> QED BY <2>1, <2>2
<1> QED BY <1>5, <1>6 DEF HoldsLast, es

-----------------------------------------------------------------------------
(* Steps.                                                                   *)

LEMMA ConsumedOnToken ==
  ASSUME InputsAssumption, OnToken
  PROVE  Consumed \in 0 .. Len(tokens) - 1
<1>1. Len(tokens) \in Nat
  BY DEF InputsAssumption, OnToken
<1> QED BY <1>1 DEF OnToken, Consumed

\* The cursor stays or is advanced by one consume, and nothing is registered.
Moves ==
  /\ pos' = pos \/ pos' = Consumed
  /\ UNCHANGED <<tokens, structs, functions, defs>>

LEMMA Moving ==
  ASSUME InputsAssumption, PInv, Moves
  PROVE  PInv'
<1>1. OnToken'
  BY ConsumedOnToken DEF PInv, OnToken, Moves
<1>2. LastWins'
  BY DEF PInv, LastWins, HoldsLast, Places, Moves
<1> QED BY <1>1, <1>2 DEF PInv, Moves

LEMMA Inserting ==
  ASSUME PInv, NEW CONSTANT d, defs' = Append(defs, d), UNCHANGED <<tokens, pos>>,
         \/ d.k = "struct" /\ structs' = Insert(structs, d) /\ functions' = functions
         \/ d.k = "fn" /\ functions' = Insert(functions, d) /\ structs' = structs
  PROVE  PInv'
<1>1. PICK S : defs \in Seq(S)
  BY DEF PInv
<1>2. PICK ds, st, fns : ds = defs /\ st = structs /\ fns = functions
  OBVIOUS
<1>3. HoldsLast(st, "struct", ds) /\ HoldsLast(fns, "fn", ds)
  BY <1>2 DEF PInv, LastWins
<1>4. ASSUME d.k = "struct" PROVE LastWins'
  <2>1. HoldsLast(Insert(st, d), "struct", Append(ds, d)) /\ HoldsLast(fns, "fn", Append(ds, d))
    BY <1>1, <1>2, <1>3, <1>4, SameKind, OtherKind
  <2>2. structs' = Insert(st, d) /\ functions' = fns /\ defs' = Append(ds, d)
    BY <1>2, <1>4
  <2> QED BY <2>1, <2>2 DEF LastWins, HoldsLast, Places
<1>5. ASSUME d.k = "fn" PROVE LastWins'
  <2>1. HoldsLast(st, "struct", Append(ds, d)) /\ HoldsLast(Insert(fns, d), "fn", Append(ds, d))
    BY <1>1, <1>2, <1>3, <1>5, SameKind, OtherKind
  <2>2. structs' = st /\ functions' = Insert(fns, d) /\ defs' = Append(ds, d)
    BY <1>2, <1>5
  <2> QED BY <2>1, <2>2 DEF LastWins, HoldsLast, Places
<1>6. OnToken'
  BY DEF PInv, OnToken
<1>7. defs' \in Seq(S \cup {d})
  <2>1. Append(ds, d) \in Seq(S \cup {d})
    BY <1>1, <1>2
  <2> QED BY <1>2, <2>1
<1>8. LastWins'
  BY <1>4, <1>5
<1> QED BY <1>6, <1>7, <1>8 DEF PInv

LEMMA Step ==
  ASSUME InputsAssumption, PInv, [Next]_state
  PROVE  PInv'
<1>1. CASE Moves \/ UNCHANGED state
  <2>1. Moves
    BY <1>1 DEF Moves, state
  <2> QED BY <2>1, Moving
<1>2. CASE InsertStruct
  <2>1. PICK d : d = ToyStruct(Top(2)[1], Top(2)[2])
    OBVIOUS
  <2>2. d.k = "struct"
    BY <2>1 DEF ToyStruct
  <2>3. /\ defs' = Append(defs, d) /\ UNCHANGED <<tokens, pos>>
        /\ structs' = Insert(structs, d) /\ functions' = functions
    BY <1>2, <2>1 DEF InsertStruct
  <2> QED BY <2>2, <2>3, Inserting
<1>3. CASE InsertFn
  <2>1. PICK d : d = ToyFunction(Top(4)[1], Top(4)[2], Top(4)[3], Top(4)[4])
    OBVIOUS
  <2>2. d.k = "fn"
    BY <2>1 DEF ToyFunction
  <2>3. /\ defs' = Append(defs, d) /\ UNCHANGED <<tokens, pos>>
        /\ functions' = Insert(functions, d) /\ structs' = structs
    BY <1>3, <2>1 DEF InsertFn
  <2> QED BY <2>2, <2>3, Inserting
<1>4. CASE \/ Expect \/ ExpectIdent \/ ParseStruct \/ ParseFn
           \/ ListEnds \/ ListGoesOn \/ Comma \/ PrimitiveType \/ ReturnTy
           \/ BodyEnds \/ LetStmt \/ OtherStmt \/ ExprEnd
  <2>1. Moves
    BY <1>4 DEF Moves, Expect, ExpectIdent, ParseStruct, ParseFn, ListEnds, ListGoesOn,
       Comma, PrimitiveType, ReturnTy, BodyEnds, LetStmt, OtherStmt, ExprEnd, Continue, Goto,
       Take, TakeValue
  <2> QED BY <1>1, <2>1
<1>5. CASE \/ Expr \/ Chain \/ Literal \/ Name \/ AfterName
           \/ ReferenceType \/ Mut \/ RawPointerType \/ Qualifier \/ NamedType \/ TypeName
           \/ Make
  <2>1. Moves
    BY <1>5 DEF Moves, Expr, Chain, Literal, Name, AfterName, ReferenceType, Mut,
       RawPointerType, Qualifier, NamedType, TypeName, Make, Continue, Goto, Take, TakeValue
  <2> QED BY <1>1, <2>1
<1>6. CASE Accept \/ Reject
  <2>1. Moves
    BY <1>6 DEF Moves, Accept, Reject
  <2> QED BY <1>1, <2>1
<1> QED BY <1>1, <1>2, <1>3, <1>4, <1>5, <1>6 DEF Next

LEMMA Begins ==
  ASSUME InputsAssumption, Init
  PROVE  PInv
<1>1. Len(tokens) \in Nat \ {0} /\ OnToken
  BY DEF InputsAssumption, Init, Start, OnToken
<1>2. DOMAIN defs = {} /\ DOMAIN structs = {} /\ DOMAIN functions = {} /\ defs \in Seq({})
  BY DEF Init, Start
<1>3. LastWins
  BY <1>2 DEF LastWins, HoldsLast, Places
<1> QED BY <1>1, <1>2, <1>3 DEF PInv

-----------------------------------------------------------------------------
(* For any tokens that end with one Eof, the cursor never leaves them: peek   *)
(* and consume index the vector of tokens without a bounds check of their own. *)
THEOREM CursorCorrect == Spec => []OnToken
<1>1. Init => PInv
  BY InputsAssumption, Begins
<1>2. PInv /\ [Next]_state => PInv'
  BY InputsAssumption, Step
<1>3. PInv => OnToken
  BY DEF PInv
<1> QED BY <1>1, <1>2, <1>3, PTL DEF Spec

(* Of several structs or functions with one name, however many and however     *)
(* mixed, the registry has the last one: HashMap::insert overwrites.           *)
THEOREM RegistryCorrect == Spec => []LastWins
<1>1. Init => PInv
  BY InputsAssumption, Begins
<1>2. PInv /\ [Next]_state => PInv'
  BY InputsAssumption, Step
<1>3. PInv => LastWins
  BY DEF PInv
<1> QED BY <1>1, <1>2, <1>3, PTL DEF Spec

-----------------------------------------------------------------------------
(* What has been parsed: trees.  The values are typed by kinds, and the agenda *)
(* by the effect of its items on the kinds of the values, as the Rust functions *)
(* are by their return types.                                                 *)

Prefixes == {"&", "&mut", "*const", "*mut"}

\* A set of type strings, or of expressions, that is closed under their syntax.
ClosedTypes(S) ==
  /\ \A x \in STRING : Named(x) \in S
  /\ \A x \in STRING, args \in Seq(S) : Generic(x, args) \in S
  /\ \A p \in Prefixes, ty \in S : Pointer(p, ty) \in S
Inits(S) == {FieldInit(x, e) : x \in STRING, e \in S}
ClosedExprs(S) ==
  /\ \A n \in Int : IntLit(n) \in S
  /\ \A x \in STRING : Var(x) \in S
  /\ \A x \in STRING, fs \in Seq(Inits(S)) : StructLit(x, fs) \in S
  /\ \A x, m \in STRING, args \in Seq(S) : StaticCall(x, m, args) \in S
  /\ \A r \in S, m \in STRING, args \in Seq(S) : MethodCall(r, m, args) \in S

\* The trees are the smallest closed set: what every closed set has.
IsType(ty) == \A S : ClosedTypes(S) => ty \in S
IsExpr(e)  == \A S : ClosedExprs(S) => e \in S

IsField(f) ==
  f = ToyField(f.name, f.rust_type) /\ f.name \in STRING /\ f.rust_type \in PrimitiveTypes
IsParam(p) == p = ToyParam(p.name, p.ty) /\ p.name \in STRING /\ IsType(p.ty)
IsInit(i)  == i = FieldInit(i.field, i.expr) /\ i.field \in STRING /\ IsExpr(i.expr)
IsStatement(s) ==
  IsExpr(s.expr) /\ (s = ExprStmt(s.expr) \/ (s = Let(s.name, s.expr) /\ s.name \in STRING))

ElementKinds == {"field", "param", "expr", "init", "type", "stmt"}
IsElement(k, v) ==
  /\ k = "field" => IsField(v)
  /\ k = "param" => IsParam(v)
  /\ k = "expr"  => IsExpr(v)
  /\ k = "init"  => IsInit(v)
  /\ k = "type"  => IsType(v)
  /\ k = "stmt"  => IsStatement(v)
AllAre(k, l) == (\E S : l \in Seq(S)) /\ \A n \in DOMAIN l : IsElement(k, l[n])
IsBody(b) ==
  /\ b = FnBody(b.stmts, b.ret)
  /\ AllAre("stmt", b.stmts) /\ AllAre("expr", b.ret) /\ Len(b.ret) <= 1

\* The kinds of values: one tree, a list of them, at most one.
One(k)  == <<"one", k>>
List(k) == <<"list", k>>
Opt(k)  == <<"opt", k>>
Kinds == {"one", "list", "opt"} \X (ElementKinds \cup {"name", "primitive", "prefix", "body"})

Is(t, v) ==
  /\ \A k \in ElementKinds : /\ t = One(k) => IsElement(k, v)
                             /\ t = List(k) => AllAre(k, v)
                             /\ t = Opt(k) => AllAre(k, v) /\ Len(v) <= 1
  /\ t = One("name") => v \in STRING
  /\ t = One("primitive") => v \in PrimitiveTypes
  /\ t = One("prefix") => v \in Prefixes
  /\ t = One("body") => IsBody(v)
  /\ t = Opt("body") => \E b : IsBody(b) /\ v = <<b>>

-----------------------------------------------------------------------------
(* What each constructor makes.                                             *)

LEMMA KindsDiffer ==
  ASSUME NEW j, NEW k
  PROVE  /\ One(j) # List(k) /\ One(j) # Opt(k) /\ List(j) # Opt(k)
         /\ One(j) = One(k) <=> j = k
         /\ List(j) = List(k) <=> j = k
         /\ Opt(j) = Opt(k) <=> j = k
BY DEF One, List, Opt

LEMMA IsOneOf == 
  /\ \A v : \A k \in ElementKinds :
       /\ Is(One(k), v) <=> IsElement(k, v)
       /\ Is(List(k), v) <=> AllAre(k, v)
       /\ Is(Opt(k), v) <=> AllAre(k, v) /\ Len(v) <= 1
  /\ \A v : /\ Is(One("name"), v) <=> v \in STRING
            /\ Is(One("primitive"), v) <=> v \in PrimitiveTypes
            /\ Is(One("prefix"), v) <=> v \in Prefixes
            /\ Is(One("body"), v) <=> IsBody(v)
            /\ Is(Opt("body"), v) <=> \E b : IsBody(b) /\ v = <<b>>
<1>1. /\ One("name") # One("primitive") /\ One("name") # One("prefix") /\ One("name") # One("body")
      /\ One("primitive") # One("prefix") /\ One("primitive") # One("body")
      /\ One("prefix") # One("body")
  BY KindsDiffer
<1>2. \A k \in ElementKinds : /\ One(k) # One("name") /\ One(k) # One("primitive")
                             /\ One(k) # One("prefix") /\ One(k) # One("body")
                             /\ Opt(k) # Opt("body")
  BY KindsDiffer DEF ElementKinds
<1>3. ASSUME NEW v, NEW k \in ElementKinds
      PROVE  /\ Is(One(k), v) <=> IsElement(k, v)
             /\ Is(List(k), v) <=> AllAre(k, v)
             /\ Is(Opt(k), v) <=> AllAre(k, v) /\ Len(v) <= 1
  BY <1>2, KindsDiffer DEF Is
<1>4. ASSUME NEW v
      PROVE  /\ Is(One("name"), v) <=> v \in STRING
             /\ Is(One("primitive"), v) <=> v \in PrimitiveTypes
             /\ Is(One("prefix"), v) <=> v \in Prefixes
             /\ Is(One("body"), v) <=> IsBody(v)
             /\ Is(Opt("body"), v) <=> \E b : IsBody(b) /\ v = <<b>>
  BY <1>1, <1>2, KindsDiffer DEF Is
<1> QED BY <1>3, <1>4

LEMMA EmptyList == ASSUME NEW k PROVE AllAre(k, << >>) /\ Len(<< >>) <= 1
<1>1. << >> \in Seq({}) /\ DOMAIN << >> = {} /\ Len(<< >>) = 0
  OBVIOUS
<1> QED BY <1>1 DEF AllAre

LEMMA LongerList ==
  ASSUME NEW k, NEW l, NEW v, AllAre(k, l), IsElement(k, v)
  PROVE  AllAre(k, Append(l, v))
<1>1. PICK S : l \in Seq(S)
  BY DEF AllAre
<1>2. l \in Seq(S \cup {v})
  BY <1>1
<1>3. PICK m : m = Append(l, v)
  OBVIOUS
<1>4. /\ m \in Seq(S \cup {v}) /\ Len(m) = Len(l) + 1 /\ m[Len(l) + 1] = v
      /\ \A n \in 1 .. Len(l) : m[n] = l[n]
  BY <1>2, <1>3, AppendProperties
<1>5. \A n \in DOMAIN m : IsElement(k, m[n])
  BY <1>2, <1>4 DEF AllAre
<1> QED BY <1>3, <1>4, <1>5 DEF AllAre

LEMMA SingleList ==
  ASSUME NEW k, NEW v, IsElement(k, v)
  PROVE  AllAre(k, <<v>>) /\ Len(<<v>>) <= 1
<1>1. PICK l : l = <<v>>
  OBVIOUS
<1>2. l \in Seq({v}) /\ Len(l) = 1 /\ DOMAIN l = 1 .. 1 /\ l[1] = v
  BY <1>1
<1>3. AllAre(k, l) /\ Len(l) <= 1
  BY <1>2 DEF AllAre
<1> QED BY <1>1, <1>3, Zenon

LEMMA ListIn ==
  ASSUME NEW k, NEW l, AllAre(k, l), NEW S, \A v : IsElement(k, v) => v \in S
  PROVE  l \in Seq(S)
<1>1. PICK R : l \in Seq(R)
  BY DEF AllAre
<1>2. \A n \in 1 .. Len(l) : l[n] \in S
  BY <1>1 DEF AllAre
<1> QED BY <1>1, <1>2

LEMMA TypesMade ==
  /\ \A x \in STRING : IsType(Named(x))
  /\ \A x \in STRING : \A args : AllAre("type", args) => IsType(Generic(x, args))
  /\ \A p \in Prefixes : \A ty : IsType(ty) => IsType(Pointer(p, ty))
<1>1. ASSUME NEW args, AllAre("type", args), NEW S, ClosedTypes(S) PROVE args \in Seq(S)
  <2>1. \A v : IsElement("type", v) => v \in S
    BY <1>1 DEF IsElement, IsType
  <2> QED BY <1>1, <2>1, ListIn
<1> QED BY <1>1 DEF IsType, ClosedTypes

LEMMA ExprsMade ==
  /\ \A n \in Int : IsExpr(IntLit(n))
  /\ \A x \in STRING : IsExpr(Var(x))
  /\ \A x \in STRING : \A fs : AllAre("init", fs) => IsExpr(StructLit(x, fs))
  /\ \A x, m \in STRING : \A args : AllAre("expr", args) => IsExpr(StaticCall(x, m, args))
  /\ \A m \in STRING : \A r, args :
       IsExpr(r) /\ AllAre("expr", args) => IsExpr(MethodCall(r, m, args))
<1>1. ASSUME NEW args, AllAre("expr", args), NEW S, ClosedExprs(S) PROVE args \in Seq(S)
  <2>1. \A v : IsElement("expr", v) => v \in S
    BY <1>1 DEF IsElement, IsExpr
  <2> QED BY <1>1, <2>1, ListIn
<1>2. ASSUME NEW fs, AllAre("init", fs), NEW S, ClosedExprs(S)
      PROVE  fs \in Seq(Inits(S))
  <2>1. \A v : IsElement("init", v) => v \in Inits(S)
    BY <1>2 DEF IsElement, IsInit, IsExpr, Inits
  <2> QED BY <1>2, <2>1, ListIn
<1>3. ASSUME NEW S, ClosedExprs(S)
      PROVE  /\ \A n \in Int : IntLit(n) \in S
             /\ \A x \in STRING : Var(x) \in S
             /\ \A x \in STRING : \A fs : AllAre("init", fs) => StructLit(x, fs) \in S
             /\ \A x, m \in STRING : \A args : AllAre("expr", args) => StaticCall(x, m, args) \in S
             /\ \A r \in S, m \in STRING : \A args :
                  AllAre("expr", args) => MethodCall(r, m, args) \in S
  <2>1. \A n \in Int : IntLit(n) \in S
    BY <1>3 DEF ClosedExprs
  <2>2. \A x \in STRING : Var(x) \in S
    BY <1>3 DEF ClosedExprs
  <2>3. ASSUME NEW x \in STRING, NEW fs, AllAre("init", fs) PROVE StructLit(x, fs) \in S
    BY <1>2, <1>3, <2>3 DEF ClosedExprs
  <2>4. ASSUME NEW x \in STRING, NEW m \in STRING, NEW args, AllAre("expr", args)
        PROVE  StaticCall(x, m, args) \in S
    BY <1>1, <1>3, <2>4 DEF ClosedExprs
  <2>5. ASSUME NEW r \in S, NEW m \in STRING, NEW args, AllAre("expr", args)
        PROVE  MethodCall(r, m, args) \in S
    BY <1>1, <1>3, <2>5 DEF ClosedExprs
  <2> QED BY <2>1, <2>2, <2>3, <2>4, <2>5
<1> QED BY <1>3, Zenon DEF IsExpr

LEMMA PartsMade ==
  /\ \A x \in STRING, ty \in PrimitiveTypes : IsField(ToyField(x, ty))
  /\ \A x \in STRING : \A ty : IsType(ty) => IsParam(ToyParam(x, ty))
  /\ \A x \in STRING : \A e : IsExpr(e) => IsInit(FieldInit(x, e)) /\ IsStatement(Let(x, e))
  /\ \A e : IsExpr(e) => IsStatement(ExprStmt(e))
  /\ \A ss, r : AllAre("stmt", ss) /\ AllAre("expr", r) /\ Len(r) <= 1 => IsBody(FnBody(ss, r))
<1>1. \A x \in STRING, ty \in PrimitiveTypes : IsField(ToyField(x, ty))
  BY DEF IsField, ToyField
<1>2. \A x \in STRING : \A ty : IsType(ty) => IsParam(ToyParam(x, ty))
  BY DEF IsParam, ToyParam
<1>3. \A x \in STRING : \A e : IsExpr(e) => IsInit(FieldInit(x, e))
  BY DEF IsInit, FieldInit
<1>4. \A x \in STRING : \A e : IsExpr(e) => IsStatement(Let(x, e))
  BY DEF IsStatement, Let
<1>5. \A e : IsExpr(e) => IsStatement(ExprStmt(e))
  BY DEF IsStatement, ExprStmt
<1>6. \A ss, r : AllAre("stmt", ss) /\ AllAre("expr", r) /\ Len(r) <= 1 => IsBody(FnBody(ss, r))
  BY DEF IsBody, FnBody
<1> QED BY <1>1, <1>2, <1>3, <1>4, <1>5, <1>6

-----------------------------------------------------------------------------
(* What the items of the agenda do to the kinds of the values.               *)

Stacks == Seq(Kinds)
C (+) t == Append(C, t)

\* An item that leaves the values alone.
Silent(i) == i \in (TokenKinds \ {"Ident"}) \cup {"comma"}

\* What the elements of the five lists are.
Holds ==
  [fields |-> "field", params |-> "param", args |-> "expr", inits |-> "init", type_args |-> "type"]

\* An item finds values of kinds A and leaves values of kinds B.
Effect(i, A, B) ==
  \E C \in Stacks :
    \/ Silent(i) /\ A = C /\ B = C
    \/ i = "program" /\ A = << >> /\ B = << >>
    \/ i = "Ident" /\ A = C /\ B = C (+) One("name")
    \/ i = "primitive_type" /\ A = C /\ B = C (+) One("primitive")
    \/ i = "type_str" /\ A = C /\ B = C (+) One("type")
    \/ i \in {"mut", "qualifier"} /\ A = C /\ B = C (+) One("prefix")
    \/ i \in {"expr", "primary"} /\ A = C /\ B = C (+) One("expr")
    \/ i = "return_ty" /\ A = C /\ B = C (+) Opt("type")
    \/ i = "empty" /\ A = C /\ \E k \in ElementKinds : B \in {C (+) List(k), C (+) Opt(k)}
    \/ i = "some" /\ \E k \in ElementKinds \cup {"body"} : A = C (+) One(k) /\ B = C (+) Opt(k)
    \/ i = "push" /\ \E k \in ElementKinds : A = C (+) List(k) (+) One(k) /\ B = C (+) List(k)
    \/ i \in DOMAIN Holds /\ A = C (+) List(Holds[i]) /\ B = A
    \/ i = "chain" /\ A = C (+) One("expr") /\ B = A
    \/ i \in {"Named", "type_name"} /\ A = C (+) One("name") /\ B = C (+) One("type")
    \/ i \in {"Var", "after_name"} /\ A = C (+) One("name") /\ B = C (+) One("expr")
    \/ i = "Generic" /\ A = C (+) One("name") (+) List("type") /\ B = C (+) One("type")
    \/ i = "Pointer" /\ A = C (+) One("prefix") (+) One("type") /\ B = C (+) One("type")
    \/ i = "StructLit" /\ A = C (+) One("name") (+) List("init") /\ B = C (+) One("expr")
    \/ /\ i = "StaticCall" /\ B = C (+) One("expr")
       /\ A = C (+) One("name") (+) One("name") (+) List("expr")
    \/ /\ i = "MethodCall" /\ B = C (+) One("expr")
       /\ A = C (+) One("expr") (+) One("name") (+) List("expr")
    \/ i = "ToyField" /\ A = C (+) One("name") (+) One("primitive") /\ B = C (+) One("field")
    \/ i = "ToyParam" /\ A = C (+) One("name") (+) One("type") /\ B = C (+) One("param")
    \/ i = "FieldInit" /\ A = C (+) One("name") (+) One("expr") /\ B = C (+) One("init")
    \/ i = "Let" /\ A = C (+) One("name") (+) One("expr") /\ B = C (+) One("stmt")
    \/ i = "ExprStmt" /\ A = C (+) One("expr") /\ B = C (+) One("stmt")
    \/ i = "FnBody" /\ A = C (+) List("stmt") (+) Opt("expr") /\ B = C (+) One("body")
    \/ i = "stmts" /\ A = C (+) List("stmt") /\ B = C (+) List("stmt") (+) Opt("expr")
    \/ /\ i = "expr_end" /\ A = C (+) List("stmt") (+) One("expr")
       /\ B = C (+) List("stmt") (+) Opt("expr")
    \/ i = "ToyStruct" /\ A = C (+) One("name") (+) List("field") /\ B = C
    \/ /\ i = "ToyFunction" /\ B = C
       /\ A = C (+) One("name") (+) List("param") (+) Opt("type") (+) Opt("body")

\* The items, one after the other, find values of kinds A and leave values of kinds B.
Leads(items, A, B) ==
  /\ \E S : items \in Seq(S)
  /\ \E T \in [0 .. Len(items) -> Stacks] :
       /\ T[0] = A /\ T[Len(items)] = B
       /\ \A n \in 1 .. Len(items) : Effect(items[n], T[n - 1], T[n])

LEMMA NotSilent ==
  \A i \in {"program", "Ident", "primitive_type", "type_str", "mut", "qualifier", "expr",
            "primary", "return_ty", "empty", "some", "push", "fields", "params", "args", "inits",
            "type_args", "chain", "Named", "type_name", "Var", "after_name", "Generic", "Pointer",
            "StructLit", "StaticCall", "MethodCall", "ToyField", "ToyParam", "FieldInit", "Let",
            "ExprStmt", "FnBody", "stmts", "expr_end", "ToyStruct", "ToyFunction"} : ~Silent(i)
BY ZenonT(60) DEF Silent, TokenKinds

LEMMA KindsKnown ==
  \A k \in ElementKinds \cup {"name", "primitive", "prefix", "body"} :
    One(k) \in Kinds /\ List(k) \in Kinds /\ Opt(k) \in Kinds
BY DEF Kinds, One, List, Opt

LEMMA Stacked ==
  << >> \in Stacks /\ \A C \in Stacks, t \in Kinds : C (+) t \in Stacks
BY DEF Stacks, (+)

LEMMA LeadsHead ==
  ASSUME NEW items, NEW A, NEW B, Leads(items, A, B), items # << >>
  PROVE  \E C : Effect(Head(items), A, C) /\ Leads(Tail(items), C, B)
<1>1. PICK S, T : /\ items \in Seq(S) /\ T \in [0 .. Len(items) -> Stacks]
                  /\ T[0] = A /\ T[Len(items)] = B
                  /\ \A n \in 1 .. Len(items) : Effect(items[n], T[n - 1], T[n])
  BY DEF Leads
<1>2. /\ Len(items) \in Nat \ {0} /\ Tail(items) \in Seq(S) /\ Len(Tail(items)) = Len(items) - 1
      /\ \A n \in 1 .. Len(items) - 1 : Tail(items)[n] = items[n + 1]
      /\ Head(items) = items[1]
  BY <1>1
<1> DEFINE U == [n \in 0 .. Len(items) - 1 |-> T[n + 1]]
<1>3. U \in [0 .. Len(items) - 1 -> Stacks] /\ U[0] = T[1] /\ U[Len(items) - 1] = B
  BY <1>1, <1>2
<1>4. \A n \in 1 .. Len(items) - 1 : Effect(Tail(items)[n], U[n - 1], U[n])
  <2>1. TAKE n \in 1 .. Len(items) - 1
  <2>2. Effect(items[n + 1], T[n], T[n + 1])
    <3>1. n + 1 \in 1 .. Len(items) /\ n + 1 - 1 = n
      BY <1>2
    <3> QED BY <1>1, <3>1
  <2>3. Tail(items)[n] = items[n + 1] /\ U[n - 1] = T[n] /\ U[n] = T[n + 1]
    BY <1>2
  <2> QED BY <2>2, <2>3
<1>5. Leads(Tail(items), T[1], B)
  BY <1>2, <1>3, <1>4 DEF Leads
<1>6. Effect(Head(items), A, T[1])
  <2>1. 1 \in 1 .. Len(items) /\ 1 - 1 = 0
    BY <1>2
  <2> QED BY <1>1, <1>2, <2>1
<1> QED BY <1>5, <1>6

LEMMA LeadsOn ==
  ASSUME NEW items, NEW more, NEW A, NEW B, NEW D, Leads(items, A, B), Leads(more, B, D)
  PROVE  Leads(items \o more, A, D)
<1>1. PICK S, T : /\ items \in Seq(S) /\ T \in [0 .. Len(items) -> Stacks]
                  /\ T[0] = A /\ T[Len(items)] = B
                  /\ \A n \in 1 .. Len(items) : Effect(items[n], T[n - 1], T[n])
  BY DEF Leads
<1>2. PICK R, U : /\ more \in Seq(R) /\ U \in [0 .. Len(more) -> Stacks]
                  /\ U[0] = B /\ U[Len(more)] = D
                  /\ \A n \in 1 .. Len(more) : Effect(more[n], U[n - 1], U[n])
  BY DEF Leads
<1>3. PICK l, m, all : l = Len(items) /\ m = Len(more) /\ all = items \o more
  OBVIOUS
<1>4. items \in Seq(S \cup R) /\ more \in Seq(S \cup R) /\ l \in Nat /\ m \in Nat
  BY <1>1, <1>2, <1>3
<1>5. /\ all \in Seq(S \cup R) /\ Len(all) = l + m
      /\ \A n \in 1 .. l + m : all[n] = IF n <= l THEN items[n] ELSE more[n - l]
  BY <1>3, <1>4, ConcatProperties
<1> DEFINE V == [n \in 0 .. l + m |-> IF n <= l THEN T[n] ELSE U[n - l]]
<1>6. V \in [0 .. l + m -> Stacks] /\ V[0] = A /\ V[l + m] = D
  BY <1>1, <1>2, <1>3, <1>4
<1>7. \A n \in 1 .. l + m : Effect(all[n], V[n - 1], V[n])
  <2>1. TAKE n \in 1 .. l + m
  <2>2. CASE n <= l
    <3>1. all[n] = items[n] /\ V[n - 1] = T[n - 1] /\ V[n] = T[n] /\ n \in 1 .. l
      BY <1>4, <1>5, <2>2
    <3> QED BY <1>1, <1>3, <3>1
  <2>3. CASE n > l
    <3>1. n - l \in 1 .. m /\ all[n] = more[n - l] /\ V[n] = U[n - l]
      BY <1>4, <1>5, <2>3
    <3>2. V[n - 1] = U[n - l - 1]
      <4>1. CASE n = l + 1
        <5>1. V[l] = T[l] /\ n - 1 = l /\ n - l - 1 = 0
          BY <1>4, <4>1
        <5> QED BY <1>1, <1>2, <1>3, <5>1
      <4>2. CASE n # l + 1
        <5>1. n - 1 \in 0 .. l + m /\ ~(n - 1 <= l) /\ n - 1 - l = n - l - 1
          BY <1>4, <2>3, <4>2
        <5> QED BY <5>1
      <4> QED BY <4>1, <4>2
    <3> QED BY <1>2, <1>3, <3>1, <3>2
  <2> QED BY <1>4, <2>2, <2>3
<1>8. Leads(all, A, D)
  BY <1>5, <1>6, <1>7 DEF Leads
<1> QED BY <1>3, <1>8, Zenon

-----------------------------------------------------------------------------
(* The table of effects, used forwards.                                      *)

LEMMA EffectStacked ==
  ASSUME NEW i, NEW A, NEW B, Effect(i, A, B)
  PROVE  A \in Stacks /\ B \in Stacks
<1> USE Stacked, KindsKnown
<1>1. \A j \in DOMAIN Holds : Holds[j] \in ElementKinds
  <2>1. DOMAIN Holds = {"fields", "params", "args", "inits", "type_args"}
    BY DEF Holds
  <2>2. /\ Holds["fields"] = "field" /\ Holds["params"] = "param" /\ Holds["args"] = "expr"
        /\ Holds["inits"] = "init" /\ Holds["type_args"] = "type"
    BY DEF Holds
  <2> QED BY <2>1, <2>2 DEF ElementKinds
<1>2. \A C \in Stacks : \A k \in ElementKinds \cup {"name", "primitive", "prefix", "body"} :
        C (+) One(k) \in Stacks /\ C (+) List(k) \in Stacks /\ C (+) Opt(k) \in Stacks
  OBVIOUS
<1>3. {"field", "param", "expr", "init", "type", "stmt"} \subseteq ElementKinds
  BY DEF ElementKinds
<1> QED BY ZenonT(60), <1>1, <1>2, <1>3 DEF Effect

\* The table, read as rules.
LEMMA Rules ==
  ASSUME NEW C \in Stacks
  PROVE  /\ \A i : Silent(i) => Effect(i, C, C)
         /\ C = << >> => Effect("program", C, C)
         /\ Effect("Ident", C, C (+) One("name"))
         /\ Effect("primitive_type", C, C (+) One("primitive"))
         /\ Effect("type_str", C, C (+) One("type"))
         /\ Effect("mut", C, C (+) One("prefix")) /\ Effect("qualifier", C, C (+) One("prefix"))
         /\ Effect("expr", C, C (+) One("expr")) /\ Effect("primary", C, C (+) One("expr"))
         /\ Effect("return_ty", C, C (+) Opt("type"))
         /\ \A k \in ElementKinds :
              /\ Effect("empty", C, C (+) List(k)) /\ Effect("empty", C, C (+) Opt(k))
              /\ Effect("some", C (+) One(k), C (+) Opt(k))
              /\ Effect("push", C (+) List(k) (+) One(k), C (+) List(k))
         /\ Effect("some", C (+) One("body"), C (+) Opt("body"))
         /\ \A l \in DOMAIN Holds : Effect(l, C (+) List(Holds[l]), C (+) List(Holds[l]))
         /\ Effect("chain", C (+) One("expr"), C (+) One("expr"))
         /\ Effect("Named", C (+) One("name"), C (+) One("type"))
         /\ Effect("type_name", C (+) One("name"), C (+) One("type"))
         /\ Effect("Var", C (+) One("name"), C (+) One("expr"))
         /\ Effect("after_name", C (+) One("name"), C (+) One("expr"))
<1>1. \A i : Silent(i) => Effect(i, C, C)
  BY DEF Effect
<1>2. /\ C = << >> => Effect("program", C, C)
      /\ Effect("Ident", C, C (+) One("name"))
      /\ Effect("primitive_type", C, C (+) One("primitive"))
      /\ Effect("type_str", C, C (+) One("type"))
      /\ Effect("mut", C, C (+) One("prefix")) /\ Effect("qualifier", C, C (+) One("prefix"))
      /\ Effect("expr", C, C (+) One("expr")) /\ Effect("primary", C, C (+) One("expr"))
      /\ Effect("return_ty", C, C (+) Opt("type"))
  BY DEF Effect
<1>3. \A k \in ElementKinds :
         /\ Effect("empty", C, C (+) List(k)) /\ Effect("empty", C, C (+) Opt(k))
         /\ Effect("some", C (+) One(k), C (+) Opt(k))
         /\ Effect("push", C (+) List(k) (+) One(k), C (+) List(k))
  BY ZenonT(60) DEF Effect
<1>4. Effect("some", C (+) One("body"), C (+) Opt("body"))
  BY DEF Effect
<1>5. \A l \in DOMAIN Holds : Effect(l, C (+) List(Holds[l]), C (+) List(Holds[l]))
  BY DEF Effect
<1>6. /\ Effect("chain", C (+) One("expr"), C (+) One("expr"))
      /\ Effect("Named", C (+) One("name"), C (+) One("type"))
      /\ Effect("type_name", C (+) One("name"), C (+) One("type"))
      /\ Effect("Var", C (+) One("name"), C (+) One("expr"))
      /\ Effect("after_name", C (+) One("name"), C (+) One("expr"))
  BY DEF Effect
<1> QED BY <1>1, <1>2, <1>3, <1>4, <1>5, <1>6

LEMMA ConstructorRules ==
  ASSUME NEW C \in Stacks
  PROVE  /\ Effect("Generic", C (+) One("name") (+) List("type"), C (+) One("type"))
         /\ Effect("Pointer", C (+) One("prefix") (+) One("type"), C (+) One("type"))
         /\ Effect("StructLit", C (+) One("name") (+) List("init"), C (+) One("expr"))
         /\ Effect("StaticCall", C (+) One("name") (+) One("name") (+) List("expr"),
                   C (+) One("expr"))
         /\ Effect("MethodCall", C (+) One("expr") (+) One("name") (+) List("expr"),
                   C (+) One("expr"))
         /\ Effect("ToyField", C (+) One("name") (+) One("primitive"), C (+) One("field"))
         /\ Effect("ToyParam", C (+) One("name") (+) One("type"), C (+) One("param"))
         /\ Effect("FieldInit", C (+) One("name") (+) One("expr"), C (+) One("init"))
         /\ Effect("Let", C (+) One("name") (+) One("expr"), C (+) One("stmt"))
         /\ Effect("ExprStmt", C (+) One("expr"), C (+) One("stmt"))
         /\ Effect("FnBody", C (+) List("stmt") (+) Opt("expr"), C (+) One("body"))
         /\ Effect("stmts", C (+) List("stmt"), C (+) List("stmt") (+) Opt("expr"))
         /\ Effect("expr_end", C (+) List("stmt") (+) One("expr"),
                   C (+) List("stmt") (+) Opt("expr"))
         /\ Effect("ToyStruct", C (+) One("name") (+) List("field"), C)
         /\ Effect("ToyFunction",
                   C (+) One("name") (+) List("param") (+) Opt("type") (+) Opt("body"), C)
BY DEF Effect

-----------------------------------------------------------------------------
LEMMA LeadsNone == ASSUME NEW A \in Stacks PROVE Leads(<< >>, A, A)
<1> DEFINE T == [n \in 0 .. 0 |-> A]
<1>1. PICK s : s = << >>
  OBVIOUS
<1>2. Len(s) = 0 /\ s \in Seq({}) /\ 1 .. Len(s) = {}
  BY <1>1
<1>3. T \in [0 .. 0 -> Stacks] /\ T[0] = A
  OBVIOUS
<1>4. Leads(s, A, A)
  BY <1>2, <1>3 DEF Leads
<1> QED BY <1>1, <1>4, Zenon

LEMMA LeadsOne ==
  ASSUME NEW a, NEW A, NEW B, Effect(a, A, B)
  PROVE  Leads(<<a>>, A, B)
<1> DEFINE T == [n \in 0 .. 1 |-> IF n = 0 THEN A ELSE B]
<1>1. PICK s : s = <<a>>
  OBVIOUS
<1>2. Len(s) = 1 /\ s \in Seq({a}) /\ s[1] = a /\ \A n \in 1 .. 1 : n = 1 /\ n - 1 = 0
  BY <1>1
<1>3. T \in [0 .. 1 -> Stacks] /\ T[0] = A /\ T[1] = B
  BY EffectStacked
<1> HIDE DEF T
<1>4. Leads(s, A, B)
  BY <1>2, <1>3 DEF Leads
<1> QED BY <1>1, <1>4, Zenon

LEMMA LeadsTwo ==
  ASSUME NEW a, NEW b, NEW A, NEW B, NEW C, Effect(a, A, B), Effect(b, B, C)
  PROVE  Leads(<<a, b>>, A, C)
<1>1. PICK s, u, v : s = <<a>> /\ u = <<b>> /\ v = <<a, b>>
  OBVIOUS
<1>2. /\ s \in Seq({a, b}) /\ Len(s) = 1 /\ s[1] = a
      /\ u \in Seq({a, b}) /\ Len(u) = 1 /\ u[1] = b
      /\ v \in Seq({a, b}) /\ Len(v) = 2 /\ v[1] = a /\ v[2] = b
  BY <1>1
<1>3. s \o u \in Seq({a, b}) /\ Len(s \o u) = 2 /\ (s \o u)[1] = a /\ (s \o u)[2] = b
  BY <1>2, ConcatProperties
<1>4. s \o u = v
  BY <1>2, <1>3
<1> QED BY <1>1, <1>4, LeadsOne, LeadsOn, Zenon

LEMMA LeadsThree ==
  ASSUME NEW a, NEW b, NEW c, NEW A, NEW B, NEW C, NEW D,
         Effect(a, A, B), Effect(b, B, C), Effect(c, C, D)
  PROVE  Leads(<<a, b, c>>, A, D)
<1>1. <<a, b, c>> = <<a>> \o <<b, c>>
  OBVIOUS
<1> QED BY <1>1, LeadsOne, LeadsTwo, LeadsOn, Zenon

LEMMA LeadsFour ==
  ASSUME NEW a, NEW b, NEW c, NEW d, NEW A, NEW B, NEW C, NEW D, NEW E,
         Effect(a, A, B), Effect(b, B, C), Effect(c, C, D), Effect(d, D, E)
  PROVE  Leads(<<a, b, c, d>>, A, E)
<1>1. <<a, b, c, d>> = <<a, b>> \o <<c, d>>
  OBVIOUS
<1>2. Leads(<<a, b>>, A, C) /\ Leads(<<c, d>>, C, E)
  BY LeadsTwo
<1> QED BY <1>1, <1>2, LeadsOn, Zenon

LEMMA LeadsFive ==
  ASSUME NEW a, NEW b, NEW c, NEW d, NEW e, NEW A, NEW B, NEW C, NEW D, NEW E, NEW F,
         Effect(a, A, B), Effect(b, B, C), Effect(c, C, D), Effect(d, D, E), Effect(e, E, F)
  PROVE  Leads(<<a, b, c, d, e>>, A, F)
<1>1. <<a, b, c, d, e>> = <<a, b>> \o <<c, d, e>>
  OBVIOUS
<1>2. Leads(<<a, b>>, A, C) /\ Leads(<<c, d, e>>, C, F)
  BY LeadsTwo, LeadsThree
<1> QED BY <1>1, <1>2, LeadsOn, Zenon

LEMMA LeadsSix ==
  ASSUME NEW a, NEW b, NEW c, NEW d, NEW e, NEW f,
         NEW A, NEW B, NEW C, NEW D, NEW E, NEW F, NEW G,
         Effect(a, A, B), Effect(b, B, C), Effect(c, C, D), Effect(d, D, E), Effect(e, E, F),
         Effect(f, F, G)
  PROVE  Leads(<<a, b, c, d, e, f>>, A, G)
<1>1. <<a, b, c, d, e, f>> = <<a, b, c>> \o <<d, e, f>>
  OBVIOUS
<1>2. Leads(<<a, b, c>>, A, D) /\ Leads(<<d, e, f>>, D, G)
  BY LeadsThree
<1> QED BY <1>1, <1>2, LeadsOn, Zenon

LEMMA LeadsSeven ==
  ASSUME NEW a, NEW b, NEW c, NEW d, NEW e, NEW f, NEW g,
         NEW A, NEW B, NEW C, NEW D, NEW E, NEW F, NEW G, NEW H,
         Effect(a, A, B), Effect(b, B, C), Effect(c, C, D), Effect(d, D, E), Effect(e, E, F),
         Effect(f, F, G), Effect(g, G, H)
  PROVE  Leads(<<a, b, c, d, e, f, g>>, A, H)
<1>1. <<a, b, c, d, e, f, g>> = <<a, b, c, d>> \o <<e, f, g>>
  OBVIOUS
<1>2. Leads(<<a, b, c, d>>, A, E) /\ Leads(<<e, f, g>>, E, H)
  BY LeadsThree, LeadsFour
<1> QED BY <1>1, <1>2, LeadsOn, Zenon

-----------------------------------------------------------------------------
(* The table of effects, used backwards.                                     *)

\* The table, read backwards: what an item that is at hand relies on.
LEMMA Silence ==
  ASSUME NEW i, NEW A, NEW B, Effect(i, A, B), Silent(i)
  PROVE  B = A /\ A \in Stacks
BY NotSilent DEF Effect, Holds

LEMMA Needs ==
  ASSUME NEW A, NEW B
  PROVE  /\ Effect("program", A, B) => A = << >> /\ B = << >>
         /\ Effect("Ident", A, B) => A \in Stacks /\ B = A (+) One("name")
         /\ Effect("primitive_type", A, B) => A \in Stacks /\ B = A (+) One("primitive")
         /\ Effect("type_str", A, B) => A \in Stacks /\ B = A (+) One("type")
         /\ Effect("mut", A, B) => A \in Stacks /\ B = A (+) One("prefix")
         /\ Effect("qualifier", A, B) => A \in Stacks /\ B = A (+) One("prefix")
         /\ Effect("expr", A, B) => A \in Stacks /\ B = A (+) One("expr")
         /\ Effect("primary", A, B) => A \in Stacks /\ B = A (+) One("expr")
         /\ Effect("return_ty", A, B) => A \in Stacks /\ B = A (+) Opt("type")
         /\ Effect("empty", A, B) =>
              A \in Stacks /\ \E k \in ElementKinds : B \in {A (+) List(k), A (+) Opt(k)}
<1>1. Effect("program", A, B) => A = << >> /\ B = << >>
  BY NotSilent DEF Effect, Holds
<1>2. /\ Effect("Ident", A, B) => A \in Stacks /\ B = A (+) One("name")
      /\ Effect("primitive_type", A, B) => A \in Stacks /\ B = A (+) One("primitive")
      /\ Effect("type_str", A, B) => A \in Stacks /\ B = A (+) One("type")
  BY NotSilent DEF Effect, Holds
<1>3. /\ Effect("mut", A, B) => A \in Stacks /\ B = A (+) One("prefix")
      /\ Effect("qualifier", A, B) => A \in Stacks /\ B = A (+) One("prefix")
      /\ Effect("expr", A, B) => A \in Stacks /\ B = A (+) One("expr")
      /\ Effect("primary", A, B) => A \in Stacks /\ B = A (+) One("expr")
      /\ Effect("return_ty", A, B) => A \in Stacks /\ B = A (+) Opt("type")
  BY ZenonT(60), NotSilent DEF Effect, Holds
<1>4. Effect("empty", A, B) =>
        A \in Stacks /\ \E k \in ElementKinds : B \in {A (+) List(k), A (+) Opt(k)}
  BY NotSilent DEF Effect, Holds
<1> QED BY <1>1, <1>2, <1>3, <1>4

LEMMA ListNeeds ==
  ASSUME NEW A, NEW B, NEW l \in DOMAIN Holds, Effect(l, A, B)
  PROVE  B = A /\ \E C \in Stacks : A = C (+) List(Holds[l])
BY NotSilent DEF Effect, Holds

LEMMA LoopNeeds ==
  ASSUME NEW A, NEW B
  PROVE  /\ Effect("chain", A, B) => B = A /\ \E C \in Stacks : A = C (+) One("expr")
         /\ Effect("type_name", A, B) =>
              \E C \in Stacks : A = C (+) One("name") /\ B = C (+) One("type")
         /\ Effect("after_name", A, B) =>
              \E C \in Stacks : A = C (+) One("name") /\ B = C (+) One("expr")
         /\ Effect("stmts", A, B) =>
              \E C \in Stacks : A = C (+) List("stmt") /\ B = C (+) List("stmt") (+) Opt("expr")
         /\ Effect("expr_end", A, B) =>
              \E C \in Stacks : /\ A = C (+) List("stmt") (+) One("expr")
                                /\ B = C (+) List("stmt") (+) Opt("expr")
<1>2. Effect("chain", A, B) => B = A /\ \E C \in Stacks : A = C (+) One("expr")
  BY NotSilent DEF Effect, Holds
<1>3. /\ Effect("type_name", A, B) =>
           \E C \in Stacks : A = C (+) One("name") /\ B = C (+) One("type")
      /\ Effect("after_name", A, B) =>
           \E C \in Stacks : A = C (+) One("name") /\ B = C (+) One("expr")
  BY NotSilent DEF Effect, Holds
<1>4. Effect("stmts", A, B) =>
        \E C \in Stacks : A = C (+) List("stmt") /\ B = C (+) List("stmt") (+) Opt("expr")
  BY NotSilent DEF Effect, Holds
<1>5. Effect("expr_end", A, B) =>
        \E C \in Stacks : /\ A = C (+) List("stmt") (+) One("expr")
                          /\ B = C (+) List("stmt") (+) Opt("expr")
  BY NotSilent DEF Effect, Holds
<1> QED BY <1>2, <1>3, <1>4, <1>5

\* What the constructors rely on.
LEMMA ConstructorNeeds ==
  ASSUME NEW A, NEW B
  PROVE  /\ Effect("some", A, B) =>
              \E C \in Stacks : \E k \in ElementKinds \cup {"body"} :
                A = C (+) One(k) /\ B = C (+) Opt(k)
         /\ Effect("push", A, B) =>
              \E C \in Stacks : \E k \in ElementKinds :
                A = C (+) List(k) (+) One(k) /\ B = C (+) List(k)
         /\ Effect("Named", A, B) =>
              \E C \in Stacks : A = C (+) One("name") /\ B = C (+) One("type")
         /\ Effect("Generic", A, B) =>
              \E C \in Stacks : A = C (+) One("name") (+) List("type") /\ B = C (+) One("type")
         /\ Effect("Pointer", A, B) =>
              \E C \in Stacks : A = C (+) One("prefix") (+) One("type") /\ B = C (+) One("type")
         /\ Effect("Var", A, B) =>
              \E C \in Stacks : A = C (+) One("name") /\ B = C (+) One("expr")
         /\ Effect("StructLit", A, B) =>
              \E C \in Stacks : A = C (+) One("name") (+) List("init") /\ B = C (+) One("expr")
         /\ Effect("StaticCall", A, B) =>
              \E C \in Stacks : /\ A = C (+) One("name") (+) One("name") (+) List("expr")
                                /\ B = C (+) One("expr")
         /\ Effect("MethodCall", A, B) =>
              \E C \in Stacks : /\ A = C (+) One("expr") (+) One("name") (+) List("expr")
                                /\ B = C (+) One("expr")
<1>1. Effect("some", A, B) =>
        \E C \in Stacks : \E k \in ElementKinds \cup {"body"} :
          A = C (+) One(k) /\ B = C (+) Opt(k)
  BY NotSilent DEF Effect, Holds
<1>2. Effect("push", A, B) =>
        \E C \in Stacks : \E k \in ElementKinds :
          A = C (+) List(k) (+) One(k) /\ B = C (+) List(k)
  BY NotSilent DEF Effect, Holds
<1>3. Effect("Named", A, B) => \E C \in Stacks : A = C (+) One("name") /\ B = C (+) One("type")
  BY NotSilent DEF Effect, Holds
<1>4. Effect("Generic", A, B) =>
        \E C \in Stacks : A = C (+) One("name") (+) List("type") /\ B = C (+) One("type")
  BY NotSilent DEF Effect, Holds
<1>5. Effect("Pointer", A, B) =>
        \E C \in Stacks : A = C (+) One("prefix") (+) One("type") /\ B = C (+) One("type")
  BY NotSilent DEF Effect, Holds
<1>6. Effect("Var", A, B) => \E C \in Stacks : A = C (+) One("name") /\ B = C (+) One("expr")
  BY NotSilent DEF Effect, Holds
<1>7. Effect("StructLit", A, B) =>
        \E C \in Stacks : A = C (+) One("name") (+) List("init") /\ B = C (+) One("expr")
  BY NotSilent DEF Effect, Holds
<1>8. Effect("StaticCall", A, B) =>
        \E C \in Stacks : /\ A = C (+) One("name") (+) One("name") (+) List("expr")
                          /\ B = C (+) One("expr")
  BY NotSilent DEF Effect, Holds
<1>9. Effect("MethodCall", A, B) =>
        \E C \in Stacks : /\ A = C (+) One("expr") (+) One("name") (+) List("expr")
                          /\ B = C (+) One("expr")
  BY NotSilent DEF Effect, Holds
<1> QED BY <1>1, <1>2, <1>3, <1>4, <1>5, <1>6, <1>7, <1>8, <1>9

LEMMA PartNeeds ==
  ASSUME NEW A, NEW B
  PROVE  /\ Effect("ToyField", A, B) =>
              \E C \in Stacks :
                A = C (+) One("name") (+) One("primitive") /\ B = C (+) One("field")
         /\ Effect("ToyParam", A, B) =>
              \E C \in Stacks : A = C (+) One("name") (+) One("type") /\ B = C (+) One("param")
         /\ Effect("FieldInit", A, B) =>
              \E C \in Stacks : A = C (+) One("name") (+) One("expr") /\ B = C (+) One("init")
         /\ Effect("Let", A, B) =>
              \E C \in Stacks : A = C (+) One("name") (+) One("expr") /\ B = C (+) One("stmt")
         /\ Effect("ExprStmt", A, B) =>
              \E C \in Stacks : A = C (+) One("expr") /\ B = C (+) One("stmt")
         /\ Effect("FnBody", A, B) =>
              \E C \in Stacks : A = C (+) List("stmt") (+) Opt("expr") /\ B = C (+) One("body")
         /\ Effect("ToyStruct", A, B) =>
              B \in Stacks /\ A = B (+) One("name") (+) List("field")
         /\ Effect("ToyFunction", A, B) =>
              /\ B \in Stacks
              /\ A = B (+) One("name") (+) List("param") (+) Opt("type") (+) Opt("body")
<1>1. Effect("ToyField", A, B) =>
        \E C \in Stacks : A = C (+) One("name") (+) One("primitive") /\ B = C (+) One("field")
  BY NotSilent DEF Effect, Holds
<1>2. Effect("ToyParam", A, B) =>
        \E C \in Stacks : A = C (+) One("name") (+) One("type") /\ B = C (+) One("param")
  BY NotSilent DEF Effect, Holds
<1>3. Effect("FieldInit", A, B) =>
        \E C \in Stacks : A = C (+) One("name") (+) One("expr") /\ B = C (+) One("init")
  BY NotSilent DEF Effect, Holds
<1>4. Effect("Let", A, B) =>
        \E C \in Stacks : A = C (+) One("name") (+) One("expr") /\ B = C (+) One("stmt")
  BY NotSilent DEF Effect, Holds
<1>5. Effect("ExprStmt", A, B) =>
        \E C \in Stacks : A = C (+) One("expr") /\ B = C (+) One("stmt")
  BY NotSilent DEF Effect, Holds
<1>6. Effect("FnBody", A, B) =>
        \E C \in Stacks : A = C (+) List("stmt") (+) Opt("expr") /\ B = C (+) One("body")
  BY NotSilent DEF Effect, Holds
<1>7. Effect("ToyStruct", A, B) => B \in Stacks /\ A = B (+) One("name") (+) List("field")
  BY NotSilent DEF Effect, Holds
<1>8. Effect("ToyFunction", A, B) =>
        B \in Stacks /\ A = B (+) One("name") (+) List("param") (+) Opt("type") (+) Opt("body")
  BY NotSilent DEF Effect, Holds
<1> QED BY <1>1, <1>2, <1>3, <1>4, <1>5, <1>6, <1>7, <1>8

-----------------------------------------------------------------------------
(* Values of known kinds.                                                    *)

\* The values are of these kinds.
Fits(vs, A) ==
  /\ A \in Stacks /\ (\E S : vs \in Seq(S)) /\ Len(vs) = Len(A)
  /\ \A n \in 1 .. Len(A) : Is(A[n], vs[n])

LEMMA FitsNone == Fits(<< >>, << >>)
<1>1. PICK s : s = << >>
  OBVIOUS
<1>2. s \in Seq({}) /\ Len(s) = 0 /\ s \in Stacks
  BY <1>1, Stacked
<1>3. Fits(s, s)
  BY <1>2 DEF Fits
<1> QED BY <1>1, <1>3, Zenon

LEMMA FitsOver ==
  ASSUME NEW vs, NEW A, Fits(vs, A), NEW t \in Kinds, NEW v, Is(t, v)
  PROVE  Fits(Append(vs, v), A (+) t)
<1>1. PICK S : vs \in Seq(S)
  BY DEF Fits
<1>2. PICK ws, B : ws = Append(vs, v) /\ B = Append(A, t)
  OBVIOUS
<1>3. /\ ws \in Seq(S \cup {v}) /\ Len(ws) = Len(vs) + 1 /\ ws[Len(vs) + 1] = v
      /\ \A n \in 1 .. Len(vs) : ws[n] = vs[n]
  BY <1>1, <1>2, AppendProperties
<1>4. /\ A \in Seq(Kinds) /\ B \in Seq(Kinds) /\ Len(B) = Len(A) + 1 /\ B[Len(A) + 1] = t
      /\ \A n \in 1 .. Len(A) : B[n] = A[n]
  BY <1>2, AppendProperties DEF Fits, Stacks
<1>5. \A n \in 1 .. Len(B) : Is(B[n], ws[n])
  BY <1>3, <1>4 DEF Fits
<1>6. Fits(ws, B)
  BY <1>3, <1>4, <1>5 DEF Fits, Stacks
<1> QED BY <1>2, <1>6, Zenon DEF (+)

\* The first m values, of the last of which the kind is known.
LEMMA FitsUnder ==
  ASSUME NEW vs, NEW S, vs \in Seq(S), NEW m \in 0 .. Len(vs), NEW C \in Stacks, NEW t \in Kinds,
         Fits(SubSeq(vs, 1, m), C (+) t)
  PROVE  m - 1 \in 0 .. Len(vs) /\ Is(t, vs[m]) /\ Fits(SubSeq(vs, 1, m - 1), C)
<1>1. Len(vs) \in Nat
  OBVIOUS
<1>2. PICK us, B : us = SubSeq(vs, 1, m) /\ B = C (+) t
  OBVIOUS
<1>3. /\ C \in Seq(Kinds) /\ B \in Seq(Kinds) /\ Len(B) = Len(C) + 1 /\ B[Len(C) + 1] = t
      /\ \A n \in 1 .. Len(C) : B[n] = C[n]
  BY <1>2, AppendProperties DEF Stacks, (+)
<1>4. us \in Seq(S) /\ Len(us) = m /\ \A n \in 1 .. m : us[n] = vs[n]
  BY <1>1, <1>2, SubSeqProperties
<1>5. Fits(us, B)
  BY <1>2
<1>6. m = Len(C) + 1 /\ Is(t, vs[m]) /\ Len(C) \in Nat
  BY <1>3, <1>4, <1>5 DEF Fits
<1>7. PICK ws : ws = SubSeq(vs, 1, m - 1)
  OBVIOUS
<1>8. ws \in Seq(S) /\ Len(ws) = m - 1 /\ \A n \in 1 .. m - 1 : ws[n] = vs[n]
  BY <1>1, <1>6, <1>7, SubSeqProperties
<1>9. Fits(ws, C)
  BY <1>3, <1>4, <1>5, <1>6, <1>8 DEF Fits
<1> QED BY <1>6, <1>7, <1>9

\* The values on top, and those below them.
LEMMA FitsAll ==
  ASSUME NEW vs, NEW A, Fits(vs, A)
  PROVE  /\ \E S : vs \in Seq(S)
         /\ Len(vs) \in 0 .. Len(vs) /\ Fits(SubSeq(vs, 1, Len(vs)), A)
<1>1. PICK S : vs \in Seq(S)
  BY DEF Fits
<1>2. Len(vs) \in 0 .. Len(vs) /\ SubSeq(vs, 1, Len(vs)) = vs
  <2>1. Len(vs) \in Nat
    BY <1>1
  <2> QED BY <1>1, <2>1
<1> QED BY <1>1, <1>2, Zenon

LEMMA PopOne ==
  ASSUME NEW C \in Stacks, NEW s \in Kinds, Fits(values, C (+) s)
  PROVE  Is(s, Top(1)[1]) /\ Fits(Below(1), C)
<1>1. PICK S, m : values \in Seq(S) /\ m = Len(values)
  BY FitsAll
<1>2. m - 1 \in 0 .. m /\ Is(s, values[m]) /\ Fits(SubSeq(values, 1, m - 1), C)
  BY <1>1, FitsAll, FitsUnder
<1>3. Top(1)[1] = values[m]
  BY <1>1, <1>2 DEF Top
<1> QED BY <1>1, <1>2, <1>3 DEF Below

LEMMA PopTwo ==
  ASSUME NEW C \in Stacks, NEW s \in Kinds, NEW t \in Kinds, Fits(values, C (+) s (+) t)
  PROVE  Is(s, Top(2)[1]) /\ Is(t, Top(2)[2]) /\ Fits(Below(2), C)
<1>1. PICK S, m : values \in Seq(S) /\ m = Len(values)
  BY FitsAll
<1>2. /\ m \in 0 .. m /\ m - 1 \in 0 .. m /\ Is(t, values[m])
      /\ Fits(SubSeq(values, 1, m - 1), C (+) s)
  BY <1>1, FitsAll, FitsUnder, Stacked
<1>3. /\ m - 2 \in 0 .. m /\ Is(s, values[m - 1])
      /\ Fits(SubSeq(values, 1, m - 2), C)
  <2>1. m - 1 - 1 = m - 2
    BY <1>2
  <2> QED BY <1>1, <1>2, <2>1, FitsUnder
<1>4. Top(2)[1] = values[m - 1] /\ Top(2)[2] = values[m]
  BY <1>1, <1>2, <1>3 DEF Top
<1> QED BY <1>1, <1>2, <1>3, <1>4 DEF Below

LEMMA PopThree ==
  ASSUME NEW C \in Stacks, NEW r \in Kinds, NEW s \in Kinds, NEW t \in Kinds,
         Fits(values, C (+) r (+) s (+) t)
  PROVE  Is(r, Top(3)[1]) /\ Is(s, Top(3)[2]) /\ Is(t, Top(3)[3]) /\ Fits(Below(3), C)
<1>1. PICK S, m : values \in Seq(S) /\ m = Len(values)
  BY FitsAll
<1>2. /\ m \in 0 .. m /\ m - 1 \in 0 .. m /\ Is(t, values[m])
      /\ Fits(SubSeq(values, 1, m - 1), C (+) r (+) s)
  BY <1>1, FitsAll, FitsUnder, Stacked
<1>3. /\ m - 2 \in 0 .. m /\ Is(s, values[m - 1])
      /\ Fits(SubSeq(values, 1, m - 2), C (+) r)
  <2>1. m - 1 - 1 = m - 2
    BY <1>2
  <2> QED BY <1>1, <1>2, <2>1, FitsUnder, Stacked
<1>4. /\ m - 3 \in 0 .. m /\ Is(r, values[m - 2])
      /\ Fits(SubSeq(values, 1, m - 3), C)
  <2>1. m - 2 - 1 = m - 3
    BY <1>2
  <2> QED BY <1>1, <1>3, <2>1, FitsUnder
<1>5. Top(3)[1] = values[m - 2] /\ Top(3)[2] = values[m - 1] /\ Top(3)[3] = values[m]
  BY <1>1, <1>2, <1>4 DEF Top
<1> QED BY <1>1, <1>2, <1>3, <1>4, <1>5 DEF Below

LEMMA PopFour ==
  ASSUME NEW C \in Stacks, NEW q \in Kinds, NEW r \in Kinds, NEW s \in Kinds, NEW t \in Kinds,
         Fits(values, C (+) q (+) r (+) s (+) t)
  PROVE  /\ Is(q, Top(4)[1]) /\ Is(r, Top(4)[2]) /\ Is(s, Top(4)[3]) /\ Is(t, Top(4)[4])
         /\ Fits(Below(4), C)
<1>1. PICK S, m : values \in Seq(S) /\ m = Len(values)
  BY FitsAll
<1>2. /\ m \in 0 .. m /\ m - 1 \in 0 .. m /\ Is(t, values[m])
      /\ Fits(SubSeq(values, 1, m - 1), C (+) q (+) r (+) s)
  BY <1>1, FitsAll, FitsUnder, Stacked
<1>3. /\ m - 2 \in 0 .. m /\ Is(s, values[m - 1])
      /\ Fits(SubSeq(values, 1, m - 2), C (+) q (+) r)
  <2>1. m - 1 - 1 = m - 2
    BY <1>2
  <2> QED BY <1>1, <1>2, <2>1, FitsUnder, Stacked
<1>4. /\ m - 3 \in 0 .. m /\ Is(r, values[m - 2])
      /\ Fits(SubSeq(values, 1, m - 3), C (+) q)
  <2>1. m - 2 - 1 = m - 3
    BY <1>2
  <2> QED BY <1>1, <1>3, <2>1, FitsUnder, Stacked
<1>5. /\ m - 4 \in 0 .. m /\ Is(q, values[m - 3])
      /\ Fits(SubSeq(values, 1, m - 4), C)
  <2>1. m - 3 - 1 = m - 4
    BY <1>2
  <2> QED BY <1>1, <1>4, <2>1, FitsUnder
<1>6. /\ Top(4)[1] = values[m - 3] /\ Top(4)[2] = values[m - 2] /\ Top(4)[3] = values[m - 1]
      /\ Top(4)[4] = values[m]
  BY <1>1, <1>2, <1>5 DEF Top
<1> QED BY <1>1, <1>2, <1>3, <1>4, <1>5, <1>6 DEF Below

-----------------------------------------------------------------------------
(* What each production leaves to do has the effect of the item it replaces.  *)

LEMMA KnownKinds ==
  /\ \A k \in {"name", "primitive", "prefix", "body", "field", "param", "expr", "init", "type",
              "stmt"} : One(k) \in Kinds /\ List(k) \in Kinds /\ Opt(k) \in Kinds
  /\ {"field", "param", "expr", "init", "type", "stmt"} \subseteq ElementKinds
BY KindsKnown DEF ElementKinds

LEMMA TokensSilent ==
  /\ Silent("{") /\ Silent("}") /\ Silent("(") /\ Silent(")") /\ Silent(">") /\ Silent(":")
  /\ Silent("=") /\ Silent(";") /\ Silent("comma")
BY Zenon DEF Silent, TokenKinds

\* Name and parenthesis, arguments.
LEMMA CallItems ==
  ASSUME NEW C \in Stacks, NEW c, NEW B, Effect(c, C (+) One("name") (+) List("expr"), B)
  PROVE  Leads(<<"Ident", "(", "empty", "args", ")", c>>, C, B)
<1>1. PICK N, L : N = C (+) One("name") /\ L = N (+) List("expr")
  OBVIOUS
<1>2. N \in Stacks /\ L \in Stacks
  BY <1>1, KnownKinds, Stacked
<1>3. Effect("Ident", C, N) /\ Effect("empty", N, L) /\ Effect("args", L, L)
  BY <1>1, <1>2, Rules, KnownKinds DEF Holds
<1>4. Effect("(", N, N) /\ Effect(")", L, L)
  BY <1>2, Rules, TokensSilent, Zenon
<1> QED BY <1>1, <1>3, <1>4, LeadsSix, Zenon

LEMMA StructItems ==
  Leads(<<"Ident", "{", "empty", "fields", "}", "ToyStruct", "program">>, << >>, << >>)
<1>1. PICK C, N, L : C = << >> /\ N = C (+) One("name") /\ L = N (+) List("field")
  OBVIOUS
<1>2. C \in Stacks /\ N \in Stacks /\ L \in Stacks
  BY <1>1, KnownKinds, Stacked
<1>3. /\ Effect("Ident", C, N) /\ Effect("empty", N, L) /\ Effect("fields", L, L)
      /\ Effect("ToyStruct", L, C) /\ Effect("program", C, C)
  BY <1>1, <1>2, Rules, ConstructorRules, KnownKinds DEF Holds
<1>4. Effect("{", N, N) /\ Effect("}", L, L)
  BY <1>2, Rules, TokensSilent, Zenon
<1>5. Leads(<<"Ident", "{", "empty", "fields", "}", "ToyStruct", "program">>, C, C)
  BY <1>3, <1>4, LeadsSeven, Zenon
<1> QED BY <1>1, <1>5, Zenon

LEMMA FnItems ==
  Leads(<<"Ident", "(", "empty", "params", ")", "return_ty", "{", "empty", "stmts",
          "FnBody", "some", "ToyFunction", "program">>, << >>, << >>)
<1>1. PICK C, N, P, R : /\ C = << >> /\ N = C (+) One("name") /\ P = N (+) List("param")
                        /\ R = P (+) Opt("type")
  OBVIOUS
<1>2. C \in Stacks /\ N \in Stacks /\ P \in Stacks /\ R \in Stacks
  BY <1>1, KnownKinds, Stacked
<1>3. /\ Effect("Ident", C, N) /\ Effect("empty", N, P) /\ Effect("params", P, P)
      /\ Effect("return_ty", P, R)
  BY <1>1, <1>2, Rules, KnownKinds DEF Holds
<1>4. Effect("(", N, N) /\ Effect(")", P, P) /\ Effect("{", R, R)
  BY <1>2, Rules, TokensSilent, Zenon
<1>5. Leads(<<"Ident", "(", "empty", "params", ")", "return_ty", "{">>, C, R)
  BY <1>3, <1>4, LeadsSeven, Zenon
<1>6. /\ Effect("empty", R, R (+) List("stmt"))
      /\ Effect("stmts", R (+) List("stmt"), R (+) List("stmt") (+) Opt("expr"))
      /\ Effect("FnBody", R (+) List("stmt") (+) Opt("expr"), R (+) One("body"))
      /\ Effect("some", R (+) One("body"), R (+) Opt("body"))
      /\ Effect("ToyFunction", R (+) Opt("body"), C) /\ Effect("program", C, C)
  BY <1>1, <1>2, Rules, ConstructorRules, KnownKinds
<1>7. Leads(<<"empty", "stmts", "FnBody", "some", "ToyFunction", "program">>, R, C)
  BY <1>6, LeadsSix, Zenon
<1>8. ASSUME NEW a, NEW b, NEW c
      PROVE  <<"Ident", a, "empty", "params", b, "return_ty", c, "empty", "stmts",
               "FnBody", "some", "ToyFunction", "program">>
             = <<"Ident", a, "empty", "params", b, "return_ty", c>>
                 \o <<"empty", "stmts", "FnBody", "some", "ToyFunction", "program">>
  OBVIOUS
<1>9. Leads(<<"Ident", "(", "empty", "params", ")", "return_ty", "{", "empty", "stmts",
              "FnBody", "some", "ToyFunction", "program">>, C, C)
  BY <1>5, <1>7, <1>8, LeadsOn, Zenon
<1> QED BY <1>1, <1>9, Zenon

\* An element of a list.
LEMMA FieldItems ==
  ASSUME NEW L \in Stacks, NEW k \in ElementKinds, NEW C \in Stacks, L = C (+) List(k),
         NEW i, NEW t \in Kinds, Effect(i, L (+) One("name"), L (+) One("name") (+) t),
         NEW c, Effect(c, L (+) One("name") (+) t, L (+) One(k))
  PROVE  Leads(<<"Ident", ":", i, c, "push">>, L, L)
<1>1. PICK N, V, K : N = L (+) One("name") /\ V = N (+) t /\ K = L (+) One(k)
  OBVIOUS
<1>2. N \in Stacks /\ K \in Stacks
  BY <1>1, KnownKinds, KindsKnown, Stacked
<1>3. Effect("Ident", L, N) /\ Effect("push", K, L)
  BY <1>1, Rules
<1>4. Effect(":", N, N)
  BY <1>2, Rules, TokensSilent, Zenon
<1> QED BY <1>1, <1>3, <1>4, LeadsFive, Zenon

LEMMA ElementItems ==
  ASSUME NEW l \in DOMAIN Holds, NEW C \in Stacks, NEW L, L = C (+) List(Holds[l])
  PROVE  Leads(Element[l] \o <<"comma", l>>, L, L)
<1>0. l \in {"fields", "params", "args", "inits", "type_args"}
  BY DEF Holds
<1>1. L \in Stacks /\ Holds[l] \in ElementKinds
  <2>1. Holds[l] \in ElementKinds
    BY <1>0, KnownKinds DEF Holds
  <2> QED BY <2>1, Stacked, KindsKnown
<1>2. L (+) One("name") \in Stacks
  BY <1>1, Stacked, KnownKinds
<1>3. ASSUME l = "fields" PROVE Leads(Element[l], L, L)
  <2>1. Element[l] = <<"Ident", ":", "primitive_type", "ToyField", "push">> /\ Holds[l] = "field"
    BY <1>3 DEF Element, Holds
  <2>2. /\ Effect("primitive_type", L (+) One("name"), L (+) One("name") (+) One("primitive"))
        /\ Effect("ToyField", L (+) One("name") (+) One("primitive"), L (+) One("field"))
    BY <1>1, <1>2, Rules, ConstructorRules
  <2> QED BY <1>1, <2>1, <2>2, FieldItems, KnownKinds
<1>4. ASSUME l = "params" PROVE Leads(Element[l], L, L)
  <2>1. Element[l] = <<"Ident", ":", "type_str", "ToyParam", "push">> /\ Holds[l] = "param"
    BY <1>4 DEF Element, Holds
  <2>2. /\ Effect("type_str", L (+) One("name"), L (+) One("name") (+) One("type"))
        /\ Effect("ToyParam", L (+) One("name") (+) One("type"), L (+) One("param"))
    BY <1>1, <1>2, Rules, ConstructorRules
  <2> QED BY <1>1, <2>1, <2>2, FieldItems, KnownKinds
<1>5. ASSUME l = "inits" PROVE Leads(Element[l], L, L)
  <2>1. Element[l] = <<"Ident", ":", "expr", "FieldInit", "push">> /\ Holds[l] = "init"
    BY <1>5 DEF Element, Holds
  <2>2. /\ Effect("expr", L (+) One("name"), L (+) One("name") (+) One("expr"))
        /\ Effect("FieldInit", L (+) One("name") (+) One("expr"), L (+) One("init"))
    BY <1>1, <1>2, Rules, ConstructorRules
  <2> QED BY <1>1, <2>1, <2>2, FieldItems, KnownKinds
<1>6. ASSUME l = "args" PROVE Leads(Element[l], L, L)
  <2>1. Element[l] = <<"expr", "push">> /\ L = C (+) List("expr")
    BY <1>6 DEF Element, Holds
  <2>2. Effect("expr", L, L (+) One("expr")) /\ Effect("push", L (+) One("expr"), L)
    BY <1>1, <2>1, Rules, KnownKinds
  <2> QED BY <2>1, <2>2, LeadsTwo
<1>7. ASSUME l = "type_args" PROVE Leads(Element[l], L, L)
  <2>1. Element[l] = <<"type_str", "push">> /\ L = C (+) List("type")
    BY <1>7 DEF Element, Holds
  <2>2. Effect("type_str", L, L (+) One("type")) /\ Effect("push", L (+) One("type"), L)
    BY <1>1, <2>1, Rules, KnownKinds
  <2> QED BY <2>1, <2>2, LeadsTwo
<1>8. Leads(Element[l], L, L)
  BY <1>3, <1>4, <1>5, <1>6, <1>7, <1>0
<1>9. Leads(<<"comma", l>>, L, L)
  BY <1>1, Rules, TokensSilent, LeadsTwo
<1> QED BY <1>8, <1>9, LeadsOn

\* A statement, and an expression that is one or ends the body.
LEMMA LetItems ==
  ASSUME NEW A, NEW B, Effect("stmts", A, B)
  PROVE  Leads(<<"Ident", "=", "expr", ";", "Let", "push", "stmts">>, A, B)
<1>1. PICK C \in Stacks : A = C (+) List("stmt")
  BY LoopNeeds
<1>2. PICK N, E : N = A (+) One("name") /\ E = N (+) One("expr")
  OBVIOUS
<1>3. A \in Stacks /\ N \in Stacks /\ E \in Stacks
  BY <1>1, <1>2, KnownKinds, Stacked
<1>4. /\ Effect("Ident", A, N) /\ Effect("expr", N, E) /\ Effect("Let", E, A (+) One("stmt"))
      /\ Effect("push", A (+) One("stmt"), A)
  BY <1>1, <1>2, <1>3, Rules, ConstructorRules, KnownKinds
<1>5. Effect("=", N, N) /\ Effect(";", E, E)
  BY <1>3, Rules, TokensSilent, Zenon
<1> QED BY <1>4, <1>5, LeadsSeven, Zenon

LEMMA StatementItems ==
  ASSUME NEW A, NEW B
  PROVE  /\ Effect("stmts", A, B) =>
              Leads(<<"empty">>, A, B) /\ Leads(<<"expr", "expr_end">>, A, B)
         /\ Effect("expr_end", A, B) =>
              Leads(<<"ExprStmt", "push", "stmts">>, A, B) /\ Leads(<<"}", "some">>, A, B)
<1>1. ASSUME Effect("stmts", A, B)
      PROVE  Leads(<<"empty">>, A, B) /\ Leads(<<"expr", "expr_end">>, A, B)
  <2>1. PICK C \in Stacks : A = C (+) List("stmt") /\ B = C (+) List("stmt") (+) Opt("expr")
    BY <1>1, LoopNeeds
  <2>2. A \in Stacks
    BY <2>1, KnownKinds, Stacked
  <2>3. /\ Effect("empty", A, B) /\ Effect("expr", A, A (+) One("expr"))
        /\ Effect("expr_end", A (+) One("expr"), B)
    BY <2>1, <2>2, Rules, ConstructorRules, KnownKinds
  <2> QED BY <2>3, LeadsOne, LeadsTwo
<1>2. ASSUME Effect("expr_end", A, B)
      PROVE  Leads(<<"ExprStmt", "push", "stmts">>, A, B) /\ Leads(<<"}", "some">>, A, B)
  <2>0. PICK C \in Stacks : /\ A = C (+) List("stmt") (+) One("expr")
                            /\ B = C (+) List("stmt") (+) Opt("expr")
    BY <1>2, LoopNeeds
  <2>1. PICK L : L = C (+) List("stmt") /\ A = L (+) One("expr") /\ B = L (+) Opt("expr")
    BY <2>0
  <2>2. L \in Stacks /\ A \in Stacks
    BY <2>1, KnownKinds, Stacked
  <2>3. /\ Effect("ExprStmt", A, L (+) One("stmt")) /\ Effect("push", L (+) One("stmt"), L)
        /\ Effect("stmts", L, B) /\ Effect("some", A, B)
    BY <2>1, <2>2, Rules, ConstructorRules, KnownKinds
  <2>4. Effect("}", A, A)
    BY <2>2, Rules, TokensSilent, Zenon
  <2> QED BY <2>3, <2>4, LeadsTwo, LeadsThree, Zenon
<1> QED BY <1>1, <1>2

\* Expressions.
LEMMA ExprItems ==
  ASSUME NEW A, NEW B
  PROVE  /\ Effect("expr", A, B) => Leads(<<"primary", "chain">>, A, B)
         /\ Effect("chain", A, B) =>
              Leads(<<"Ident", "(", "empty", "args", ")", "MethodCall", "chain">>, A, B)
         /\ Effect("primary", A, B) => Leads(<<"after_name">>, A (+) One("name"), B)
         /\ Effect("after_name", A, B) =>
              /\ Leads(<<"Ident", "(", "empty", "args", ")", "StaticCall">>, A, B)
              /\ Leads(<<"empty", "inits", "}", "StructLit">>, A, B)
              /\ Leads(<<"Var">>, A, B)
<1>1. ASSUME Effect("expr", A, B) PROVE Leads(<<"primary", "chain">>, A, B)
  BY <1>1, Needs, Rules, LeadsTwo
<1>2. ASSUME Effect("chain", A, B)
      PROVE  Leads(<<"Ident", "(", "empty", "args", ")", "MethodCall", "chain">>, A, B)
  <2>1. PICK C \in Stacks : A = C (+) One("expr") /\ B = A
    BY <1>2, LoopNeeds
  <2>2. A \in Stacks
    BY <2>1, KnownKinds, Stacked
  <2>3. Effect("MethodCall", A (+) One("name") (+) List("expr"), A)
    BY <2>1, ConstructorRules
  <2>4. Leads(<<"Ident", "(", "empty", "args", ")", "MethodCall">>, A, A)
    BY <2>2, <2>3, CallItems
  <2>5. Leads(<<"chain">>, A, B)
    BY <1>2, LeadsOne
  <2>6. ASSUME NEW a, NEW b
        PROVE  <<"Ident", a, "empty", "args", b, "MethodCall", "chain">>
                 = <<"Ident", a, "empty", "args", b, "MethodCall">> \o <<"chain">>
    OBVIOUS
  <2> QED BY <2>1, <2>4, <2>5, <2>6, LeadsOn, Zenon
<1>3. ASSUME Effect("primary", A, B) PROVE Leads(<<"after_name">>, A (+) One("name"), B)
  BY <1>3, Needs, Rules, LeadsOne
<1>4. ASSUME Effect("after_name", A, B)
      PROVE  /\ Leads(<<"Ident", "(", "empty", "args", ")", "StaticCall">>, A, B)
             /\ Leads(<<"empty", "inits", "}", "StructLit">>, A, B)
             /\ Leads(<<"Var">>, A, B)
  <2>1. PICK C \in Stacks : A = C (+) One("name") /\ B = C (+) One("expr")
    BY <1>4, LoopNeeds
  <2>2. PICK L : L = A (+) List("init")
    OBVIOUS
  <2>3. A \in Stacks /\ L \in Stacks
    BY <2>1, <2>2, KnownKinds, Stacked
  <2>4. /\ Effect("StaticCall", A (+) One("name") (+) List("expr"), B)
        /\ Effect("empty", A, L) /\ Effect("inits", L, L) /\ Effect("StructLit", L, B)
        /\ Effect("Var", A, B)
    BY <2>1, <2>2, <2>3, Rules, ConstructorRules, KnownKinds DEF Holds
  <2>5. Effect("}", L, L)
    BY <2>3, Rules, TokensSilent, Zenon
  <2>6. Leads(<<"empty", "inits", "}", "StructLit">>, A, B)
    BY <2>4, <2>5, LeadsFour, Zenon
  <2> QED BY <2>3, <2>4, <2>6, CallItems, LeadsOne, Zenon
<1> QED BY <1>1, <1>2, <1>3, <1>4, Zenon

\* Types.
LEMMA TypeItems ==
  ASSUME NEW A, NEW B
  PROVE  /\ Effect("return_ty", A, B) =>
              Leads(<<"type_str", "some">>, A, B) /\ Leads(<<"empty">>, A, B)
         /\ Effect("type_str", A, B) =>
              /\ Leads(<<"mut", "type_str", "Pointer">>, A, B)
              /\ Leads(<<"qualifier", "type_str", "Pointer">>, A, B)
              /\ Leads(<<"type_name">>, A (+) One("name"), B)
         /\ Effect("type_name", A, B) =>
              Leads(<<"empty", "type_args", ">", "Generic">>, A, B) /\ Leads(<<"Named">>, A, B)
<1>1. ASSUME Effect("return_ty", A, B)
      PROVE  Leads(<<"type_str", "some">>, A, B) /\ Leads(<<"empty">>, A, B)
  <2>1. /\ Effect("type_str", A, A (+) One("type")) /\ Effect("some", A (+) One("type"), B)
        /\ Effect("empty", A, B)
    BY <1>1, Needs, Rules, KnownKinds
  <2> QED BY <2>1, LeadsOne, LeadsTwo
<1>2. ASSUME Effect("type_str", A, B)
      PROVE  /\ Leads(<<"mut", "type_str", "Pointer">>, A, B)
             /\ Leads(<<"qualifier", "type_str", "Pointer">>, A, B)
             /\ Leads(<<"type_name">>, A (+) One("name"), B)
  <2>1. A \in Stacks /\ B = A (+) One("type")
    BY <1>2, Needs
  <2>2. PICK P : P = A (+) One("prefix")
    OBVIOUS
  <2>3. P \in Stacks
    BY <2>1, <2>2, KnownKinds, Stacked
  <2>4. /\ Effect("mut", A, P) /\ Effect("qualifier", A, P)
        /\ Effect("type_str", P, P (+) One("type"))
        /\ Effect("Pointer", P (+) One("type"), B) /\ Effect("type_name", A (+) One("name"), B)
    BY <2>1, <2>2, <2>3, Rules, ConstructorRules
  <2> QED BY <2>4, LeadsOne, LeadsThree
<1>3. ASSUME Effect("type_name", A, B)
      PROVE  Leads(<<"empty", "type_args", ">", "Generic">>, A, B) /\ Leads(<<"Named">>, A, B)
  <2>1. PICK C \in Stacks : A = C (+) One("name") /\ B = C (+) One("type")
    BY <1>3, LoopNeeds
  <2>2. PICK L : L = A (+) List("type")
    OBVIOUS
  <2>3. A \in Stacks /\ L \in Stacks
    BY <2>1, <2>2, KnownKinds, Stacked
  <2>4. /\ Effect("empty", A, L) /\ Effect("type_args", L, L) /\ Effect("Generic", L, B)
        /\ Effect("Named", A, B)
    BY <2>1, <2>2, <2>3, Rules, ConstructorRules, KnownKinds DEF Holds
  <2>5. Effect(">", L, L)
    BY <2>3, Rules, TokensSilent, Zenon
  <2> QED BY <2>4, <2>5, LeadsOne, LeadsFour, Zenon
<1> QED BY <1>1, <1>2, <1>3

-----------------------------------------------------------------------------
(* What a constructor makes is of the kind that the table says.             *)

LEMMA MadeIs ==
  ASSUME NEW v
  PROVE  /\ Made("empty", v) = << >> /\ Made("some", v) = <<v[1]>>
         /\ Made("push", v) = Append(v[1], v[2])
         /\ Made("ToyField", v) = ToyField(v[1], v[2])
         /\ Made("ToyParam", v) = ToyParam(v[1], v[2])
         /\ Made("FieldInit", v) = FieldInit(v[1], v[2])
         /\ Made("Named", v) = Named(v[1])
         /\ Made("Generic", v) = Generic(v[1], v[2])
         /\ Made("Pointer", v) = Pointer(v[1], v[2])
         /\ Made("Var", v) = Var(v[1])
         /\ Made("StructLit", v) = StructLit(v[1], v[2])
         /\ Made("StaticCall", v) = StaticCall(v[1], v[2], v[3])
         /\ Made("MethodCall", v) = MethodCall(v[1], v[2], v[3])
         /\ Made("Let", v) = Let(v[1], v[2])
         /\ Made("ExprStmt", v) = ExprStmt(v[1])
         /\ Made("FnBody", v) = FnBody(v[1], v[2])
BY DEF Made

LEMMA AritySays ==
  /\ DOMAIN Arity = {"empty", "some", "push", "ToyField", "ToyParam", "FieldInit", "Named",
                     "Generic", "Pointer", "Var", "StructLit", "StaticCall", "MethodCall", "Let",
                     "ExprStmt", "FnBody"}
  /\ Arity["empty"] = 0
  /\ \A c \in {"some", "Named", "Var", "ExprStmt"} : Arity[c] = 1
  /\ \A c \in {"push", "ToyField", "ToyParam", "FieldInit", "Generic", "Pointer", "StructLit",
               "Let", "FnBody"} : Arity[c] = 2
  /\ \A c \in {"StaticCall", "MethodCall"} : Arity[c] = 3
BY DEF Arity

\* With the operands replaced by the result, the values are of kinds B.
Makes(c, B) == Fits(Append(Below(Arity[c]), Made(c, Top(Arity[c]))), B)

LEMMA MakesOver ==
  ASSUME NEW c, NEW C, NEW t \in Kinds,
         Fits(Below(Arity[c]), C), Is(t, Made(c, Top(Arity[c])))
  PROVE  Makes(c, C (+) t)
BY FitsOver DEF Makes

LEMMA ListsMade ==
  ASSUME NEW A, NEW B, Fits(values, A)
  PROVE  /\ Effect("empty", A, B) => Makes("empty", B)
         /\ Effect("some", A, B) => Makes("some", B)
         /\ Effect("push", A, B) => Makes("push", B)
<1>1. ASSUME Effect("empty", A, B) PROVE Makes("empty", B)
  <2>1. PICK k \in ElementKinds : B = A (+) List(k) \/ B = A (+) Opt(k)
    BY <1>1, Needs
  <2>2. Fits(Below(0), A)
    <3>1. PICK S : values \in Seq(S)
      BY FitsAll
    <3>2. Below(0) = SubSeq(values, 1, Len(values))
      BY <3>1 DEF Below
    <3> QED BY <3>2, FitsAll
  <2>3. Is(List(k), Made("empty", Top(0))) /\ Is(Opt(k), Made("empty", Top(0)))
    <3>1. PICK l : l = << >>
      OBVIOUS
    <3>2. AllAre(k, l) /\ Len(l) <= 1 /\ Made("empty", Top(0)) = l
      BY <3>1, EmptyList, MadeIs, Zenon
    <3> QED BY <3>2, IsOneOf, Zenon
  <2> QED BY <2>1, <2>2, <2>3, MakesOver, KindsKnown, AritySays
<1>2. ASSUME Effect("some", A, B) PROVE Makes("some", B)
  <2>1. PICK C \in Stacks, k \in ElementKinds \cup {"body"} : A = C (+) One(k) /\ B = C (+) Opt(k)
    BY <1>2, ConstructorNeeds
  <2>2. Is(One(k), Top(1)[1]) /\ Fits(Below(1), C)
    BY <2>1, PopOne, KindsKnown
  <2>3. PICK v, l : v = Top(1)[1] /\ l = <<v>>
    OBVIOUS
  <2>4. Made("some", Top(1)) = l
    BY <2>3, MadeIs, Zenon
  <2>5. Is(Opt(k), l)
    <3>1. CASE k \in ElementKinds
      <4>1. IsElement(k, v)
        BY <2>2, <2>3, <3>1, IsOneOf, Zenon
      <4>2. AllAre(k, l) /\ Len(l) <= 1
        BY <2>3, <4>1, SingleList, Zenon
      <4> QED BY <3>1, <4>2, IsOneOf, Zenon
    <3>2. CASE k = "body"
      <4>1. IsBody(v)
        BY <2>2, <2>3, <3>2, IsOneOf, Zenon
      <4> QED BY <2>3, <3>2, <4>1, IsOneOf, Zenon
    <3> QED BY <3>1, <3>2
  <2> QED BY <2>1, <2>2, <2>4, <2>5, MakesOver, KindsKnown, AritySays
<1>3. ASSUME Effect("push", A, B) PROVE Makes("push", B)
  <2>1. PICK C \in Stacks, k \in ElementKinds :
          A = C (+) List(k) (+) One(k) /\ B = C (+) List(k)
    BY <1>3, ConstructorNeeds
  <2>2. Is(List(k), Top(2)[1]) /\ Is(One(k), Top(2)[2]) /\ Fits(Below(2), C)
    BY <2>1, PopTwo, KindsKnown
  <2>3. Is(List(k), Made("push", Top(2)))
    <3>1. AllAre(k, Top(2)[1]) /\ IsElement(k, Top(2)[2])
      BY <2>2, IsOneOf, Zenon
    <3>2. AllAre(k, Append(Top(2)[1], Top(2)[2]))
      BY <3>1, LongerList, Zenon
    <3> QED BY <3>2, MadeIs, IsOneOf, Zenon
  <2> QED BY <2>1, <2>2, <2>3, MakesOver, KindsKnown, AritySays
<1> QED BY <1>1, <1>2, <1>3

LEMMA OneMade ==
  ASSUME NEW v
  PROVE  /\ Is(One("name"), v) <=> v \in STRING
         /\ Is(One("primitive"), v) <=> v \in PrimitiveTypes
         /\ Is(One("type"), v) <=> IsType(v)
         /\ Is(One("expr"), v) <=> IsExpr(v)
         /\ Is(One("field"), v) <=> IsField(v)
         /\ Is(One("param"), v) <=> IsParam(v)
         /\ Is(One("init"), v) <=> IsInit(v)
         /\ Is(One("stmt"), v) <=> IsStatement(v)
<1>1. \A k \in ElementKinds : Is(One(k), v) <=> IsElement(k, v)
  BY IsOneOf, Zenon
<1>2. /\ IsElement("type", v) <=> IsType(v)
      /\ IsElement("expr", v) <=> IsExpr(v)
      /\ IsElement("field", v) <=> IsField(v)
      /\ IsElement("param", v) <=> IsParam(v)
      /\ IsElement("init", v) <=> IsInit(v)
      /\ IsElement("stmt", v) <=> IsStatement(v)
  BY DEF IsElement
<1> QED BY <1>1, <1>2, IsOneOf DEF ElementKinds

LEMMA ListMade ==
  ASSUME NEW v
  PROVE  /\ Is(List("type"), v) <=> AllAre("type", v)
         /\ Is(List("expr"), v) <=> AllAre("expr", v)
         /\ Is(List("init"), v) <=> AllAre("init", v)
         /\ Is(List("stmt"), v) <=> AllAre("stmt", v)
         /\ Is(List("field"), v) <=> AllAre("field", v)
         /\ Is(List("param"), v) <=> AllAre("param", v)
         /\ Is(Opt("expr"), v) <=> AllAre("expr", v) /\ Len(v) <= 1
         /\ Is(Opt("type"), v) <=> AllAre("type", v) /\ Len(v) <= 1
<1>1. ASSUME NEW k \in ElementKinds
      PROVE  /\ Is(List(k), v) <=> AllAre(k, v)
             /\ Is(Opt(k), v) <=> AllAre(k, v) /\ Len(v) <= 1
  BY IsOneOf, Zenon
<1>2. /\ "type" \in ElementKinds /\ "expr" \in ElementKinds /\ "init" \in ElementKinds
      /\ "stmt" \in ElementKinds /\ "field" \in ElementKinds /\ "param" \in ElementKinds
  BY DEF ElementKinds
<1>3. /\ Is(List("type"), v) <=> AllAre("type", v)
      /\ Is(List("expr"), v) <=> AllAre("expr", v)
      /\ Is(List("init"), v) <=> AllAre("init", v)
  BY <1>1, <1>2, Zenon
<1>4. /\ Is(List("stmt"), v) <=> AllAre("stmt", v)
      /\ Is(List("field"), v) <=> AllAre("field", v)
      /\ Is(List("param"), v) <=> AllAre("param", v)
  BY <1>1, <1>2, Zenon
<1>5. /\ Is(Opt("expr"), v) <=> AllAre("expr", v) /\ Len(v) <= 1
      /\ Is(Opt("type"), v) <=> AllAre("type", v) /\ Len(v) <= 1
  BY <1>1, <1>2, Zenon
<1> QED BY <1>3, <1>4, <1>5

LEMMA TypesFit ==
  ASSUME NEW A, NEW B, Fits(values, A)
  PROVE  /\ Effect("Named", A, B) => Makes("Named", B)
         /\ Effect("Generic", A, B) => Makes("Generic", B)
         /\ Effect("Pointer", A, B) => Makes("Pointer", B)
<1>1. ASSUME Effect("Named", A, B) PROVE Makes("Named", B)
  <2>1. PICK C \in Stacks : A = C (+) One("name") /\ B = C (+) One("type")
    BY <1>1, ConstructorNeeds
  <2>2. Top(1)[1] \in STRING /\ Fits(Below(1), C)
    BY <2>1, PopOne, KnownKinds, IsOneOf
  <2>3. Is(One("type"), Made("Named", Top(1)))
    BY <2>2, MadeIs, OneMade, TypesMade, KnownKinds
  <2> QED BY <2>1, <2>2, <2>3, MakesOver, KnownKinds, AritySays
<1>2. ASSUME Effect("Generic", A, B) PROVE Makes("Generic", B)
  <2>1. PICK C \in Stacks : A = C (+) One("name") (+) List("type") /\ B = C (+) One("type")
    BY <1>2, ConstructorNeeds
  <2>2. Top(2)[1] \in STRING /\ AllAre("type", Top(2)[2]) /\ Fits(Below(2), C)
    BY <2>1, PopTwo, KnownKinds, OneMade, ListMade
  <2>3. Is(One("type"), Made("Generic", Top(2)))
    BY <2>2, MadeIs, OneMade, TypesMade, KnownKinds
  <2> QED BY <2>1, <2>2, <2>3, MakesOver, KnownKinds, AritySays
<1>3. ASSUME Effect("Pointer", A, B) PROVE Makes("Pointer", B)
  <2>1. PICK C \in Stacks : A = C (+) One("prefix") (+) One("type") /\ B = C (+) One("type")
    BY <1>3, ConstructorNeeds
  <2>2. Top(2)[1] \in Prefixes /\ IsType(Top(2)[2]) /\ Fits(Below(2), C)
    BY <2>1, PopTwo, KnownKinds, IsOneOf, OneMade
  <2>3. Is(One("type"), Made("Pointer", Top(2)))
    BY <2>2, MadeIs, OneMade, TypesMade, KnownKinds
  <2> QED BY <2>1, <2>2, <2>3, MakesOver, KnownKinds, AritySays
<1> QED BY <1>1, <1>2, <1>3

LEMMA ExprsFit ==
  ASSUME NEW A, NEW B, Fits(values, A)
  PROVE  /\ Effect("Var", A, B) => Makes("Var", B)
         /\ Effect("StructLit", A, B) => Makes("StructLit", B)
         /\ Effect("StaticCall", A, B) => Makes("StaticCall", B)
         /\ Effect("MethodCall", A, B) => Makes("MethodCall", B)
<1>1. ASSUME Effect("Var", A, B) PROVE Makes("Var", B)
  <2>1. PICK C \in Stacks : A = C (+) One("name") /\ B = C (+) One("expr")
    BY <1>1, ConstructorNeeds
  <2>2. Top(1)[1] \in STRING /\ Fits(Below(1), C)
    BY <2>1, PopOne, KnownKinds, IsOneOf
  <2>3. Is(One("expr"), Made("Var", Top(1)))
    BY <2>2, MadeIs, OneMade, ExprsMade, KnownKinds
  <2> QED BY <2>1, <2>2, <2>3, MakesOver, KnownKinds, AritySays
<1>2. ASSUME Effect("StructLit", A, B) PROVE Makes("StructLit", B)
  <2>1. PICK C \in Stacks : A = C (+) One("name") (+) List("init") /\ B = C (+) One("expr")
    BY <1>2, ConstructorNeeds
  <2>2. Top(2)[1] \in STRING /\ AllAre("init", Top(2)[2]) /\ Fits(Below(2), C)
    BY <2>1, PopTwo, KnownKinds, OneMade, ListMade
  <2>3. Is(One("expr"), Made("StructLit", Top(2)))
    BY <2>2, MadeIs, OneMade, ExprsMade, KnownKinds
  <2> QED BY <2>1, <2>2, <2>3, MakesOver, KnownKinds, AritySays
<1>3. ASSUME Effect("StaticCall", A, B) PROVE Makes("StaticCall", B)
  <2>1. PICK C \in Stacks :
          A = C (+) One("name") (+) One("name") (+) List("expr") /\ B = C (+) One("expr")
    BY <1>3, ConstructorNeeds
  <2>2. /\ Top(3)[1] \in STRING /\ Top(3)[2] \in STRING /\ AllAre("expr", Top(3)[3])
        /\ Fits(Below(3), C)
    BY <2>1, PopThree, KnownKinds, OneMade, ListMade
  <2>3. Is(One("expr"), Made("StaticCall", Top(3)))
    BY <2>2, MadeIs, OneMade, ExprsMade, KnownKinds
  <2> QED BY <2>1, <2>2, <2>3, MakesOver, KnownKinds, AritySays
<1>4. ASSUME Effect("MethodCall", A, B) PROVE Makes("MethodCall", B)
  <2>1. PICK C \in Stacks :
          A = C (+) One("expr") (+) One("name") (+) List("expr") /\ B = C (+) One("expr")
    BY <1>4, ConstructorNeeds
  <2>2. /\ IsExpr(Top(3)[1]) /\ Top(3)[2] \in STRING /\ AllAre("expr", Top(3)[3])
        /\ Fits(Below(3), C)
    BY <2>1, PopThree, KnownKinds, OneMade, ListMade
  <2>3. Is(One("expr"), Made("MethodCall", Top(3)))
    BY <2>2, MadeIs, OneMade, ExprsMade, KnownKinds
  <2> QED BY <2>1, <2>2, <2>3, MakesOver, KnownKinds, AritySays
<1> QED BY <1>1, <1>2, <1>3, <1>4

LEMMA PartsFit ==
  ASSUME NEW A, NEW B, Fits(values, A)
  PROVE  /\ Effect("ToyField", A, B) => Makes("ToyField", B)
         /\ Effect("ToyParam", A, B) => Makes("ToyParam", B)
         /\ Effect("FieldInit", A, B) => Makes("FieldInit", B)
<1>1. ASSUME Effect("ToyField", A, B) PROVE Makes("ToyField", B)
  <2>1. PICK C \in Stacks :
          A = C (+) One("name") (+) One("primitive") /\ B = C (+) One("field")
    BY <1>1, PartNeeds
  <2>2. Top(2)[1] \in STRING /\ Top(2)[2] \in PrimitiveTypes /\ Fits(Below(2), C)
    BY <2>1, PopTwo, KnownKinds, OneMade, ListMade
  <2>3. Is(One("field"), Made("ToyField", Top(2)))
    BY <2>2, MadeIs, OneMade, PartsMade, KnownKinds
  <2> QED BY <2>1, <2>2, <2>3, MakesOver, KnownKinds, AritySays
<1>2. ASSUME Effect("ToyParam", A, B) PROVE Makes("ToyParam", B)
  <2>1. PICK C \in Stacks : A = C (+) One("name") (+) One("type") /\ B = C (+) One("param")
    BY <1>2, PartNeeds
  <2>2. Top(2)[1] \in STRING /\ IsType(Top(2)[2]) /\ Fits(Below(2), C)
    BY <2>1, PopTwo, KnownKinds, IsOneOf, OneMade
  <2>3. Is(One("param"), Made("ToyParam", Top(2)))
    BY <2>2, MadeIs, OneMade, PartsMade, KnownKinds
  <2> QED BY <2>1, <2>2, <2>3, MakesOver, KnownKinds, AritySays
<1>3. ASSUME Effect("FieldInit", A, B) PROVE Makes("FieldInit", B)
  <2>1. PICK C \in Stacks : A = C (+) One("name") (+) One("expr") /\ B = C (+) One("init")
    BY <1>3, PartNeeds
  <2>2. Top(2)[1] \in STRING /\ IsExpr(Top(2)[2]) /\ Fits(Below(2), C)
    BY <2>1, PopTwo, KnownKinds, IsOneOf, OneMade
  <2>3. Is(One("init"), Made("FieldInit", Top(2)))
    BY <2>2, MadeIs, OneMade, PartsMade, KnownKinds
  <2> QED BY <2>1, <2>2, <2>3, MakesOver, KnownKinds, AritySays
<1> QED BY <1>1, <1>2, <1>3

LEMMA StatementsFit ==
  ASSUME NEW A, NEW B, Fits(values, A)
  PROVE  /\ Effect("Let", A, B) => Makes("Let", B)
         /\ Effect("ExprStmt", A, B) => Makes("ExprStmt", B)
         /\ Effect("FnBody", A, B) => Makes("FnBody", B)
<1>1. ASSUME Effect("Let", A, B) PROVE Makes("Let", B)
  <2>1. PICK C \in Stacks : A = C (+) One("name") (+) One("expr") /\ B = C (+) One("stmt")
    BY <1>1, PartNeeds
  <2>2. Top(2)[1] \in STRING /\ IsExpr(Top(2)[2]) /\ Fits(Below(2), C)
    BY <2>1, PopTwo, KnownKinds, IsOneOf, OneMade
  <2>3. Is(One("stmt"), Made("Let", Top(2)))
    BY <2>2, MadeIs, OneMade, PartsMade, KnownKinds
  <2> QED BY <2>1, <2>2, <2>3, MakesOver, KnownKinds, AritySays
<1>2. ASSUME Effect("ExprStmt", A, B) PROVE Makes("ExprStmt", B)
  <2>1. PICK C \in Stacks : A = C (+) One("expr") /\ B = C (+) One("stmt")
    BY <1>2, PartNeeds
  <2>2. IsExpr(Top(1)[1]) /\ Fits(Below(1), C)
    BY <2>1, PopOne, KnownKinds, IsOneOf, OneMade
  <2>3. Is(One("stmt"), Made("ExprStmt", Top(1)))
    BY <2>2, MadeIs, OneMade, PartsMade, KnownKinds
  <2> QED BY <2>1, <2>2, <2>3, MakesOver, KnownKinds, AritySays
<1>3. ASSUME Effect("FnBody", A, B) PROVE Makes("FnBody", B)
  <2>1. PICK C \in Stacks : A = C (+) List("stmt") (+) Opt("expr") /\ B = C (+) One("body")
    BY <1>3, PartNeeds
  <2>2. /\ AllAre("stmt", Top(2)[1]) /\ AllAre("expr", Top(2)[2]) /\ Len(Top(2)[2]) <= 1
        /\ Fits(Below(2), C)
    BY <2>1, PopTwo, KnownKinds, OneMade, ListMade
  <2>3. Is(One("body"), Made("FnBody", Top(2)))
    <3>1. IsBody(Made("FnBody", Top(2)))
      BY <2>2, MadeIs, PartsMade
    <3> QED BY <3>1, IsOneOf, Zenon
  <2> QED BY <2>1, <2>2, <2>3, MakesOver, KnownKinds, AritySays
<1> QED BY <1>1, <1>2, <1>3

LEMMA AllMade ==
  ASSUME NEW c \in DOMAIN Arity, NEW A, NEW B, Fits(values, A), Effect(c, A, B)
  PROVE  Makes(c, B)
BY AritySays, ListsMade, TypesFit, ExprsFit, PartsFit, StatementsFit

-----------------------------------------------------------------------------
(* Steps of the typed agenda.                                                *)

IsStruct(d) ==
  /\ d = ToyStruct(d.name, d.fields)
  /\ d.name \in STRING /\ AllAre("field", d.fields)
IsFunction(d) ==
  /\ d = ToyFunction(d.name, d.params, d.return_ty, d.body)
  /\ d.name \in STRING /\ AllAre("param", d.params)
  /\ AllAre("type", d.return_ty) /\ Len(d.return_ty) <= 1
  /\ \E b : IsBody(b) /\ d.body = <<b>>
WellFormed == \A n \in DOMAIN defs : IsStruct(defs[n]) \/ IsFunction(defs[n])

\* What is left to do finds the values it needs, and leaves none.
Typed == \E A : Fits(values, A) /\ Leads(agenda, A, << >>)

LEMMA Continues ==
  ASSUME Typed, NEW i, Doing(i), NEW items, NEW p, NEW vs, Continue(items, p, vs),
         \A A, B : Fits(values, A) /\ Effect(i, A, B) => \E D : Fits(vs, D) /\ Leads(items, D, B)
  PROVE  Typed'
<1>1. PICK A : Fits(values, A) /\ Leads(agenda, A, << >>)
  BY DEF Typed
<1>2. PICK B : Effect(i, A, B) /\ Leads(Tail(agenda), B, << >>)
  BY <1>1, LeadsHead DEF Doing
<1>3. PICK D : Fits(vs, D) /\ Leads(items, D, B)
  BY <1>1, <1>2
<1>4. Leads(items \o Tail(agenda), D, << >>)
  BY <1>2, <1>3, LeadsOn
<1>5. values' = vs /\ agenda' = items \o Tail(agenda)
  BY DEF Continue
<1> QED BY <1>3, <1>4, <1>5, Zenon DEF Typed

\* The values stay.
LEMMA ContinuesWith ==
  ASSUME Typed, NEW i, Doing(i), NEW items, NEW p, Continue(items, p, values),
         \A A, B : Effect(i, A, B) => Leads(items, A, B)
  PROVE  Typed'
<1>1. \A A, B : Fits(values, A) /\ Effect(i, A, B) => \E D : Fits(values, D) /\ Leads(items, D, B)
  BY Zenon
<1> QED BY <1>1, Continues, Zenon

\* One value more.
LEMMA ContinuesOver ==
  ASSUME Typed, NEW i, Doing(i), NEW items, NEW p, NEW v, Continue(items, p, Append(values, v)),
         NEW t \in Kinds, Is(t, v),
         \A A, B : Effect(i, A, B) => Leads(items, A (+) t, B)
  PROVE  Typed'
<1>1. \A A, B : Fits(values, A) /\ Effect(i, A, B) =>
        \E D : Fits(Append(values, v), D) /\ Leads(items, D, B)
  BY FitsOver, Zenon
<1> QED BY <1>1, Continues, Zenon

LEMMA PeekTyped ==
  ASSUME InputsAssumption, OnToken
  PROVE  Peek.t \in TokenKinds /\ Peek.s \in STRING /\ Peek.n \in Int
<1>1. tokens \in Seq([t : TokenKinds, s : STRING, n : Int]) /\ pos \in 0 .. Len(tokens) - 1
  BY DEF InputsAssumption, OnToken
<1>2. tokens[pos + 1] \in [t : TokenKinds, s : STRING, n : Int]
  <2>1. PICK R : R = [t : TokenKinds, s : STRING, n : Int]
    OBVIOUS
  <2>2. tokens \in Seq(R) /\ pos + 1 \in 1 .. Len(tokens)
    BY <1>1, <2>1
  <2>3. tokens[pos + 1] \in R
    BY <2>2
  <2> QED BY <2>1, <2>3
<1> QED BY <1>2 DEF Peek

LEMMA TokenSteps ==
  ASSUME InputsAssumption, OnToken, Typed,
         Expect \/ ExpectIdent \/ Comma \/ PrimitiveType \/ Mut \/ Qualifier
  PROVE  Typed'
<1>0. /\ \A i, A, B : Silent(i) /\ Effect(i, A, B) => Leads(<< >>, A, B)
      /\ \A A \in Stacks : Leads(<< >>, A, A)
  <2>1. ASSUME NEW i, NEW A, NEW B, Silent(i), Effect(i, A, B) PROVE Leads(<< >>, A, B)
    <3>1. B = A /\ A \in Stacks
      BY <2>1, Silence
    <3> QED BY <3>1, LeadsNone, Zenon
  <2> QED BY <2>1, LeadsNone, Zenon
<1>1. CASE Expect
  <2>1. PICK i : Silent(i) /\ Doing(i) /\ Continue(<< >>, Consumed, values)
    BY <1>1, Zenon DEF Expect, Take, Silent
  <2> QED BY <1>0, <2>1, ContinuesWith, Zenon
<1>2. CASE Comma
  <2>1. PICK p : Doing("comma") /\ Continue(<< >>, p, values)
    BY <1>2, Zenon DEF Comma, Take, Goto
  <2> QED BY <1>0, <2>1, ContinuesWith, TokensSilent, Zenon
<1>3. CASE ExpectIdent
  <2>1. Doing("Ident") /\ Continue(<< >>, Consumed, Append(values, Peek.s))
    BY <1>3, Zenon DEF ExpectIdent, TakeValue
  <2>2. Is(One("name"), Peek.s) /\ One("name") \in Kinds
    BY PeekTyped, OneMade, KnownKinds
  <2>3. ASSUME NEW A, NEW B, Effect("Ident", A, B) PROVE Leads(<< >>, A (+) One("name"), B)
    <3>1. B = A (+) One("name") /\ B \in Stacks
      BY <2>3, Needs, EffectStacked
    <3> QED BY <1>0, <3>1, Zenon
  <2> QED BY <2>1, <2>2, <2>3, ContinuesOver, Zenon
<1>4. CASE PrimitiveType
  <2>1. /\ Doing("primitive_type") /\ Continue(<< >>, Consumed, Append(values, Peek.s))
        /\ Peek.s \in PrimitiveTypes
    BY <1>4, Zenon DEF PrimitiveType, TakeValue
  <2>2. Is(One("primitive"), Peek.s) /\ One("primitive") \in Kinds
    BY <2>1, OneMade, KnownKinds
  <2>3. ASSUME NEW A, NEW B, Effect("primitive_type", A, B) PROVE Leads(<< >>, A (+) One("primitive"), B)
    <3>1. B = A (+) One("primitive") /\ B \in Stacks
      BY <2>3, Needs, EffectStacked
    <3> QED BY <1>0, <3>1, Zenon
  <2> QED BY <2>1, <2>2, <2>3, ContinuesOver, Zenon
<1>5. CASE Mut \/ Qualifier
  <2>1. PICK i, p, v : /\ i \in {"mut", "qualifier"} /\ v \in Prefixes
                       /\ Doing(i) /\ Continue(<< >>, p, Append(values, v))
    BY <1>5 DEF Mut, Qualifier, TakeValue, Prefixes
  <2>2. Is(One("prefix"), v) /\ One("prefix") \in Kinds
    <3>1. Is(One("prefix"), v)
      BY <2>1, IsOneOf, Zenon
    <3> QED BY <3>1, KnownKinds
  <2>3. \A A, B : Effect(i, A, B) => Leads(<< >>, A (+) One("prefix"), B)
    <3>1. \A A, B : Effect(i, A, B) => B = A (+) One("prefix")
      BY <2>1, Needs
    <3> QED BY <1>0, <3>1, EffectStacked, Zenon
  <2> QED BY <2>1, <2>2, <2>3, ContinuesOver, Zenon
<1> QED BY <1>1, <1>2, <1>3, <1>4, <1>5

LEMMA DefinitionSteps ==
  ASSUME Typed, ParseStruct \/ ParseFn
  PROVE  Typed'
<1>0. \A A, B : Effect("program", A, B) => A = << >> /\ B = << >>
  BY Needs
<1>1. CASE ParseStruct
  <2>1. /\ Doing("program")
        /\ Continue(<<"Ident", "{", "empty", "fields", "}", "ToyStruct", "program">>,
                    Consumed, values)
    BY <1>1, Zenon DEF ParseStruct, Take
  <2>2. \A A, B : Effect("program", A, B) =>
          Leads(<<"Ident", "{", "empty", "fields", "}", "ToyStruct", "program">>, A, B)
    BY <1>0, StructItems, Zenon
  <2> QED BY <2>1, <2>2, ContinuesWith, Zenon
<1>2. CASE ParseFn
  <2>1. /\ Doing("program")
        /\ Continue(<<"Ident", "(", "empty", "params", ")", "return_ty", "{", "empty", "stmts",
                      "FnBody", "some", "ToyFunction", "program">>, Consumed, values)
    BY <1>2, Zenon DEF ParseFn, Take
  <2>2. \A A, B : Effect("program", A, B) =>
          Leads(<<"Ident", "(", "empty", "params", ")", "return_ty", "{", "empty", "stmts",
                  "FnBody", "some", "ToyFunction", "program">>, A, B)
    BY <1>0, FnItems, Zenon
  <2> QED BY <2>1, <2>2, ContinuesWith, Zenon
<1> QED BY <1>1, <1>2

LEMMA ListSteps ==
  ASSUME Typed, ListEnds \/ ListGoesOn
  PROVE  Typed'
<1>0. DOMAIN Closer = DOMAIN Holds
  <2>1. ASSUME NEW a, NEW b, NEW c, NEW d, NEW e
        PROVE  DOMAIN [fields |-> a, params |-> b, args |-> c, inits |-> d, type_args |-> e]
               = DOMAIN Holds
    BY DEF Holds
  <2> QED BY <2>1, Zenon DEF Closer
<1>1. CASE ListEnds
  <2>1. PICK l \in DOMAIN Holds : Doing(l) /\ Continue(<< >>, pos, values)
    BY <1>0, <1>1, Zenon DEF ListEnds, Goto
  <2>2. ASSUME NEW A, NEW B, Effect(l, A, B) PROVE Leads(<< >>, A, B)
    <3>1. B = A /\ A \in Stacks
      BY <2>2, ListNeeds, EffectStacked
    <3> QED BY <3>1, LeadsNone, Zenon
  <2> QED BY <2>1, <2>2, ContinuesWith, Zenon
<1>2. CASE ListGoesOn
  <2>1. PICK l \in DOMAIN Holds : Doing(l) /\ Continue(Element[l] \o <<"comma", l>>, pos, values)
    BY <1>0, <1>2, Zenon DEF ListGoesOn, Goto
  <2>2. ASSUME NEW A, NEW B, Effect(l, A, B) PROVE Leads(Element[l] \o <<"comma", l>>, A, B)
    <3>1. B = A /\ \E C \in Stacks : A = C (+) List(Holds[l])
      BY <2>2, ListNeeds
    <3> QED BY <3>1, ElementItems, Zenon
  <2> QED BY <2>1, <2>2, ContinuesWith, Zenon
<1> QED BY <1>1, <1>2

LEMMA StatementSteps ==
  ASSUME Typed, BodyEnds \/ LetStmt \/ OtherStmt \/ ExprEnd
  PROVE  Typed'
<1>1. CASE BodyEnds
  <2>1. Doing("stmts") /\ Continue(<<"empty">>, Consumed, values)
    BY <1>1, Zenon DEF BodyEnds, Take
  <2> QED BY <2>1, StatementItems, ContinuesWith, Zenon
<1>2. CASE LetStmt
  <2>1. /\ Doing("stmts")
        /\ Continue(<<"Ident", "=", "expr", ";", "Let", "push", "stmts">>, Consumed, values)
    BY <1>2, Zenon DEF LetStmt, Take
  <2> QED BY <2>1, LetItems, ContinuesWith, Zenon
<1>3. CASE OtherStmt
  <2>1. Doing("stmts") /\ Continue(<<"expr", "expr_end">>, pos, values)
    BY <1>3, Zenon DEF OtherStmt, Goto
  <2> QED BY <2>1, StatementItems, ContinuesWith, Zenon
<1>4. CASE ExprEnd
  <2>1. /\ Doing("expr_end")
        /\ \/ Continue(<<"ExprStmt", "push", "stmts">>, Consumed, values)
           \/ Continue(<<"}", "some">>, pos, values)
    BY <1>4, Zenon DEF ExprEnd, Take, Goto
  <2> QED BY <2>1, StatementItems, ContinuesWith, Zenon
<1> QED BY <1>1, <1>2, <1>3, <1>4

LEMMA ExprSteps ==
  ASSUME InputsAssumption, OnToken, Typed, Expr \/ Chain \/ Literal \/ Name \/ AfterName
  PROVE  Typed'
<1>1. CASE Expr
  <2>1. Doing("expr") /\ Continue(<<"primary", "chain">>, pos, values)
    BY <1>1, Zenon DEF Expr, Goto
  <2> QED BY <2>1, ExprItems, ContinuesWith, Zenon
<1>2. CASE Chain
  <2>1. /\ Doing("chain")
        /\ \/ Continue(<<"Ident", "(", "empty", "args", ")", "MethodCall", "chain">>,
                       Consumed, values)
           \/ Continue(<< >>, pos, values)
    BY <1>2, Zenon DEF Chain, Take, Goto
  <2>2. ASSUME NEW A, NEW B, Effect("chain", A, B) PROVE Leads(<< >>, A, B)
    <3>1. B = A /\ A \in Stacks
      BY <2>2, LoopNeeds, EffectStacked
    <3> QED BY <3>1, LeadsNone, Zenon
  <2> QED BY <2>1, <2>2, ExprItems, ContinuesWith, Zenon
<1>3. CASE Literal
  <2>1. Doing("primary") /\ Continue(<< >>, Consumed, Append(values, IntLit(Peek.n)))
    BY <1>3, Zenon DEF Literal, TakeValue
  <2>2. Is(One("expr"), IntLit(Peek.n)) /\ One("expr") \in Kinds
    BY PeekTyped, ExprsMade, OneMade, KnownKinds
  <2>3. ASSUME NEW A, NEW B, Effect("primary", A, B) PROVE Leads(<< >>, A (+) One("expr"), B)
    <3>1. B = A (+) One("expr") /\ B \in Stacks
      BY <2>3, Needs, EffectStacked
    <3> QED BY <3>1, LeadsNone, Zenon
  <2> QED BY <2>1, <2>2, <2>3, ContinuesOver, Zenon
<1>4. CASE Name
  <2>1. Doing("primary") /\ Continue(<<"after_name">>, Consumed, Append(values, Peek.s))
    BY <1>4, Zenon DEF Name, TakeValue
  <2>2. Is(One("name"), Peek.s) /\ One("name") \in Kinds
    BY PeekTyped, OneMade, KnownKinds
  <2> QED BY <2>1, <2>2, ExprItems, ContinuesOver, Zenon
<1>5. CASE AfterName
  <2>1. /\ Doing("after_name")
        /\ \/ Continue(<<"Ident", "(", "empty", "args", ")", "StaticCall">>, Consumed, values)
           \/ Continue(<<"empty", "inits", "}", "StructLit">>, Consumed, values)
           \/ Continue(<<"Var">>, pos, values)
    BY <1>5, Zenon DEF AfterName, Take, Goto
  <2> QED BY <2>1, ExprItems, ContinuesWith, Zenon
<1> QED BY <1>1, <1>2, <1>3, <1>4, <1>5

LEMMA TypeSteps ==
  ASSUME InputsAssumption, OnToken, Typed,
         ReturnTy \/ ReferenceType \/ RawPointerType \/ NamedType \/ TypeName
  PROVE  Typed'
<1>1. CASE ReturnTy
  <2>1. /\ Doing("return_ty")
        /\ \/ Continue(<<"type_str", "some">>, Consumed, values)
           \/ Continue(<<"empty">>, pos, values)
    BY <1>1, Zenon DEF ReturnTy, Take, Goto
  <2> QED BY <2>1, TypeItems, ContinuesWith, Zenon
<1>2. CASE ReferenceType \/ RawPointerType
  <2>1. /\ Doing("type_str")
        /\ \/ Continue(<<"mut", "type_str", "Pointer">>, Consumed, values)
           \/ Continue(<<"qualifier", "type_str", "Pointer">>, Consumed, values)
    BY <1>2, Zenon DEF ReferenceType, RawPointerType, Take
  <2> QED BY <2>1, TypeItems, ContinuesWith, Zenon
<1>3. CASE NamedType
  <2>1. Doing("type_str") /\ Continue(<<"type_name">>, Consumed, Append(values, Peek.s))
    BY <1>3, Zenon DEF NamedType, TakeValue
  <2>2. Is(One("name"), Peek.s) /\ One("name") \in Kinds
    BY PeekTyped, OneMade, KnownKinds
  <2> QED BY <2>1, <2>2, TypeItems, ContinuesOver, Zenon
<1>4. CASE TypeName
  <2>1. /\ Doing("type_name")
        /\ \/ Continue(<<"empty", "type_args", ">", "Generic">>, Consumed, values)
           \/ Continue(<<"Named">>, pos, values)
    BY <1>4, Zenon DEF TypeName, Take, Goto
  <2> QED BY <2>1, TypeItems, ContinuesWith, Zenon
<1> QED BY <1>1, <1>2, <1>3, <1>4

LEMMA MakeStep ==
  ASSUME Typed, Make
  PROVE  Typed'
<1>1. PICK c \in DOMAIN Arity :
        Doing(c) /\ Continue(<< >>, pos, Append(Below(Arity[c]), Made(c, Top(Arity[c]))))
  BY Zenon DEF Make
<1>2. \A A, B : Fits(values, A) /\ Effect(c, A, B) =>
        Fits(Append(Below(Arity[c]), Made(c, Top(Arity[c]))), B) /\ Leads(<< >>, B, B)
  BY AllMade, EffectStacked, LeadsNone, Zenon DEF Makes
<1> QED BY <1>1, <1>2, Continues, Zenon

-----------------------------------------------------------------------------
(* Registering a definition.                                                *)

LEMMA StructMade ==
  ASSUME Typed, InsertStruct
  PROVE  /\ Typed'
         /\ IsStruct(ToyStruct(Top(2)[1], Top(2)[2]))
<1>1. PICK A : Fits(values, A) /\ Leads(agenda, A, << >>)
  BY DEF Typed
<1>2. PICK B : Effect("ToyStruct", A, B) /\ Leads(Tail(agenda), B, << >>)
  BY <1>1, LeadsHead DEF InsertStruct, Doing
<1>3. B \in Stacks /\ A = B (+) One("name") (+) List("field")
  BY <1>2, PartNeeds
<1>4. Top(2)[1] \in STRING /\ AllAre("field", Top(2)[2]) /\ Fits(Below(2), B)
  BY <1>1, <1>3, PopTwo, KnownKinds, OneMade, ListMade
<1>5. values' = Below(2) /\ agenda' = Tail(agenda)
  BY DEF InsertStruct
<1>6. Typed'
  BY <1>2, <1>4, <1>5, Zenon DEF Typed
<1>7. PICK x, fs : x = Top(2)[1] /\ fs = Top(2)[2]
  OBVIOUS
<1>8. IsStruct(ToyStruct(x, fs))
  BY <1>4, <1>7 DEF IsStruct, ToyStruct
<1> QED BY <1>6, <1>7, <1>8

LEMMA FnMade ==
  ASSUME Typed, InsertFn
  PROVE  /\ Typed'
         /\ IsFunction(ToyFunction(Top(4)[1], Top(4)[2], Top(4)[3], Top(4)[4]))
<1>1. PICK A : Fits(values, A) /\ Leads(agenda, A, << >>)
  BY DEF Typed
<1>2. PICK B : Effect("ToyFunction", A, B) /\ Leads(Tail(agenda), B, << >>)
  BY <1>1, LeadsHead DEF InsertFn, Doing
<1>3. B \in Stacks /\ A = B (+) One("name") (+) List("param") (+) Opt("type") (+) Opt("body")
  BY <1>2, PartNeeds
<1>4. PICK x, ps, ty, b : x = Top(4)[1] /\ ps = Top(4)[2] /\ ty = Top(4)[3] /\ b = Top(4)[4]
  OBVIOUS
<1>5. /\ Is(One("name"), x) /\ Is(List("param"), ps) /\ Is(Opt("type"), ty)
      /\ Is(Opt("body"), b) /\ Fits(Below(4), B)
  BY <1>1, <1>3, <1>4, PopFour, KnownKinds
<1>6. /\ x \in STRING /\ AllAre("param", ps) /\ AllAre("type", ty) /\ Len(ty) <= 1
      /\ \E c : IsBody(c) /\ b = <<c>>
  BY <1>5, OneMade, ListMade, IsOneOf, Zenon
<1>7. values' = Below(4) /\ agenda' = Tail(agenda)
  BY DEF InsertFn
<1>8. Typed'
  BY <1>2, <1>5, <1>7, Zenon DEF Typed
<1>9. IsFunction(ToyFunction(x, ps, ty, b))
  BY <1>6 DEF IsFunction, ToyFunction
<1> QED BY <1>4, <1>8, <1>9, Zenon

LEMMA OneMoreDefinition ==
  ASSUME NEW S, NEW ds \in Seq(S), \A n \in DOMAIN ds : IsStruct(ds[n]) \/ IsFunction(ds[n]),
         NEW d, IsStruct(d) \/ IsFunction(d)
  PROVE  \A n \in DOMAIN Append(ds, d) :
           IsStruct(Append(ds, d)[n]) \/ IsFunction(Append(ds, d)[n])
BY OneMore

\* All of the invariant.
TInv == PInv /\ Typed /\ WellFormed /\ status \in {"parsing", "accepted", "rejected"}

LEMMA Registering ==
  ASSUME PInv, WellFormed, NEW CONSTANT d, IsStruct(d) \/ IsFunction(d), defs' = Append(defs, d)
  PROVE  WellFormed'
<1>1. PICK S, ds : ds = defs /\ ds \in Seq(S)
  BY DEF PInv
<1>2. \A n \in DOMAIN Append(ds, d) : IsStruct(Append(ds, d)[n]) \/ IsFunction(Append(ds, d)[n])
  BY <1>1, OneMoreDefinition DEF WellFormed
<1>3. defs' = Append(ds, d)
  BY <1>1
<1> QED BY <1>2, <1>3, Zenon DEF WellFormed

LEMMA TreeStep ==
  ASSUME InputsAssumption, TInv, [Next]_state
  PROVE  TInv'
<1> USE DEF TInv
<1>1. PInv' /\ OnToken
  BY Step DEF PInv
<1>2. ASSUME defs' = defs PROVE WellFormed'
  BY <1>2 DEF WellFormed
<1>3. ASSUME UNCHANGED <<agenda, values>> PROVE Typed'
  BY <1>3, Zenon DEF Typed
<1>4. CASE UNCHANGED state
  BY <1>1, <1>2, <1>3, <1>4 DEF state
<1>5. CASE Accept \/ Reject
  <2>1. UNCHANGED <<agenda, values, defs>> /\ status' \in {"parsing", "accepted", "rejected"}
    BY <1>5 DEF Accept, Reject
  <2> QED BY <1>1, <1>2, <1>3, <2>1
<1>6. CASE InsertStruct
  <2>1. PICK d : d = ToyStruct(Top(2)[1], Top(2)[2])
    OBVIOUS
  <2>2. Typed' /\ IsStruct(d)
    BY <1>6, <2>1, StructMade
  <2>3. defs' = Append(defs, d) /\ status' = status
    BY <1>6, <2>1 DEF InsertStruct
  <2> QED BY <1>1, <2>2, <2>3, Registering
<1>7. CASE InsertFn
  <2>1. PICK d : d = ToyFunction(Top(4)[1], Top(4)[2], Top(4)[3], Top(4)[4])
    OBVIOUS
  <2>2. Typed' /\ IsFunction(d)
    BY <1>7, <2>1, FnMade
  <2>3. defs' = Append(defs, d) /\ status' = status
    BY <1>7, <2>1 DEF InsertFn
  <2> QED BY <1>1, <2>2, <2>3, Registering
<1>8. ASSUME Moves, status' = status, Typed' PROVE TInv'
  BY <1>1, <1>2, <1>8 DEF Moves
<1>9. CASE \/ Expect \/ ExpectIdent \/ ParseStruct \/ ParseFn
           \/ ListEnds \/ ListGoesOn \/ Comma \/ PrimitiveType \/ ReturnTy
           \/ BodyEnds \/ LetStmt \/ OtherStmt \/ ExprEnd
  <2>1. Moves /\ status' = status
    BY <1>9 DEF Moves, Expect, ExpectIdent, ParseStruct, ParseFn, ListEnds, ListGoesOn,
       Comma, PrimitiveType, ReturnTy, BodyEnds, LetStmt, OtherStmt, ExprEnd, Continue, Goto,
       Take, TakeValue
  <2>2. Typed'
    BY <1>1, <1>9, TokenSteps, DefinitionSteps, ListSteps, StatementSteps, TypeSteps
  <2> QED BY <1>8, <2>1, <2>2
<1>10. CASE \/ Expr \/ Chain \/ Literal \/ Name \/ AfterName
            \/ ReferenceType \/ Mut \/ RawPointerType \/ Qualifier \/ NamedType \/ TypeName
            \/ Make
  <2>1. Moves /\ status' = status
    BY <1>10 DEF Moves, Expr, Chain, Literal, Name, AfterName, ReferenceType, Mut,
       RawPointerType, Qualifier, NamedType, TypeName, Make, Continue, Goto, Take, TakeValue
  <2>2. Typed'
    BY <1>1, <1>10, TokenSteps, ExprSteps, TypeSteps, MakeStep
  <2> QED BY <1>8, <2>1, <2>2
<1> QED BY <1>4, <1>5, <1>6, <1>7, <1>9, <1>10 DEF Next

LEMMA TreeBegins ==
  ASSUME InputsAssumption, Init
  PROVE  TInv
<1>1. Effect("program", << >>, << >>)
  BY Rules, Stacked
<1>2. agenda = <<"program">> /\ values = << >> /\ DOMAIN defs = {} /\ status = "parsing"
  BY DEF Init, Start
<1>3. Typed
  BY <1>1, <1>2, FitsNone, LeadsOne, Zenon DEF Typed
<1>4. WellFormed
  BY <1>2 DEF WellFormed
<1> QED BY <1>2, <1>3, <1>4, Begins DEF TInv

LEMMA TreesTyped ==
  ASSUME TInv
  PROVE  TypeOK
<1>1. pos \in 0 .. Len(tokens) - 1 /\ status \in {"parsing", "accepted", "rejected"}
  BY DEF TInv, PInv, OnToken
<1>2. \A d : (IsStruct(d) => d.k = "struct") /\ (IsFunction(d) => d.k = "fn")
  BY DEF IsStruct, IsFunction, ToyStruct, ToyFunction
<1>3. ASSUME NEW x \in DOMAIN structs
      PROVE  /\ structs[x].name = x
             /\ \A n \in DOMAIN structs[x].fields :
                  structs[x].fields[n].rust_type \in PrimitiveTypes
  <2>1. PICK n \in Places("struct", x, defs) : structs[x] = defs[n]
    BY <1>3 DEF TInv, PInv, LastWins, HoldsLast
  <2>2. PICK d : d = defs[n]
    OBVIOUS
  <2>3. d.name = x /\ IsStruct(d)
    BY <1>2, <2>1, <2>2 DEF Places, TInv, WellFormed
  <2>4. \A m \in DOMAIN d.fields : IsField(d.fields[m])
    BY <2>3 DEF IsStruct, AllAre, IsElement
  <2> QED BY <2>1, <2>2, <2>3, <2>4 DEF IsField
<1>4. ASSUME NEW x \in DOMAIN functions
      PROVE  functions[x].name = x /\ functions[x].body # << >>
  <2>1. PICK n \in Places("fn", x, defs) : functions[x] = defs[n]
    BY <1>4 DEF TInv, PInv, LastWins, HoldsLast
  <2>2. PICK d : d = defs[n]
    OBVIOUS
  <2>3. d.name = x /\ IsFunction(d)
    BY <1>2, <2>1, <2>2 DEF Places, TInv, WellFormed
  <2>4. d.body # << >>
    BY <2>3 DEF IsFunction
  <2> QED BY <2>1, <2>2, <2>3, <2>4
<1> QED BY <1>1, <1>3, <1>4 DEF TypeOK

(* What is parsed from any tokens at all is a tree of the kind its place asks  *)
(* for: a struct has a name and fields of the four types, a function its       *)
(* parameters, at most one return type and one body, whose statements and      *)
(* value are expressions, however deep and long.                               *)
THEOREM TreesCorrect == Spec => []WellFormed
<1>1. Init => TInv
  BY InputsAssumption, TreeBegins
<1>2. TInv /\ [Next]_state => TInv'
  BY InputsAssumption, TreeStep
<1>3. TInv => WellFormed
  BY DEF TInv
<1> QED BY <1>1, <1>2, <1>3, PTL DEF Spec

(* The registry gives the rest of the compiler what it relies on: a name leads *)
(* to a definition of that name, whose fields have one of the four types, and  *)
(* which has a body if it is a function.                                       *)
THEOREM TypeCorrect == Spec => []TypeOK
<1>1. Init => TInv
  BY InputsAssumption, TreeBegins
<1>2. TInv /\ [Next]_state => TInv'
  BY InputsAssumption, TreeStep
<1>3. TInv => TypeOK
  BY TreesTyped
<1> QED BY <1>1, <1>2, <1>3, PTL DEF Spec
=============================================================================
