-------------------------- MODULE ToyProgram_proofs -------------------------
(***************************************************************************)
(* Theorems about the compiled program: what a run of any body the lowering *)
(* writes finds in memory, and that a body that passes ToyChecks is never   *)
(* undefined.                                                               *)
(***************************************************************************)
EXTENDS ToyProgram, ToyChecks, ToyLower_proofs

-----------------------------------------------------------------------------
(* The instructions the lowering writes.                                     *)

\* n is the number of arguments: temporaries die, arguments never.
Shaped(n, s) ==
  \/ \E l : s = StorageLive(l)
  \/ \E l : s = StorageDead(l) /\ l > n
  \/ \E l, c : s = Use(l, Const(c))
  \/ \E l, v : s = Use(l, Move(v))
  \/ \E l, v : s = Ref(l, v)
  \/ \E l, os : s = Aggregate(l, os)
  \/ \E l, t : s = Call("new", << >>, l, t)
  \/ \E r, a, l, t : s = Call("push", <<Move(r), Move(a)>>, l, t)
  \/ \E v, l, t : s = Call("len", <<Copy(v)>>, l, t)
  \/ s = Return

ShapeInv ==
  /\ \A p \in Sites : Shaped(ArgPairs, At(p))
  /\ \A i \in 1 .. ArgPairs : i < Len(locals) => locals[i + 1] = fn.inputs[i]
  /\ phase = "done" => blocks # << >> /\ current = << >>

\* The text: what the new sites are.
LEMMA NewShapes ==
  ASSUME TypeOK, TypeOK', Prologue, StorageInv, [Next]_vars
  PROVE  Extends /\ \A q \in Sites' : q \in Sites \/ Shaped(ArgPairs, At(q)')
<1> DEFINE Fine == Extends /\ \A q \in Sites' : q \in Sites \/ Shaped(ArgPairs, At(q)')
<1>n. PICK n : n = ArgPairs
  OBVIOUS
<1>1. ASSUME blocks' = blocks, current' = current PROVE Fine
  BY <1>1, TextSame
<1>2. ASSUME blocks' = blocks, NEW s, current' = Append(current, s), Shaped(n, s) PROVE Fine
  <2>1. /\ Extends
        /\ \E r \in Sites' : At(r)' = s /\ \A q \in Sites' : q \in Sites \/ q = r
    BY <1>2, TextOne
  <2> QED BY <1>2, <1>n, <2>1
<1>3. ASSUME NEW t, Finalize(t, << >>), Shaped(n, t) PROVE Fine
  <2>1. Extends /\ \A q \in Sites' : q \in Sites \/ At(q)' = t
    BY <1>3, TextClosed
  <2> QED BY <1>3, <1>n, <2>1
<1>4. CASE \/ Resolve \/ BindParam \/ StartBody \/ BeginStruct \/ LowerRet \/ Panic
           \/ UNCHANGED vars
  BY <1>1, <1>4 DEF Resolve, BindParam, StartBody, BeginStruct, LowerRet, Panic, vars
<1>5. CASE LowerLet \/ LowerExprStmt \/ LowerField
  <2>1. blocks' = blocks /\ current' = Append(current, StorageLive(Fresh))
    BY <1>5 DEF LowerLet, LowerExprStmt, LowerField
  <2>2. PICK f : f = Fresh
    OBVIOUS
  <2>3. Shaped(n, StorageLive(f))
    BY DEF Shaped
  <2> QED BY <1>2, <2>1, <2>2, <2>3
<1>6. ASSUME frames # << >> PROVE \A l \in Owned(Top) : l > n
  <2>1. Top = Innermost(frames)
    BY DEF Top, Innermost
  <2>2. Owned(Top) \subseteq OwnedBy(frames)
    BY <1>6, <2>1, Numbers, PopStack DEF StorageInv
  <2> QED BY <1>n, <2>2 DEF StorageInv
<1>7. CASE EndExprStmt
  <2>1. PICK t : t = Top.tmp
    OBVIOUS
  <2>2. blocks' = blocks /\ current' = Append(current, StorageDead(t)) /\ t > n
    BY <1>6, <1>7, <2>1 DEF EndExprStmt, Active, Owned
  <2>3. Shaped(n, StorageDead(t))
    BY <2>2 DEF Shaped
  <2> QED BY <1>2, <2>2, <2>3
<1>8. CASE LowerIntLit
  <2>1. PICK d, c : d = Top.dest /\ c = AsI32(Top.expr.n)
    OBVIOUS
  <2>2. Shaped(n, Use(d, Const(c)))
    BY DEF Shaped
  <2>3. blocks' = blocks /\ current' = Append(current, Use(d, Const(c)))
    BY <1>8, <2>1 DEF LowerIntLit
  <2> QED BY <1>2, <2>2, <2>3
<1>9. CASE LowerVar
  <2>1. PICK d, v : d = Top.dest /\ v = localMap[Top.expr.name]
    OBVIOUS
  <2>2. Shaped(n, Use(d, Move(v)))
    BY DEF Shaped
  <2>3. blocks' = blocks /\ current' = Append(current, Use(d, Move(v)))
    BY <1>9, <2>1 DEF LowerVar
  <2> QED BY <1>2, <2>2, <2>3
<1>10. CASE LowerVecNew \/ LowerLen \/ EmitReturn
  <2>1. PICK d, v, t : d = Top.dest /\ v = localMap[Top.expr.receiver.name] /\ t = NextBlock
    OBVIOUS
  <2>2. /\ Shaped(n, Call("new", << >>, d, t)) /\ Shaped(n, Call("len", <<Copy(v)>>, d, t))
        /\ Shaped(n, Return)
    BY DEF Shaped
  <2>3. \/ Finalize(Call("new", << >>, d, t), << >>)
        \/ Finalize(Call("len", <<Copy(v)>>, d, t), << >>)
        \/ Finalize(Return, << >>)
    BY <1>10, <2>1 DEF LowerVecNew, LowerLen, EmitReturn
  <2> QED BY <1>3, <2>2, <2>3
<1>11. CASE BeginPush
  <2>1. PICK v, f, g : v = localMap[Top.expr.receiver.name] /\ f = Fresh /\ g = Fresh + 1
    OBVIOUS
  <2>2. PICK x, y, z : x = StorageLive(f) /\ y = Ref(f, v) /\ z = StorageLive(g)
    OBVIOUS
  <2>3. current' = Append(Append(Append(current, x), y), z) /\ blocks' = blocks
    BY <1>11, <2>1, <2>2 DEF BeginPush
  <2>4. PICK c \in Nat : c = Len(current)
    BY TextTypedHolds DEF TextTyped
  <2>5. current \in Seq(StatementOf(Len(locals)))
    BY TextTypedHolds DEF TextTyped
  <2>6. /\ Len(current') = c + 3
        /\ \A i \in 1 .. c : current'[i] = current[i]
        /\ current'[c + 1] = x /\ current'[c + 2] = y /\ current'[c + 3] = z
    BY <2>4, <2>3, <2>5, AppendThree
  <2>7. /\ Extends
        /\ \E p \in Sites' : \E q \in Sites' : \E r \in Sites' :
             /\ At(p)' = current'[c + 1] /\ At(q)' = current'[c + 2] /\ At(r)' = current'[c + 3]
             /\ Precedes(p, q)
             /\ \A s \in Sites' : s \in Sites \/ s = p \/ s = q \/ s = r
    BY <2>3, <2>4, <2>6, TextThree
  <2>8. Shaped(n, x) /\ Shaped(n, y) /\ Shaped(n, z)
    BY <2>2 DEF Shaped
  <2> QED BY <1>n, <2>6, <2>7, <2>8
<1>12. CASE FinishStruct
  <2>1. Top.f = "fields" /\ frames # << >>
    BY <1>12 DEF FinishStruct, Active
  <2>2. PICK ts, d : ts = Top.tmps /\ d = Top.dest
    OBVIOUS
  <2>3. Len(ts) \in Nat /\ \A i \in 1 .. Len(ts) : ts[i] > n
    <3>1. Top \in FrameOf(Len(locals))
      BY <2>1, TopInUse
    <3>2. Len(Top.tmps) \in Nat
      BY <2>1, <3>1 DEF FrameOf
    <3>3. Owned(Top) = {ts[i] : i \in 1 .. Len(ts)}
      BY <2>1, <2>2 DEF Owned
    <3>4. \A i \in 1 .. Len(ts) : ts[i] \in Owned(Top)
      BY <3>3
    <3> QED BY <1>6, <2>1, <2>2, <3>2, <3>4
  <2>4. Extends /\ \A q \in Sites' : \/ q \in Sites
                                     \/ \E os : At(q)' = Aggregate(d, os)
                                     \/ \E i \in 1 .. Len(ts) : At(q)' = StorageDead(ts[i])
    BY <1>12, <2>2, <2>3, StructSites
  <2>5. /\ \A os : Shaped(n, Aggregate(d, os))
        /\ \A i \in 1 .. Len(ts) : Shaped(n, StorageDead(ts[i]))
    BY <2>3 DEF Shaped
  <2> QED BY <1>n, <2>4, <2>5
<1>13. CASE FinishPush
  <2>1. Top.f = "push" /\ frames # << >>
    BY <1>13 DEF FinishPush, Active
  <2>2. PICK a, r, d, t : a = Top.arg /\ r = Top.ref /\ d = Top.dest /\ t = NextBlock
    OBVIOUS
  <2>3. a > n /\ r > n
    BY <1>6, <2>1, <2>2 DEF Owned
  <2>4. Extends /\ \A q \in Sites' : \/ q \in Sites
                                     \/ At(q)' = Call("push", <<Move(r), Move(a)>>, d, t)
                                     \/ At(q)' = StorageDead(a)
                                     \/ At(q)' = StorageDead(r)
    BY <1>13, <2>2, PushSites
  <2>5. /\ Shaped(n, Call("push", <<Move(r), Move(a)>>, d, t))
        /\ Shaped(n, StorageDead(a)) /\ Shaped(n, StorageDead(r))
    BY <2>3 DEF Shaped
  <2> QED BY <1>n, <2>4, <2>5
<1> QED BY <1>4, <1>5, <1>7, <1>8, <1>9, <1>10, <1>11, <1>12, <1>13 DEF Next

\* The arguments stay in front of the locals.
LEMMA ArgumentsInFront ==
  ASSUME TypeOK, Prologue, ShapeInv, [Next]_vars
  PROVE  /\ ArgPairs' = ArgPairs
         /\ \A i \in 1 .. ArgPairs : i < Len(locals') => locals'[i + 1] = fn.inputs[i]
<1>n. PICK n \in Nat : n = Len(locals)
  BY DEF TypeOK
<1>1. locals \in Seq(Types)
  BY DEF TypeOK
<1>2. \/ locals' = locals
      \/ BindParam
      \/ Resolve
      \/ \E t : locals' = Append(locals, t) /\ phase = "body"
      \/ \E x, t : locals' = Append(Append(locals, x), t) /\ phase = "body"
  BY DEF Next, vars, Resolve, BindParam, StartBody, LowerLet, LowerExprStmt, EndExprStmt,
         LowerIntLit, LowerVar, BeginStruct, LowerField, FinishStruct, LowerVecNew, BeginPush,
         FinishPush, LowerLen, LowerRet, EmitReturn, Panic, Idle, Active
<1>3. fn' = fn /\ ArgPairs' = ArgPairs
  BY DEF Next, vars, Resolve, BindParam, StartBody, LowerLet, LowerExprStmt, EndExprStmt,
         LowerIntLit, LowerVar, BeginStruct, LowerField, FinishStruct, LowerVecNew, BeginPush,
         FinishPush, LowerLen, LowerRet, EmitReturn, Panic, ArgPairs
<1>4. ArgPairs \in Nat
  BY Numbers
<1>5. ASSUME NEW t, locals' = Append(locals, t)
      PROVE  Len(locals') = n + 1 /\ locals'[n + 1] = t /\ \A i \in 1 .. n : locals'[i] = locals[i]
  BY <1>1, <1>5, <1>n, AppendOne
<1>6. \A i \in 1 .. ArgPairs : i < n => locals[i + 1] = fn.inputs[i]
  BY <1>n DEF ShapeInv
<1>7. \A i \in 1 .. ArgPairs : i < n => i + 1 \in 1 .. n
  BY <1>n, <1>4
<1>8. CASE locals' = locals
  BY <1>3, <1>6, <1>8, <1>n
<1>9. CASE BindParam
  <2>1. locals' = Append(locals, fn.inputs[next]) /\ next = n
    BY <1>9, <1>n DEF BindParam, Prologue
  <2>2. Len(locals') = n + 1 /\ locals'[n + 1] = fn.inputs[n]
        /\ \A i \in 1 .. n : locals'[i] = locals[i]
    BY <1>5, <2>1
  <2>3. \A i \in 1 .. ArgPairs : i < n + 1 => i < n \/ i = n
    BY <1>n, <1>4
  <2> QED BY <1>3, <1>6, <1>7, <2>2, <2>3
<1>10. CASE Resolve
  <2>1. n = 0 /\ locals' = Append(locals, fn.output)
    BY <1>10, <1>n DEF Resolve, Prologue
  <2>2. Len(locals') = n + 1
    BY <1>5, <2>1
  <2>3. \A i \in 1 .. ArgPairs : ~(i < n + 1)
    BY <1>4, <2>1
  <2> QED BY <1>3, <2>2, <2>3
<1>11. CASE phase = "body" /\ (\/ \E t : locals' = Append(locals, t)
                               \/ \E x, t : locals' = Append(Append(locals, x), t))
  <2>1. \A i \in 1 .. ArgPairs : i < n
    BY <1>4, <1>11, <1>n DEF Prologue
  <2>2. \A i \in 1 .. n : locals'[i] = locals[i]
    BY <1>1, <1>5, <1>11, <1>n, AppendTwo
  <2> QED BY <1>3, <1>6, <1>7, <2>1, <2>2
<1> QED BY <1>2, <1>8, <1>9, <1>10, <1>11

LEMMA ShapeInvNext ==
  TypeOK /\ TypeOK' /\ Prologue /\ StorageInv /\ ShapeInv /\ [Next]_vars => ShapeInv'
<1> SUFFICES ASSUME TypeOK, TypeOK', Prologue, StorageInv, ShapeInv, [Next]_vars PROVE ShapeInv'
  OBVIOUS
<1>1. Extends /\ \A q \in Sites' : q \in Sites \/ Shaped(ArgPairs, At(q)')
  BY NewShapes
<1>2. \A p \in Sites : p \in Sites' /\ At(p)' = At(p) /\ Shaped(ArgPairs, At(p))
  BY <1>1 DEF Extends, ShapeInv
<1>3. \A q \in Sites' : Shaped(ArgPairs, At(q)')
  BY <1>1, <1>2
<1>4. /\ ArgPairs' = ArgPairs
      /\ \A i \in 1 .. ArgPairs : i < Len(locals') => locals'[i + 1] = fn.inputs[i]
  BY ArgumentsInFront
<1>5. fn' = fn
  BY DEF Next, vars, Resolve, BindParam, StartBody, LowerLet, LowerExprStmt, EndExprStmt,
         LowerIntLit, LowerVar, BeginStruct, LowerField, FinishStruct, LowerVecNew, BeginPush,
         FinishPush, LowerLen, LowerRet, EmitReturn, Panic
<1>6. phase' = "done" => blocks' # << >> /\ current' = << >>
  <2>1. CASE EmitReturn
    <3>1. blocks' = Append(blocks, BasicBlock(current, Return)) /\ current' = << >>
      BY <2>1 DEF EmitReturn, Finalize
    <3>2. blocks \in Seq(BlockOf(Len(locals)))
      BY DEF TypeOK
    <3>3. Len(blocks') = Len(blocks) + 1 /\ Len(blocks) \in Nat
      BY <3>1, <3>2, AppendOne
    <3>4. Len(blocks') # 0
      BY <3>3
    <3>5. blocks' # << >>
      BY <3>4
    <3> QED BY <3>1, <3>5
  <2>2. CASE UNCHANGED vars
    BY <2>2 DEF vars, ShapeInv
  <2>3. EmitReturn \/ UNCHANGED vars \/ phase' # "done"
    BY DEF Next, Resolve, BindParam, StartBody, LowerLet, LowerExprStmt, EndExprStmt,
           LowerIntLit, LowerVar, BeginStruct, LowerField, FinishStruct, LowerVecNew, BeginPush,
           FinishPush, LowerLen, LowerRet, Panic, Idle, Active
  <2> QED BY <2>1, <2>2, <2>3
<1>7. (\A p \in Sites : Shaped(ArgPairs, At(p)))'
  BY <1>3, <1>4
<1> QED BY <1>4, <1>5, <1>6, <1>7 DEF ShapeInv

-----------------------------------------------------------------------------
(* The invariant of a run.                                                   *)

\* The machine is at this site of the body.
Here == <<bb + 1, ip>>
InBody == bb \in Nat /\ Here \in Sites

\* A local that the text up to here gives a value has one, of the declared
\* type, and a borrow is of the local it was taken of.
MemInv ==
  /\ DOMAIN mem = Locals
  /\ \A l \in Locals : mem[l].type \in {"uninit", TypeOf(l)}
  /\ \A l \in Locals : Initialised(Here, l) => l \in live /\ mem[l].type # "uninit"
  /\ \A q \in Sites : At(q).op = "Ref" /\ Since(q, Here, At(q).place) =>
       mem[At(q).place] = Machine!Value("&mutVec", At(q).operands[1].arg)

\* When the body gets to p, l has storage: as an argument or return place, or
\* since its StorageLive.
HasStorage(p, l) ==
  \E q \in {Entry} \cup Sites :
    /\ IF q = Entry THEN l \in 0 .. ArgPairs ELSE At(q) = StorageLive(l)
    /\ Precedes(q, p)
    /\ \A d \in Sites : At(d) = StorageDead(l) => ~(Precedes(q, d) /\ Precedes(d, p))
LiveInv == \A l : l \in live <=> HasStorage(Here, l)

RunInv ==
  /\ args \in Arguments(fn)
  /\ \/ bb = -1 /\ ip = 1
     \/ phase = "done" /\ InBody /\ (Len(fn.inputs) = ArgPairs => MemInv /\ LiveInv)

\* All that is known of the text.
TextInv ==
  /\ TypeOK /\ Prologue /\ BlocksChained /\ StorageLiveOnce /\ StorageInv /\ TypesInv /\ ShapeInv

-----------------------------------------------------------------------------
(* Places in the text.                                                       *)

\* The instruction at hand, by the machine and by the text.
LEMMA AtHere ==
  ASSUME TypeOK, ShapeInv, phase = "done", InBody
  PROVE  /\ Machine!Block \in BlockOf(Len(locals)) /\ bb + 1 \in 1 .. Len(blocks)
         /\ Len(Machine!Block.statements) \in Nat
         /\ ip \in 1 .. Len(Machine!Block.statements) + 1
         /\ ip <= Len(Machine!Block.statements) =>
              At(Here) = Machine!Stmt /\ At(Here) \in StatementOf(Len(locals))
         /\ ip = Len(Machine!Block.statements) + 1 =>
              At(Here) = Machine!Block.terminator /\ At(Here) \in TerminatorOf(Len(locals))
<1>k. PICK k \in Nat : k = Len(blocks)
  BY TextTypedHolds DEF TextTyped
<1>n. PICK n \in Nat : n = Len(locals)
  BY TextTypedHolds DEF TextTyped
<1>b. PICK b : b = bb + 1
  OBVIOUS
<1>1. SitesView /\ current = << >> /\ bb \in Nat
  BY SitesViewHolds DEF ShapeInv, InBody
<1>2. IsSite(blocks, current, b, ip) /\ At(<<b, ip>>) = Instruction(blocks, current, b, ip)
  <2>1. PICK c, i : <<b, ip>> = <<c, i>> /\ IsSite(blocks, current, c, i)
    BY <1>1, <1>b DEF SitesView, InBody, Here
  <2>2. IsSite(blocks, current, b, ip)
    BY <2>1
  <2> QED BY <1>1, <2>2 DEF SitesView
<1>3. b \in 1 .. k /\ ip \in 1 .. Len(blocks[b].statements) + 1
  BY <1>1, <1>2, <1>k DEF IsSite
<1>4. blocks[b] \in BlockOf(n)
  BY <1>3, <1>k, <1>n DEF TypeOK
<1>5. blocks[b].statements \in Seq(StatementOf(n)) /\ blocks[b].terminator \in TerminatorOf(n)
  BY <1>4 DEF BlockOf
<1>6. Machine!Block = blocks[b] /\ Machine!Stmt = blocks[b].statements[ip]
  BY <1>b DEF Machine!Block, Machine!Stmt
<1>7. PICK m \in Nat : m = Len(blocks[b].statements)
  BY <1>5
<1>8. At(Here) = IF ip \in 1 .. m THEN blocks[b].statements[ip] ELSE blocks[b].terminator
  BY <1>2, <1>3, <1>7, <1>k, <1>b DEF Instruction, Here
<1>9. ip <= m => ip \in 1 .. m /\ blocks[b].statements[ip] \in StatementOf(n)
  BY <1>3, <1>5, <1>7
<1>10. ip = m + 1 => ip \notin 1 .. m
  BY <1>7
<1> QED BY <1>3, <1>4, <1>5, <1>6, <1>7, <1>8, <1>9, <1>10, <1>b, <1>k, <1>n

\* The site n comes right after this one.
Follows(n) ==
  /\ n \in Sites
  /\ \A c \in Sites : Precedes(c, n) <=> Precedes(c, Here) \/ c = Here

\* Sites are pairs of positive numbers, after the entry.
LEMMA SitesArePairs ==
  ASSUME TypeOK
  PROVE  \A p \in Sites : \E b, i \in Nat \ {0} : p = <<b, i>> /\ IsSite(blocks, current, b, i)
<1>1. SitesView
  BY SitesViewHolds
<1>2. \A p \in Sites : \E b, i : p = <<b, i>> /\ IsSite(blocks, current, b, i)
  BY <1>1 DEF SitesView
<1>3. \A b, i : IsSite(blocks, current, b, i) => b \in Nat \ {0} /\ i \in Nat \ {0}
  <2>k. PICK k \in Nat : k = Len(blocks)
    BY TextTypedHolds DEF TextTyped
  <2>1. \A b \in 1 .. k : Len(blocks[b].statements) \in Nat
    <3>1. \A b \in 1 .. k : blocks[b] \in BlockOf(Len(locals))
      BY <2>k DEF TypeOK
    <3>2. \A b \in 1 .. k : blocks[b].statements \in Seq(StatementOf(Len(locals)))
      BY <3>1 DEF BlockOf
    <3> QED BY <3>2
  <2>2. Len(current) \in Nat
    BY TextTypedHolds DEF TextTyped
  <2> QED BY <2>k, <2>1, <2>2 DEF IsSite
<1> QED BY <1>2, <1>3

LEMMA EntryFirst ==
  ASSUME TypeOK
  PROVE  /\ \A p \in Sites : Precedes(Entry, p) /\ ~Precedes(p, p) /\ p # Entry
         /\ \A p \in Sites : ~Precedes(p, <<1, 1>>)
<1>1. \A b, i \in Nat \ {0} : /\ Precedes(Entry, <<b, i>>) /\ ~Precedes(<<b, i>>, <<b, i>>)
                              /\ <<b, i>> # Entry /\ ~Precedes(<<b, i>>, <<1, 1>>)
  BY DEF Precedes, Entry
<1> QED BY <1>1, SitesArePairs

LEMMA FollowingStatement ==
  ASSUME TypeOK, ShapeInv, phase = "done", InBody, ip <= Len(Machine!Block.statements)
  PROVE  Follows(<<bb + 1, ip + 1>>)
<1>1. PICK b, i : b = bb + 1 /\ i = ip
  OBVIOUS
<1>2. PICK m \in Nat : m = Len(blocks[b].statements)
  BY <1>1, AtHere DEF Machine!Block
<1>3. b \in 1 .. Len(blocks) /\ i \in 1 .. m
  BY <1>1, <1>2, AtHere DEF Machine!Block
<1>4. i + 1 \in 1 .. m + 1
  BY <1>3
<1>5. IsSite(blocks, current, b, i + 1)
  BY <1>2, <1>3, <1>4 DEF IsSite
<1>6. <<b, i + 1>> \in Sites
  BY <1>5, SitesViewHolds DEF SitesView
<1>7. \A c, j \in Nat : Precedes(<<c, j>>, <<b, i + 1>>) <=>
                          Precedes(<<c, j>>, <<b, i>>) \/ <<c, j>> = <<b, i>>
  BY <1>3 DEF Precedes
<1>8. \A c \in Sites : Precedes(c, <<b, i + 1>>) <=> Precedes(c, <<b, i>>) \/ c = <<b, i>>
  BY <1>7, SitesArePairs
<1> QED BY <1>1, <1>6, <1>8 DEF Follows, Here

LEMMA FollowingBlock ==
  ASSUME TypeOK, BlocksChained, ShapeInv, phase = "done", InBody,
         ip = Len(Machine!Block.statements) + 1, Machine!Block.terminator.op = "Call"
  PROVE  /\ Follows(<<Machine!Block.terminator.target + 1, 1>>)
         /\ Machine!Block.terminator.target \in Nat
<1>1. PICK b, i : b = bb + 1 /\ i = ip
  OBVIOUS
<1>2. PICK m \in Nat : m = Len(blocks[b].statements)
  BY <1>1, AtHere DEF Machine!Block
<1>3. b \in 1 .. Len(blocks) /\ i = m + 1 /\ blocks[b].terminator.op = "Call"
  BY <1>1, <1>2, AtHere DEF Machine!Block
<1>k. PICK k \in Nat : k = Len(blocks)
  BY TextTypedHolds DEF TextTyped
<1>4. b # k /\ blocks[b].terminator.target = b
  BY <1>3, <1>k DEF BlocksChained, TypeOK
<1>5. b + 1 \in 1 .. k
  BY <1>3, <1>4, <1>k
<1>6. Len(blocks[b + 1].statements) \in Nat
  <2>1. blocks[b + 1] \in BlockOf(Len(locals))
    BY <1>5, <1>k DEF TypeOK
  <2> QED BY <2>1 DEF BlockOf
<1>7. IsSite(blocks, current, b + 1, 1)
  BY <1>5, <1>6, <1>k DEF IsSite
<1>8. <<b + 1, 1>> \in Sites
  BY <1>7, SitesViewHolds DEF SitesView
<1>9. \A c, j \in Nat \ {0} : IsSite(blocks, current, c, j) =>
        (Precedes(<<c, j>>, <<b + 1, 1>>) <=> Precedes(<<c, j>>, <<b, i>>) \/ <<c, j>> = <<b, i>>)
  <2> SUFFICES ASSUME NEW c \in Nat \ {0}, NEW j \in Nat \ {0}, IsSite(blocks, current, c, j)
               PROVE  Precedes(<<c, j>>, <<b + 1, 1>>) <=> Precedes(<<c, j>>, <<b, i>>) \/ <<c, j>> = <<b, i>>
    OBVIOUS
  <2>1. c = b => j <= m + 1
    BY <1>2, <1>3, <1>4, <1>k DEF IsSite, ShapeInv
  <2> QED BY <1>3, <2>1 DEF Precedes
<1>10. \A c \in Sites : Precedes(c, <<b + 1, 1>>) <=> Precedes(c, <<b, i>>) \/ c = <<b, i>>
  BY <1>9, SitesArePairs
<1> QED BY <1>1, <1>3, <1>4, <1>8, <1>10 DEF Follows, Here, Machine!Block

\* What held of l before this site and is not changed here, holds after it.
LEMMA SinceStep ==
  ASSUME TypeOK, InBody, NEW n, Follows(n), NEW q \in {Entry} \cup Sites, NEW l, Since(q, n, l)
  PROVE  q = Here \/ (Since(q, Here, l) /\ ~Changes(At(Here), l))
<1> SUFFICES ASSUME q # Here PROVE Since(q, Here, l) /\ ~Changes(At(Here), l)
  OBVIOUS
<1>1. Here \in Sites /\ Precedes(Here, n)
  BY DEF InBody, Follows
<1>2. Precedes(q, Here)
  BY <1>1, EntryFirst DEF Since, Follows
<1>3. \A c \in Sites : Precedes(c, Here) => Precedes(c, n)
  BY DEF Follows
<1> QED BY <1>1, <1>2, <1>3 DEF Since

LEMMA InitialisedStep ==
  ASSUME TypeOK, InBody, NEW n, Follows(n), NEW l, Initialised(n, l)
  PROVE  Writes(At(Here), l) \/ (Initialised(Here, l) /\ ~Changes(At(Here), l))
<1>1. Entry # Here
  BY EntryFirst DEF InBody
<1>2. CASE l \in 1 .. ArgPairs /\ Since(Entry, n, l)
  BY <1>1, <1>2, SinceStep DEF Initialised
<1>3. CASE \E q \in Sites : Writes(At(q), l) /\ Since(q, n, l)
  BY <1>3, SinceStep DEF Initialised
<1> QED BY <1>2, <1>3 DEF Initialised

LEMMA HasStorageStep ==
  ASSUME TypeOK, InBody, NEW n, Follows(n), NEW l
  PROVE  HasStorage(n, l) <=> \/ At(Here) = StorageLive(l)
                              \/ HasStorage(Here, l) /\ At(Here) # StorageDead(l)
<1> DEFINE Begins(q) == IF q = Entry THEN l \in 0 .. ArgPairs ELSE At(q) = StorageLive(l)
           Lasts(q, p) == \A d \in Sites : At(d) = StorageDead(l) =>
                                             ~(Precedes(q, d) /\ Precedes(d, p))
<1>h. PICK h : h = Here
  OBVIOUS
<1>0. /\ h \in Sites /\ Entry # h /\ ~Precedes(h, h) /\ Precedes(Entry, h) /\ Precedes(Entry, n)
      /\ \A c \in Sites : Precedes(c, n) <=> Precedes(c, h) \/ c = h
  BY <1>h, EntryFirst DEF InBody, Follows
<1>a. \A p, q \in Sites : ~(Precedes(p, q) /\ Precedes(q, p))
  <2>1. \A b, c \in Nat : \A i, j \in Nat :
          ~(Precedes(<<b, i>>, <<c, j>>) /\ Precedes(<<c, j>>, <<b, i>>))
    BY DEF Precedes
  <2> QED BY <2>1, SitesArePairs
<1>s. /\ HasStorage(n, l) <=> \E q \in {Entry} \cup Sites : Begins(q) /\ Precedes(q, n) /\ Lasts(q, n)
      /\ HasStorage(h, l) <=> \E q \in {Entry} \cup Sites : Begins(q) /\ Precedes(q, h) /\ Lasts(q, h)
  BY DEF HasStorage
<1>b. Begins(h) <=> At(h) = StorageLive(l)
  BY <1>0
<1>l. /\ \A q \in {Entry} \cup Sites : q # h /\ Precedes(q, n) =>
           /\ Precedes(q, h)
           /\ Lasts(q, n) <=> Lasts(q, h) /\ At(h) # StorageDead(l)
      /\ \A q \in {Entry} \cup Sites : Precedes(q, h) => Precedes(q, n) /\ q # h
      /\ Lasts(h, n)
  BY <1>0, <1>a
<1> HIDE DEF Begins, Lasts
<1>1. ASSUME HasStorage(n, l)
      PROVE  At(h) = StorageLive(l) \/ (HasStorage(h, l) /\ At(h) # StorageDead(l))
  BY <1>1, <1>s, <1>b, <1>l
<1>2. ASSUME At(h) = StorageLive(l) PROVE HasStorage(n, l)
  BY <1>2, <1>0, <1>s, <1>b, <1>l
<1>3. ASSUME HasStorage(h, l), At(h) # StorageDead(l) PROVE HasStorage(n, l)
  BY <1>3, <1>s, <1>l
<1> QED BY <1>h, <1>1, <1>2, <1>3

LEMMA SomeLocal ==
  ASSUME TypeOK, NEW p \in Sites
  PROVE  0 \in Locals
<1>n. PICK n \in Nat : n = Len(locals)
  BY TextTypedHolds DEF TextTyped
<1> SUFFICES ASSUME n = 0 PROVE FALSE
  BY <1>n DEF Locals
<1>1. StatementOf(0) = {} /\ TerminatorOf(0) = {}
  BY DEF StatementOf, TerminatorOf
<1>2. PICK b, i : IsSite(blocks, current, b, i)
  BY SitesArePairs
<1>3. current \in Seq({}) /\ blocks \in Seq({})
  <2>1. BlockOf(0) = {}
    BY <1>1 DEF BlockOf
  <2> QED BY <1>n, <1>1, <2>1 DEF TypeOK
<1>4. Len(current) = 0 /\ Len(blocks) = 0
  BY <1>3
<1> QED BY <1>2, <1>4 DEF IsSite

-----------------------------------------------------------------------------
(* A step of the program.                                                    *)

\* A step of the machine leaves the text alone.
LEMMA TextFixed ==
  ASSUME TypeOK, UNCHANGED vars
  PROVE  /\ Sites' = Sites /\ \A p \in Sites : At(p)' = At(p)
         /\ ArgPairs' = ArgPairs /\ Locals' = Locals
         /\ \A l : TypeOf(l)' = TypeOf(l)
         /\ \A q, l : Since(q, Here, l)' <=> Since(q, Here', l)
         /\ \A l : Initialised(Here, l)' <=> Initialised(Here', l)
         /\ \A l : HasStorage(Here, l)' <=> HasStorage(Here', l)
<1>1. TypeOK'
  BY DEF vars, TypeOK, Locals
<1>2. Sites' = Sites /\ \A p \in Sites : At(p)' = At(p)
  BY <1>1, TextSame DEF vars, Extends
<1>3. /\ ArgPairs' = ArgPairs /\ Locals' = Locals
      /\ \A l : TypeOf(l)' = TypeOf(l)
  BY DEF vars, ArgPairs, Locals, TypeOf
<1>4. \A c \in Sites : \A l : Changes(At(c), l)' <=> Changes(At(c), l)
  BY <1>2, <1>3 DEF Changes, Writes, Clears
<1>5. \A c \in Sites : \A l : Writes(At(c), l)' <=> Writes(At(c), l)
  BY <1>2 DEF Writes
<1>6. \A q, l : Since(q, Here, l)' <=> Since(q, Here', l)
  BY <1>2, <1>4 DEF Since
<1>7. \A l : Initialised(Here, l)' <=> Initialised(Here', l)
  BY <1>2, <1>3, <1>5, <1>6 DEF Initialised
<1>8. \A l : HasStorage(Here, l)' <=> HasStorage(Here', l)
  BY <1>2, <1>3 DEF HasStorage
<1> QED BY <1>2, <1>3, <1>6, <1>7, <1>8

\* What an instruction s has to do to memory.
Effects(s) ==
  /\ DOMAIN mem' = Locals
  /\ \A l \in Locals :
       /\ mem'[l].type \in {"uninit", TypeOf(l)}
       /\ Writes(s, l) => l \in live' /\ mem'[l].type # "uninit"
       /\ ~Changes(s, l) => /\ mem'[l].type = mem[l].type
                            /\ mem[l].type = "&mutVec" => mem'[l] = mem[l]
  /\ s.op = "Ref" => mem'[s.place] = Machine!Value("&mutVec", s.operands[1].arg)
  /\ \A l : l \in live' <=> s = StorageLive(l) \/ (l \in live /\ s # StorageDead(l))

LEMMA StepKeeps ==
  ASSUME TypeOK, UNCHANGED vars, InBody, MemInv, LiveInv,
         bb' \in Nat, Follows(Here'), Effects(At(Here))
  PROVE  InBody' /\ MemInv' /\ LiveInv'
<1>n. PICK n : n = Here'
  OBVIOUS
<1>s. PICK s : s = At(Here)
  OBVIOUS
<1>1. Follows(n) /\ Here \in Sites /\ Effects(s)
  BY <1>n, <1>s DEF InBody
<1>2. InBody'
  <2>1. Here' \in Sites'
    BY TextFixed DEF Follows
  <2> QED BY <2>1 DEF InBody
<1>3. \A l \in Locals : Initialised(n, l) => l \in live' /\ mem'[l].type # "uninit"
  <2> SUFFICES ASSUME NEW l \in Locals, Initialised(n, l)
               PROVE  l \in live' /\ mem'[l].type # "uninit"
    OBVIOUS
  <2>1. CASE Writes(s, l)
    BY <1>1, <2>1 DEF Effects
  <2>2. CASE Initialised(Here, l) /\ ~Changes(s, l)
    <3>1. l \in live /\ mem[l].type # "uninit"
      BY <2>2 DEF MemInv
    <3>2. s # StorageDead(l)
      BY <2>2 DEF Changes, Clears, StorageDead, Storage
    <3> QED BY <1>1, <2>2, <3>1, <3>2 DEF Effects
  <2> QED BY <1>1, <1>s, <2>1, <2>2, InitialisedStep
<1>4. \A q \in Sites : At(q).op = "Ref" /\ Since(q, n, At(q).place) =>
        mem'[At(q).place] = Machine!Value("&mutVec", At(q).operands[1].arg)
  <2> SUFFICES ASSUME NEW q \in Sites, At(q).op = "Ref", Since(q, n, At(q).place)
               PROVE  mem'[At(q).place] = Machine!Value("&mutVec", At(q).operands[1].arg)
    OBVIOUS
  <2>1. CASE q = Here
    BY <1>1, <1>s, <2>1 DEF Effects
  <2>2. CASE Since(q, Here, At(q).place) /\ ~Changes(s, At(q).place)
    <3>1. PICK l : l = At(q).place
      OBVIOUS
    <3>2. mem[l] = Machine!Value("&mutVec", At(q).operands[1].arg)
      BY <2>2, <3>1 DEF MemInv
    <3>3. mem[l].type = "&mutVec"
      BY <3>2 DEF Machine!Value
    <3>4. l \in Locals
      <4>1. l \in UsedBy(At(q))
        BY <3>1 DEF UsedBy, Storage
      <4>2. l \in Locals \cup {0}
        BY <4>1, UsedIsLocal
      <4>3. Locals # {}
        BY <3>1, SomeLocal
      <4> QED BY <4>2, <4>3 DEF Locals
    <3> QED BY <1>1, <2>2, <3>1, <3>2, <3>3, <3>4 DEF Effects
  <2> QED BY <1>1, <1>s, <2>1, <2>2, SinceStep
<1>5. \A l : l \in live' <=> HasStorage(n, l)
  <2>1. \A l : HasStorage(n, l) <=> \/ s = StorageLive(l)
                                    \/ HasStorage(Here, l) /\ s # StorageDead(l)
    BY <1>1, <1>s, HasStorageStep
  <2> QED BY <1>1, <2>1 DEF Effects, LiveInv
<1>6. MemInv'
  <2>1. /\ DOMAIN mem' = Locals
        /\ \A l \in Locals : mem'[l].type \in {"uninit", TypeOf(l)}
    BY <1>1 DEF Effects
  <2>2. \A l \in Locals' : mem'[l].type \in {"uninit", TypeOf(l)'}
    BY <2>1, TextFixed
  <2>3. \A l \in Locals' : Initialised(Here, l)' => l \in live' /\ mem'[l].type # "uninit"
    BY <1>3, <1>n, TextFixed
  <2>4. \A q \in Sites' : At(q)'.op = "Ref" /\ Since(q, Here', At(q)'.place) =>
          mem'[At(q)'.place] = Machine!Value("&mutVec", At(q)'.operands[1].arg)
    BY <1>4, <1>n, TextFixed
  <2>5. \A q \in Sites' : Since(q, Here, At(q).place)' <=> Since(q, Here', At(q)'.place)
    BY TextFixed DEF Since, Changes, Writes, Clears
  <2> QED BY <2>1, <2>2, <2>3, <2>4, <2>5, TextFixed DEF MemInv, Machine!Value
<1>7. LiveInv'
  BY <1>5, <1>n, TextFixed DEF LiveInv
<1> QED BY <1>2, <1>6, <1>7


\* The forms of an instruction, by its operation.
LEMMA FormOf ==
  ASSUME NEW n, NEW s, Shaped(n, s)
  PROVE  /\ s.op = "StorageLive" => s = StorageLive(s.place)
         /\ s.op = "StorageDead" => s = StorageDead(s.place) /\ s.place > n
         /\ s.op = "Use" => \/ \E c : s.operands = <<Const(c)>>
                            \/ \E v : s.operands = <<Move(v)>>
         /\ s.op = "Ref" => \E v : s.operands = <<Borrow(v)>>
         /\ s.op = "Call" => \/ s.func = "new" /\ s.operands = << >>
                             \/ s.func = "push" /\ \E r, a : s.operands = <<Move(r), Move(a)>>
                             \/ s.func = "len" /\ \E v : s.operands = <<Copy(v)>>
         /\ s.op \in Storage \cup {"Use", "Ref", "Aggregate", "Call", "Return"}
BY DEF Shaped, StorageLive, StorageDead, Use, Ref, Aggregate, Call, Return, Storage

\* The place an instruction writes is a local.
LEMMA PlaceIsLocal ==
  ASSUME TypeOK, NEW p \in Sites, At(p).op # "Return", At(p).op \notin Storage
  PROVE  At(p).place \in Locals
<1>1. At(p).place \in UsedBy(At(p))
  BY DEF UsedBy
<1>2. At(p).place \in Locals \cup {0}
  BY <1>1, UsedIsLocal
<1> QED BY <1>2, SomeLocal

\* The statement that the machine runs next.
LEMMA StatementHere ==
  ASSUME TypeOK, ShapeInv, phase = "done", InBody, NEW op, Machine!AtStatement(op)
  PROVE  /\ At(Here) = Machine!Stmt /\ At(Here).op = op /\ At(Here).op # "Return"
         /\ At(Here).op # "Call"
         /\ At(Here).place \in Locals /\ At(Here) \in StatementOf(Len(locals))
         /\ Shaped(ArgPairs, At(Here)) /\ Here \in Sites
         /\ Follows(<<bb + 1, ip + 1>>)
<1>1. ip <= Len(Machine!Block.statements) /\ Machine!Stmt.op = op
  BY DEF Machine!AtStatement
<1>2. At(Here) = Machine!Stmt /\ At(Here) \in StatementOf(Len(locals))
  BY <1>1, AtHere
<1>3. At(Here).place \in Locals /\ At(Here).op # "Return" /\ At(Here).op # "Call"
  BY <1>2 DEF StatementOf, Locals
<1>4. Shaped(ArgPairs, At(Here)) /\ Here \in Sites
  BY DEF ShapeInv, InBody
<1>5. Follows(<<bb + 1, ip + 1>>)
  BY <1>1, FollowingStatement
<1> QED BY <1>1, <1>2, <1>3, <1>4, <1>5

\* The terminator that the machine runs next.
LEMMA CallHere ==
  ASSUME TypeOK, BlocksChained, ShapeInv, phase = "done", InBody, NEW f, Machine!AtCall(f)
  PROVE  /\ At(Here) = Machine!Block.terminator /\ At(Here).op = "Call" /\ At(Here).func = f
         /\ At(Here).place \in Locals /\ At(Here) \in TerminatorOf(Len(locals))
         /\ Shaped(ArgPairs, At(Here)) /\ Here \in Sites
         /\ Machine!Block.terminator.target \in Nat
         /\ Follows(<<Machine!Block.terminator.target + 1, 1>>)
<1>1. /\ ip = Len(Machine!Block.statements) + 1
      /\ Machine!Block.terminator.op = "Call" /\ Machine!Block.terminator.func = f
  BY DEF Machine!AtCall
<1>2. At(Here) = Machine!Block.terminator /\ At(Here) \in TerminatorOf(Len(locals))
  BY <1>1, AtHere
<1>3. At(Here).place \in Locals
  BY <1>2 DEF TerminatorOf, Locals
<1>4. Shaped(ArgPairs, At(Here)) /\ Here \in Sites
  BY DEF ShapeInv, InBody
<1>5. /\ Follows(<<Machine!Block.terminator.target + 1, 1>>)
      /\ Machine!Block.terminator.target \in Nat
  BY <1>1, FollowingBlock
<1> QED BY <1>1, <1>2, <1>3, <1>4, <1>5

\* Each instruction moves on to the site that follows, or returns.
LEMMA StepMoves ==
  ASSUME TypeOK, BlocksChained, ShapeInv, phase = "done", InBody, Machine!Step
  PROVE  \/ bb' \in Nat /\ Follows(Here')
         \/ UNCHANGED <<bb, ip, live, mem>>
<1>1. ASSUME NEW op, Machine!AtStatement(op), bb' = bb, ip' = ip + 1
      PROVE  bb' \in Nat /\ Follows(Here')
  <2>1. Follows(<<bb + 1, ip + 1>>)
    BY <1>1, StatementHere
  <2>2. Here' = <<bb + 1, ip + 1>>
    BY <1>1 DEF Here
  <2> QED BY <1>1, <2>1, <2>2 DEF InBody
<1>2. ASSUME NEW f, Machine!AtCall(f), Machine!Jump
      PROVE  bb' \in Nat /\ Follows(Here')
  <2>1. /\ Follows(<<Machine!Block.terminator.target + 1, 1>>)
        /\ Machine!Block.terminator.target \in Nat
    BY <1>2, CallHere
  <2>2. Here' = <<Machine!Block.terminator.target + 1, 1>>
    BY <1>2 DEF Here, Machine!Jump
  <2> QED BY <1>2, <2>1, <2>2 DEF Machine!Jump
<1>3. CASE Machine!ExecReturn
  BY <1>3 DEF Machine!ExecReturn
<1>4. CASE \/ Machine!ExecStorageLive \/ Machine!ExecStorageDead
           \/ Machine!ExecUse \/ Machine!ExecRef \/ Machine!ExecAggregate
  <2>1. bb' = bb /\ ip' = ip + 1
    BY <1>4 DEF Machine!ExecStorageLive, Machine!ExecStorageDead, Machine!ExecUse,
                Machine!ExecRef, Machine!ExecAggregate
  <2>2. \E op : Machine!AtStatement(op)
    BY <1>4 DEF Machine!ExecStorageLive, Machine!ExecStorageDead, Machine!ExecUse,
                Machine!ExecRef, Machine!ExecAggregate, Machine!CanStorageLive,
                Machine!CanStorageDead, Machine!CanUse, Machine!CanRef, Machine!CanAggregate
  <2> QED BY <1>1, <2>1, <2>2
<1>5. CASE Machine!CallNew \/ Machine!CallPush \/ Machine!CallLen
  <2>1. Machine!Jump /\ \E f : Machine!AtCall(f)
    BY <1>5 DEF Machine!CallNew, Machine!CallPush, Machine!CallLen, Machine!CanPush,
                Machine!CanCall
  <2> QED BY <1>2, <2>1
<1> QED BY <1>3, <1>4, <1>5 DEF Machine!Step
-----------------------------------------------------------------------------
(* What the instructions do to memory.                                       *)

LEMMA StorageEffects ==
  ASSUME TypeOK, ShapeInv, phase = "done", InBody, MemInv,
         Machine!ExecStorageLive \/ Machine!ExecStorageDead
  PROVE  Effects(At(Here))
<1>d. Machine!Uninit.type = "uninit"
  BY DEF Machine!Uninit, Machine!Value
<1>m. /\ DOMAIN mem = Locals /\ \A l \in Locals : mem[l].type \in {"uninit", TypeOf(l)}
  BY DEF MemInv
<1>1. CASE Machine!ExecStorageLive
  <2>1. /\ Machine!AtStatement("StorageLive")
        /\ live' = live \cup {Machine!Stmt.place}
        /\ mem' = [mem EXCEPT ![Machine!Stmt.place] = Machine!Uninit]
    BY <1>1 DEF Machine!ExecStorageLive, Machine!CanStorageLive
  <2>2. PICK s : s = At(Here)
    OBVIOUS
  <2>3. s = Machine!Stmt /\ s.op = "StorageLive" /\ s.place \in Locals /\ s = StorageLive(s.place)
    BY <2>1, <2>2, StatementHere, FormOf
  <2>4. PICK k \in Locals : k = s.place /\ s = StorageLive(k)
    BY <2>3
  <2>5. live' = live \cup {k} /\ mem' = [mem EXCEPT ![k] = Machine!Uninit]
    BY <2>1, <2>3, <2>4
  <2>6. \A l : (s = StorageLive(l) <=> l = k) /\ s # StorageDead(l)
    BY <2>4 DEF StorageLive, StorageDead
  <2>7. /\ \A l : ~Writes(s, l)
        /\ Changes(s, k) /\ s.op # "Ref"
    BY <2>3, <2>4 DEF Writes, Changes, Clears, Storage
  <2> QED BY <1>d, <1>m, <2>2, <2>5, <2>6, <2>7 DEF Effects
<1>2. CASE Machine!ExecStorageDead
  <2>1. /\ Machine!AtStatement("StorageDead")
        /\ live' = live \ {Machine!Stmt.place}
        /\ mem' = [mem EXCEPT ![Machine!Stmt.place] = Machine!Uninit]
    BY <1>2 DEF Machine!ExecStorageDead, Machine!CanStorageDead
  <2>2. PICK s : s = At(Here)
    OBVIOUS
  <2>3. s = Machine!Stmt /\ s.op = "StorageDead" /\ s.place \in Locals /\ s = StorageDead(s.place)
    BY <2>1, <2>2, StatementHere, FormOf
  <2>4. PICK k \in Locals : k = s.place /\ s = StorageDead(k)
    BY <2>3
  <2>5. live' = live \ {k} /\ mem' = [mem EXCEPT ![k] = Machine!Uninit]
    BY <2>1, <2>3, <2>4
  <2>6. \A l : (s = StorageDead(l) <=> l = k) /\ s # StorageLive(l)
    BY <2>4 DEF StorageLive, StorageDead
  <2>7. /\ \A l : ~Writes(s, l)
        /\ Changes(s, k) /\ s.op # "Ref"
    BY <2>3, <2>4 DEF Writes, Changes, Clears, Storage
  <2> QED BY <1>d, <1>m, <2>2, <2>5, <2>6, <2>7 DEF Effects
<1> QED BY <1>1, <1>2

\* The machine's MIR is the lowering's.
LEMMA SameMir ==
  /\ Machine!CopyTypes = CopyTypes /\ \A l : Machine!Move(l) = Move(l)
  /\ \A f : Machine!Inputs(f) = Inputs(f) /\ Machine!Output(f) = Output(f)
BY DEF Machine!CopyTypes, CopyTypes, Machine!Move, Move, Machine!Inputs, Inputs,
       Machine!Output, Output

\* An instruction that leaves storage alone.
LEMMA LiveKept ==
  ASSUME NEW s, s.op \notin Storage
  PROVE  \A l : s # StorageLive(l) /\ s # StorageDead(l)
BY DEF Storage, StorageLive, StorageDead

\* A value v of the right type is stored in the place of s, whose operands
\* are consumed.
LEMMA StoredEffects ==
  ASSUME MemInv, NEW s, s.op \notin Storage \cup {"Return", "Ref"}, s.place \in Locals,
         s.place \in live, live' = live,
         NEW v, v.type = TypeOf(s.place), v.type # "uninit",
         mem' = Machine!Stored(s.operands, s.place, v)
  PROVE  Effects(s)
<1>1. DOMAIN mem = Locals /\ \A l \in Locals : mem[l].type \in {"uninit", TypeOf(l)}
  BY DEF MemInv
<1>2. Machine!Uninit.type = "uninit"
  BY DEF Machine!Uninit, Machine!Value
<1>3. mem' = [m \in Locals |-> IF m = s.place THEN v
                               ELSE IF m \in Machine!MovedOut(s.operands) THEN Machine!Uninit
                               ELSE mem[m]]
  BY <1>1 DEF Machine!Stored
<1>4. \A l \in Locals : ~Changes(s, l) => l # s.place /\ l \notin Machine!MovedOut(s.operands)
  <2> SUFFICES ASSUME NEW l \in Locals, ~Changes(s, l)
               PROVE  l # s.place /\ l \notin Machine!MovedOut(s.operands)
    OBVIOUS
  <2>1. ~Writes(s, l) /\ ~Clears(s, l)
    BY DEF Changes
  <2>2. l # s.place
    BY <2>1 DEF Writes
  <2>3. l \notin Machine!MovedOut(s.operands)
    BY <2>1, SameMir DEF Clears, Machine!MovedOut, TypeOf
  <2> QED BY <2>2, <2>3
<1>5. \A l \in Locals : Writes(s, l) <=> l = s.place
  BY DEF Writes
<1> QED BY <1>1, <1>2, <1>3, <1>4, <1>5, LiveKept DEF Effects

LEMMA UseEffects ==
  ASSUME TypeOK, ShapeInv, phase = "done", InBody, MemInv, Machine!ExecUse
  PROVE  Effects(At(Here))
<1>1. PICK s : s = At(Here)
  OBVIOUS
<1>2. s = Machine!Stmt /\ s.op = "Use" /\ s.place \in Locals /\ Shaped(ArgPairs, s)
  BY <1>1, StatementHere DEF Machine!ExecUse, Machine!CanUse
<1>3. PICK v : v = Machine!Read(s.operands[1])
  OBVIOUS
<1>4. /\ mem' = Machine!Stored(s.operands, s.place, v) /\ live' = live
      /\ s.place \in live /\ v.type = TypeOf(s.place)
      /\ Machine!Readable(s.operands[1])
  BY <1>2, <1>3 DEF Machine!ExecUse, Machine!CanUse, Machine!Writable, TypeOf
<1>5. v.type # "uninit"
  BY <1>3, <1>4 DEF Machine!Read, Machine!Readable, Machine!Valid, Machine!Value
<1> QED BY <1>1, <1>2, <1>4, <1>5, StoredEffects DEF Storage

LEMMA AggregateEffects ==
  ASSUME TypeOK, ShapeInv, phase = "done", InBody, MemInv, Machine!ExecAggregate
  PROVE  Effects(At(Here))
<1>1. PICK s : s = At(Here)
  OBVIOUS
<1>2. s = Machine!Stmt /\ s.op = "Aggregate" /\ s.place \in Locals
  BY <1>1, StatementHere DEF Machine!ExecAggregate, Machine!CanAggregate
<1>3. PICK v : v = Machine!Value("Point", <<Machine!Read(s.operands[1]).is,
                                            Machine!Read(s.operands[2]).is>>)
  OBVIOUS
<1>4. /\ mem' = Machine!Stored(s.operands, s.place, v) /\ live' = live
      /\ s.place \in live /\ TypeOf(s.place) = "Point"
  BY <1>2, <1>3 DEF Machine!ExecAggregate, Machine!CanAggregate, Machine!Writable, TypeOf
<1>5. v.type = "Point"
  BY <1>3 DEF Machine!Value
<1> QED BY <1>1, <1>2, <1>4, <1>5, StoredEffects DEF Storage

\* Nothing is consumed: only the place of s changes.
LEMMA PlaceEffects ==
  ASSUME MemInv, NEW s, s.op \notin Storage \cup {"Return"}, s.place \in Locals,
         s.place \in live, live' = live,
         NEW v, v.type = TypeOf(s.place), v.type # "uninit",
         s.op = "Ref" => v = Machine!Value("&mutVec", s.operands[1].arg),
         mem' = [mem EXCEPT ![s.place] = v]
  PROVE  Effects(s)
<1>1. DOMAIN mem = Locals /\ \A l \in Locals : mem[l].type \in {"uninit", TypeOf(l)}
  BY DEF MemInv
<1>2. DOMAIN mem' = Locals /\ \A l \in Locals : mem'[l] = IF l = s.place THEN v ELSE mem[l]
  BY <1>1
<1>3. \A l \in Locals : Writes(s, l) <=> l = s.place
  BY DEF Writes
<1>4. \A l \in Locals : ~Changes(s, l) => l # s.place
  BY <1>3 DEF Changes
<1> QED BY <1>1, <1>2, <1>3, <1>4, LiveKept DEF Effects

LEMMA RefEffects ==
  ASSUME TypeOK, ShapeInv, phase = "done", InBody, MemInv, Machine!ExecRef
  PROVE  Effects(At(Here))
<1>1. PICK s : s = At(Here)
  OBVIOUS
<1>2. s = Machine!Stmt /\ s.op = "Ref" /\ s.place \in Locals
  BY <1>1, StatementHere DEF Machine!ExecRef, Machine!CanRef
<1>3. PICK v : v = Machine!Value("&mutVec", s.operands[1].arg)
  OBVIOUS
<1>4. /\ mem' = [mem EXCEPT ![s.place] = v] /\ live' = live
      /\ s.place \in live /\ TypeOf(s.place) = "&mutVec"
  BY <1>2, <1>3 DEF Machine!ExecRef, Machine!CanRef, Machine!Writable, TypeOf
<1>5. v.type = "&mutVec"
  BY <1>3 DEF Machine!Value
<1> QED BY <1>1, <1>2, <1>3, <1>4, <1>5, PlaceEffects DEF Storage

LEMMA NewLenEffects ==
  ASSUME TypeOK, BlocksChained, ShapeInv, phase = "done", InBody, MemInv,
         Machine!CallNew \/ Machine!CallLen
  PROVE  Effects(At(Here))
<1>1. PICK s : s = At(Here)
  OBVIOUS
<1>2. CASE Machine!CallNew
  <2>1. s = Machine!Block.terminator /\ s.op = "Call" /\ s.place \in Locals
    BY <1>1, <1>2, CallHere DEF Machine!CallNew, Machine!CanCall
  <2>2. PICK v : v = Machine!Value("Vec", << >>)
    OBVIOUS
  <2>3. /\ mem' = [mem EXCEPT ![s.place] = v] /\ live' = live
        /\ s.place \in live /\ TypeOf(s.place) = Output("new")
    BY <1>2, <2>1, <2>2, SameMir
    DEF Machine!CallNew, Machine!CanCall, Machine!Jump, Machine!Writable, TypeOf
  <2>4. v.type = "Vec" /\ Output("new") = "Vec"
    BY <2>2 DEF Machine!Value, Output
  <2> QED BY <1>1, <2>1, <2>3, <2>4, PlaceEffects DEF Storage
<1>3. CASE Machine!CallLen
  <2>1. s = Machine!Block.terminator /\ s.op = "Call" /\ s.place \in Locals
    BY <1>1, <1>3, CallHere DEF Machine!CallLen, Machine!CanCall
  <2>2. PICK v : v = Machine!Value("usize", Len(Machine!Read(s.operands[1]).is))
    OBVIOUS
  <2>3. /\ mem' = [mem EXCEPT ![s.place] = v] /\ live' = live
        /\ s.place \in live /\ TypeOf(s.place) = Output("len")
    BY <1>3, <2>1, <2>2, SameMir
    DEF Machine!CallLen, Machine!CanCall, Machine!Jump, Machine!Writable, TypeOf
  <2>4. v.type = "usize" /\ Output("len") = "usize"
    BY <2>2 DEF Machine!Value, Output
  <2> QED BY <1>1, <2>1, <2>3, <2>4, PlaceEffects DEF Storage
<1> QED BY <1>2, <1>3

\* push: the borrowed Vec is neither the place nor an operand.
LEMMA PushEffects ==
  ASSUME TypeOK, BlocksChained, ShapeInv, phase = "done", InBody, MemInv, Machine!CallPush
  PROVE  Effects(At(Here))
<1>1. PICK s : s = At(Here)
  OBVIOUS
<1>2. s = Machine!Block.terminator /\ s.op = "Call" /\ s.place \in Locals
  BY <1>1, CallHere DEF Machine!CallPush, Machine!CanPush, Machine!CanCall
<1>3. PICK p, w : p = Machine!Pushed
                  /\ w = Machine!Value("Vec", Append(mem[p].is, Machine!Read(s.operands[2]).is))
  OBVIOUS
<1>4. PICK m : m = Machine!Stored(s.operands, s.place, Machine!Unit)
  OBVIOUS
<1>5. /\ mem' = [m EXCEPT ![p] = w] /\ live' = live
      /\ s.place \in live /\ TypeOf(s.place) = Output("push")
      /\ mem[p].type = "Vec"
  BY <1>2, <1>3, <1>4, SameMir
  DEF Machine!CallPush, Machine!CanPush, Machine!CanCall, Machine!Jump, Machine!Writable, TypeOf
<1>6. w.type = "Vec" /\ Output("push") = "unit" /\ Machine!Unit.type = "unit"
      /\ Machine!Uninit.type = "uninit"
  BY <1>3 DEF Machine!Value, Machine!Unit, Machine!Uninit, Output
<1>7. DOMAIN mem = Locals /\ \A l \in Locals : mem[l].type \in {"uninit", TypeOf(l)}
  BY DEF MemInv
<1>8. m = [l \in Locals |-> IF l = s.place THEN Machine!Unit
                            ELSE IF l \in Machine!MovedOut(s.operands) THEN Machine!Uninit
                            ELSE mem[l]]
  BY <1>4, <1>7 DEF Machine!Stored
<1>9. DOMAIN mem' = Locals /\ \A l \in Locals : mem'[l] = IF l = p THEN w ELSE m[l]
  BY <1>5, <1>8
<1>10. p \in Locals => TypeOf(p) = "Vec"
  BY <1>5, <1>7
<1>11. \A l \in Locals : Writes(s, l) <=> l = s.place
  BY <1>2 DEF Writes, Storage
<1>12. \A l \in Locals : ~Changes(s, l) => l # s.place /\ l \notin Machine!MovedOut(s.operands)
  <2> SUFFICES ASSUME NEW l \in Locals, ~Changes(s, l)
               PROVE  l # s.place /\ l \notin Machine!MovedOut(s.operands)
    OBVIOUS
  <2>1. ~Writes(s, l) /\ ~Clears(s, l)
    BY DEF Changes
  <2>2. l \notin Machine!MovedOut(s.operands)
    BY <2>1, SameMir DEF Clears, Machine!MovedOut, TypeOf
  <2> QED BY <1>11, <2>1, <2>2
<1>13. \A l \in Locals : mem'[l].type \in {"uninit", TypeOf(l)}
  BY <1>5, <1>6, <1>7, <1>8, <1>9, <1>10
<1>14. s.place # p
  BY <1>2, <1>5, <1>6, <1>10
<1>15. \A l \in Locals : Writes(s, l) => l \in live' /\ mem'[l].type # "uninit"
  BY <1>2, <1>5, <1>6, <1>8, <1>9, <1>11, <1>14
<1>16. \A l \in Locals : ~Changes(s, l) => /\ mem'[l].type = mem[l].type
                                           /\ mem[l].type = "&mutVec" => mem'[l] = mem[l]
  BY <1>5, <1>6, <1>8, <1>9, <1>12
<1>17. \A l : s # StorageLive(l) /\ s # StorageDead(l)
  BY <1>2, LiveKept DEF Storage
<1> QED BY <1>1, <1>2, <1>5, <1>9, <1>13, <1>15, <1>16, <1>17 DEF Effects

LEMMA StepEffects ==
  ASSUME TypeOK, BlocksChained, ShapeInv, phase = "done", InBody, MemInv, Machine!Step
  PROVE  Effects(At(Here)) \/ UNCHANGED <<bb, ip, live, mem>>
<1>1. Machine!ExecReturn => UNCHANGED <<bb, ip, live, mem>>
  BY DEF Machine!ExecReturn
<1> QED BY <1>1, StorageEffects, UseEffects, RefEffects, AggregateEffects, NewLenEffects,
           PushEffects DEF Machine!Step
-----------------------------------------------------------------------------
(* The invariant of a run is inductive.                                      *)

\* A call of the function.
LEMMA EnterHolds ==
  ASSUME TypeOK, Prologue, ShapeInv, phase = "done", args \in Arguments(fn), ip = 1,
         UNCHANGED vars, Machine!Enter(args, Len(fn.inputs))
  PROVE  /\ InBody' /\ (Len(fn.inputs) = ArgPairs => MemInv' /\ LiveInv')
<1>e. PICK e : e = <<1, 1>>
  OBVIOUS
<1>k. PICK k \in Nat : k = Len(blocks)
  BY TextTypedHolds DEF TextTyped
<1>1. bb' = 0 /\ ip' = 1 /\ Here' = e
  BY <1>e DEF Machine!Enter, Here
<1>2. e \in Sites
  <2>1. 1 \in 1 .. k /\ blocks # << >>
    <3>1. blocks # << >> /\ blocks \in Seq(BlockOf(Len(locals)))
      BY TextTypedHolds DEF ShapeInv, TextTyped
    <3>2. k # 0
      BY <1>k, <3>1
    <3> QED BY <3>1, <3>2
  <2>2. blocks[1] \in BlockOf(Len(locals))
    BY <1>k, <2>1 DEF TypeOK
  <2>3. Len(blocks[1].statements) \in Nat
    BY <2>2 DEF BlockOf
  <2>4. IsSite(blocks, current, 1, 1)
    BY <1>k, <2>1, <2>3 DEF IsSite
  <2> QED BY <1>e, <2>4, SitesViewHolds DEF SitesView
<1>3. \A c \in Sites : ~Precedes(c, e) /\ c # Entry
  BY <1>e, EntryFirst
<1>4. Precedes(Entry, e)
  BY <1>2, EntryFirst
<1>5. InBody'
  <2>1. Here' \in Sites'
    BY <1>1, <1>2, TextFixed
  <2> QED BY <1>1, <2>1 DEF InBody
<1>6. ASSUME Len(fn.inputs) = ArgPairs PROVE MemInv' /\ LiveInv'
  <2>n. PICK n \in Nat : n = ArgPairs
    BY Numbers
  <2>1. /\ DOMAIN args = 1 .. n /\ Len(args) = n
        /\ \A i \in 1 .. n : args[i].type = fn.inputs[i]
    BY <1>6, <2>n DEF Arguments
  <2>2. fn.inputs \in Seq(Types) /\ \A i \in 1 .. n : fn.inputs[i] # "uninit"
    <3>1. fn.inputs \in Seq(Types)
      BY FunctionsAssumption DEF TypeOK
    <3>2. \A i \in 1 .. n : fn.inputs[i] \in Types
      BY <1>6, <2>n, <3>1
    <3> QED BY <3>1, <3>2 DEF Types
  <2>m. PICK m \in Nat : m = Len(locals)
    BY TextTypedHolds DEF TextTyped
  <2>3. m >= n + 1
    BY <2>n, <2>m DEF Prologue
  <2>4. Locals = 0 .. m - 1
    BY <2>m DEF Locals
  <2>5. \A l \in 1 .. n : l \in Locals /\ TypeOf(l) = fn.inputs[l]
    BY <2>n, <2>m, <2>3, <2>4 DEF ShapeInv, TypeOf
  <2>6. /\ live' = 0 .. n
        /\ mem' = [l \in Locals |-> IF l \in 1 .. n THEN args[l] ELSE Machine!Uninit]
    BY <1>6, <2>1, <2>n, <2>m, <2>4 DEF Machine!Enter
  <2>7. Machine!Uninit.type = "uninit"
    BY DEF Machine!Uninit, Machine!Value
  <2>8. DOMAIN mem' = Locals /\ \A l \in Locals : mem'[l].type \in {"uninit", TypeOf(l)}
    BY <2>1, <2>5, <2>6, <2>7
  <2>9. \A l \in Locals : Initialised(e, l) => l \in live' /\ mem'[l].type # "uninit"
    <3> SUFFICES ASSUME NEW l \in Locals, Initialised(e, l)
                 PROVE  l \in live' /\ mem'[l].type # "uninit"
      OBVIOUS
    <3>1. l \in 1 .. n
      BY <1>3, <2>n DEF Initialised, Since
    <3> QED BY <2>1, <2>2, <2>5, <2>6, <3>1
  <2>10. \A q \in Sites : \A l : ~Since(q, e, l)
    BY <1>3 DEF Since
  <2>11. MemInv'
    <3>1. \A l \in Locals' : mem'[l].type \in {"uninit", TypeOf(l)'}
      BY <2>8, TextFixed
    <3>2. \A l \in Locals' : Initialised(Here, l)' => l \in live' /\ mem'[l].type # "uninit"
      BY <1>1, <2>9, TextFixed
    <3>3. \A q \in Sites' : ~Since(q, Here, At(q).place)'
      <4>1. \A q \in Sites' : Since(q, Here, At(q).place)' <=> Since(q, Here', At(q)'.place)
        BY TextFixed DEF Since, Changes, Writes, Clears
      <4> QED BY <1>1, <2>10, <4>1, TextFixed
    <3>4. DOMAIN mem' = Locals'
      BY <2>8, TextFixed
    <3> QED BY <3>1, <3>2, <3>3, <3>4 DEF MemInv
  <2>12. \A l : HasStorage(e, l) <=> l \in 0 .. n
    BY <1>3, <1>4, <2>n DEF HasStorage
  <2>13. LiveInv'
    BY <1>1, <2>6, <2>12, TextFixed DEF LiveInv
  <2> QED BY <2>11, <2>13
<1> QED BY <1>5, <1>6

\* Nothing happens to the run.
LEMMA RestKeeps ==
  ASSUME TypeOK, UNCHANGED vars, UNCHANGED <<bb, ip, live, mem>>, InBody
  PROVE  InBody' /\ (MemInv /\ LiveInv => MemInv' /\ LiveInv')
<1>1. Here' = Here
  BY DEF Here
<1>2. InBody'
  BY <1>1, TextFixed DEF InBody
<1>3. ASSUME MemInv PROVE MemInv'
  <2>1. \A l \in Locals' : mem'[l].type \in {"uninit", TypeOf(l)'}
    BY <1>3, TextFixed DEF MemInv
  <2>2. \A l \in Locals' : Initialised(Here, l)' => l \in live' /\ mem'[l].type # "uninit"
    BY <1>1, <1>3, TextFixed DEF MemInv
  <2>3. \A q \in Sites' : Since(q, Here, At(q).place)' <=> Since(q, Here, At(q).place)
    <3>1. \A q \in Sites' : Since(q, Here, At(q).place)' <=> Since(q, Here', At(q)'.place)
      BY TextFixed DEF Since, Changes, Writes, Clears
    <3> QED BY <1>1, <3>1, TextFixed
  <2>4. \A q \in Sites' : At(q)'.op = "Ref" /\ Since(q, Here, At(q).place)' =>
          mem'[At(q)'.place] = Machine!Value("&mutVec", At(q)'.operands[1].arg)
    BY <1>3, <2>3, TextFixed DEF MemInv
  <2> QED BY <1>3, <2>1, <2>2, <2>4, TextFixed DEF MemInv, Machine!Value
<1>4. ASSUME LiveInv PROVE LiveInv'
  BY <1>1, <1>4, TextFixed DEF LiveInv
<1> QED BY <1>2, <1>3, <1>4

LEMMA RunInvNext ==
  TextInv /\ RunInv /\ [CompileNext]_system => RunInv'
<1> SUFFICES ASSUME TextInv, RunInv, [CompileNext]_system PROVE RunInv'
  OBVIOUS
<1>0. TypeOK /\ Prologue /\ BlocksChained /\ ShapeInv
  BY DEF TextInv
<1>1. args' = args /\ fn' = fn
  <2>1. Next => fn' = fn
    BY DEF Next, Resolve, BindParam, StartBody, LowerLet, LowerExprStmt, EndExprStmt,
           LowerIntLit, LowerVar, BeginStruct, LowerField, FinishStruct, LowerVecNew, BeginPush,
           FinishPush, LowerLen, LowerRet, EmitReturn, Panic
  <2> QED BY <2>1 DEF CompileNext, Compile, CallIt, Run, system, vars
<1>2. args' \in Arguments(fn)' /\ args \in Arguments(fn)
  BY <1>1 DEF RunInv, Arguments
<1>3. ASSUME UNCHANGED vars, phase = "done", InBody,
             (bb' \in Nat /\ Follows(Here')) \/ UNCHANGED <<bb, ip, live, mem>>,
             MemInv => Effects(At(Here)) \/ UNCHANGED <<bb, ip, live, mem>>,
             Len(fn.inputs) = ArgPairs => MemInv /\ LiveInv
      PROVE  RunInv'
  <2>1. ArgPairs' = ArgPairs /\ phase' = "done" /\ Sites' = Sites
    BY <1>0, <1>3, TextFixed DEF vars
  <2>2. CASE UNCHANGED <<bb, ip, live, mem>>
    <3>1. InBody' /\ (MemInv /\ LiveInv => MemInv' /\ LiveInv')
      BY <1>0, <1>3, <2>2, RestKeeps
    <3> QED BY <1>1, <1>2, <1>3, <2>1, <3>1 DEF RunInv
  <2>3. CASE bb' \in Nat /\ Follows(Here') /\ ~UNCHANGED <<bb, ip, live, mem>>
    <3>1. InBody'
      <4>1. Here' \in Sites'
        BY <2>1, <2>3 DEF Follows
      <4> QED BY <2>3, <4>1 DEF InBody
    <3>2. ASSUME Len(fn.inputs) = ArgPairs PROVE MemInv' /\ LiveInv'
      BY <1>0, <1>3, <2>3, <3>2, StepKeeps
    <3> QED BY <1>1, <1>2, <2>1, <3>1, <3>2 DEF RunInv
  <2> QED BY <1>3, <2>2, <2>3
<1>4. CASE bb = -1 /\ ip = 1
  <2>1. CASE CallIt
    <3>1. UNCHANGED vars /\ phase = "done" /\ Machine!Enter(args, Len(fn.inputs))
      BY <2>1 DEF CallIt
    <3>2. InBody' /\ (Len(fn.inputs) = ArgPairs => MemInv' /\ LiveInv')
      BY <1>0, <1>2, <1>4, <3>1, EnterHolds
    <3>3. ArgPairs' = ArgPairs /\ phase' = "done"
      BY <1>0, <3>1, TextFixed DEF vars
    <3> QED BY <1>1, <1>2, <3>2, <3>3 DEF RunInv
  <2>2. CASE Run
    <3>1. Machine!Step => Machine!Executing
      BY DEF Machine!Step, Machine!ExecStorageLive, Machine!ExecStorageDead, Machine!ExecUse,
             Machine!ExecRef, Machine!ExecAggregate, Machine!CallNew, Machine!CallPush,
             Machine!CallLen, Machine!ExecReturn, Machine!CanStorageLive, Machine!CanStorageDead,
             Machine!CanUse, Machine!CanRef, Machine!CanAggregate, Machine!CanPush,
             Machine!CanCall, Machine!CanReturn, Machine!AtStatement, Machine!AtCall
    <3> QED BY <1>4, <2>2, <3>1 DEF Run, Machine!Executing
  <2>3. CASE Compile \/ UNCHANGED system
    <3>1. bb' = bb /\ ip' = ip
      BY <2>3 DEF Compile, system, machine
    <3> QED BY <1>2, <1>4, <3>1 DEF RunInv
  <2> QED BY <2>1, <2>2, <2>3 DEF CompileNext
<1>5. CASE ~(bb = -1 /\ ip = 1)
  <2>1. phase = "done" /\ InBody /\ (Len(fn.inputs) = ArgPairs => MemInv /\ LiveInv)
    BY <1>5 DEF RunInv
  <2>2. CASE Run
    <3>1. Machine!Step /\ UNCHANGED vars
      BY <2>2 DEF Run
    <3> QED BY <1>0, <1>3, <2>1, <3>1, StepMoves, StepEffects
  <2>3. CASE CallIt
    <3>1. bb = -1
      BY <2>3 DEF CallIt, Machine!Enter
    <3> QED BY <2>1, <3>1 DEF InBody
  <2>4. CASE Compile
    <3>1. phase # "done"
      BY <2>4 DEF Compile, Next, Resolve, BindParam, StartBody, LowerLet, LowerExprStmt,
             EndExprStmt, LowerIntLit, LowerVar, BeginStruct, LowerField, FinishStruct,
             LowerVecNew, BeginPush, FinishPush, LowerLen, LowerRet, EmitReturn, Panic,
             Idle, Active
    <3> QED BY <2>1, <3>1
  <2>5. CASE UNCHANGED system
    <3>1. UNCHANGED vars /\ UNCHANGED <<bb, ip, live, mem>>
      BY <2>5 DEF system, machine
    <3> QED BY <1>3, <2>1, <3>1
  <2> QED BY <2>2, <2>3, <2>4, <2>5 DEF CompileNext
<1> QED BY <1>4, <1>5

LEMMA TextInvNext ==
  TextInv /\ [CompileNext]_system => TextInv'
<1> SUFFICES ASSUME TextInv, [CompileNext]_system PROVE TextInv'
  OBVIOUS
<1>1. [Next]_vars
  BY DEF CompileNext, Compile, CallIt, Run, system
<1>2. TypeOK' /\ Prologue' /\ BlocksChained' /\ StorageLiveOnce'
  BY <1>1, TypeOKNext, PrologueNext, BlocksChainedNext, StorageLiveOnceNext DEF TextInv
<1>3. StorageInv' /\ TypesInv' /\ ShapeInv'
  BY <1>1, <1>2, StorageInvNext, TypesInvNext, ShapeInvNext DEF TextInv
<1> QED BY <1>2, <1>3 DEF TextInv

LEMMA InvInit == CompileInit => TextInv /\ RunInv
<1> SUFFICES ASSUME CompileInit PROVE TextInv /\ RunInv
  OBVIOUS
<1>0. Init
  BY DEF CompileInit
<1>1. TypeOK /\ StorageInv /\ TypesInv
  BY <1>0, TypeOKInit, StorageInvInit, TypesInvInit
<1>2. /\ blocks = << >> /\ current = << >> /\ frames = << >> /\ locals = << >>
      /\ phase = "resolve" /\ next = 1
  BY <1>0 DEF Init
<1>3. Prologue /\ BlocksChained
  BY <1>2 DEF Prologue, BlocksChained
<1>4. Locals = {}
  BY <1>2 DEF Locals
<1>5. StorageLiveOnce
  BY <1>4 DEF StorageLiveOnce
<1>6. Sites = {}
  <2>1. \A b, i : ~IsSite(blocks, current, b, i)
    BY <1>2 DEF IsSite
  <2> QED BY <1>1, <2>1, SitesViewHolds DEF SitesView
<1>7. ShapeInv
  BY <1>1, <1>2, <1>6, Numbers DEF ShapeInv
<1>8. RunInv
  BY DEF CompileInit, Machine!NotCalled, RunInv
<1> QED BY <1>1, <1>3, <1>5, <1>7, <1>8 DEF TextInv
-----------------------------------------------------------------------------
(* The next instruction may run.                                             *)

\* Whatever the body uses has storage, and nothing gets storage twice.
LEMMA UsedHasStorage ==
  ASSUME TextInv, NEW p \in Sites, NEW l \in UsedBy(At(p)), l \in Locals
  PROVE  HasStorage(p, l)
<1>0. TypeOK /\ StorageInv /\ ShapeInv /\ SitesView
  BY SitesViewHolds DEF TextInv
<1>n. ArgPairs \in Nat /\ Len(locals) \in Nat
  BY <1>0, Numbers
<1>1. Precedes(Entry, p) /\ \A q \in Sites : q # Entry
  BY <1>0, EntryFirst
<1>2. CASE l \in 0 .. ArgPairs
  <2>1. \A d \in Sites : At(d) # StorageDead(l)
    <3> SUFFICES ASSUME NEW d \in Sites, At(d) = StorageDead(l) PROVE FALSE
      OBVIOUS
    <3>1. At(d).op = "StorageDead" /\ At(d).place = l
      BY DEF StorageDead
    <3>2. At(d).place > ArgPairs
      BY <1>0, <3>1, FormOf DEF ShapeInv
    <3> QED BY <1>2, <1>n, <3>1, <3>2
  <2> QED BY <1>1, <1>2, <2>1 DEF HasStorage
<1>3. CASE l > ArgPairs
  <2>1. l \in Allocated /\ p \in UseSites(l)
    BY <1>0, <1>3 DEF Allocated, SitesView
  <2>2. PICK q \in LiveSites(l) : Precedes(q, p)
    BY <1>0, <2>1 DEF StorageInv, UsedWhileStored
  <2>3. q \in Sites /\ At(q) = StorageLive(l) /\ q # Entry
    BY <1>0, <1>1, <2>2 DEF SitesView
  <2>4. \A d \in Sites : At(d) = StorageDead(l) => Precedes(p, d)
    BY <1>0, <2>1 DEF StorageInv, UsedWhileStored, SitesView
  <2>5. \A d \in Sites : ~(Precedes(p, d) /\ Precedes(d, p))
    <3>1. \A b, c \in Nat : \A i, j \in Nat :
            ~(Precedes(<<b, i>>, <<c, j>>) /\ Precedes(<<c, j>>, <<b, i>>))
      BY DEF Precedes
    <3> QED BY <1>0, <3>1, SitesArePairs
  <2> QED BY <2>2, <2>3, <2>4, <2>5 DEF HasStorage
<1>4. l \in 0 .. ArgPairs \/ l > ArgPairs
  BY <1>n DEF Locals
<1> QED BY <1>2, <1>3, <1>4

LEMMA NotYetStored ==
  ASSUME TextInv, NEW p \in Sites, NEW l \in Locals, At(p) = StorageLive(l)
  PROVE  ~HasStorage(p, l)
<1>0. TypeOK /\ StorageLiveOnce /\ SitesView
  BY SitesViewHolds DEF TextInv
<1>n. ArgPairs \in Nat /\ Len(locals) \in Nat
  BY <1>0, Numbers
<1>1. p \in LiveSites(l)
  BY <1>0 DEF SitesView
<1>2. l \in Allocated /\ LiveSites(l) = {p}
  BY <1>0, <1>1 DEF StorageLiveOnce
<1>3. l \notin 0 .. ArgPairs
  BY <1>2, <1>n DEF Allocated, Locals
<1>4. \A q \in Sites : At(q) = StorageLive(l) => q = p
  BY <1>0, <1>2 DEF SitesView
<1>5. ~Precedes(p, p) /\ \A q \in Sites : q # Entry
  BY <1>0, EntryFirst
<1> QED BY <1>3, <1>4, <1>5 DEF HasStorage

\* The type of a place is that of what is stored in it.
LEMMA PlaceTyped ==
  ASSUME TextInv, NEW p \in Sites, Checked(p), At(p).op \notin Storage \cup {"Return"}
  PROVE  TypeOf(At(p).place) = Produced(At(p))
<1>1. DeclaredTypeHolds
  BY TypesInvMeans DEF TextInv
<1>2. At(p).place # 0 => TypeOf(At(p).place) = Produced(At(p))
  BY <1>1 DEF DeclaredTypeHolds, Sites
<1>3. At(p).place = 0 => TypeOf(0) = Produced(At(p))
  BY DEF Checked, Writes
<1> QED BY <1>2, <1>3

\* At a body that passes the checks, what the next instruction reads is there,
\* and what it writes has storage and the right type.
LEMMA Ready ==
  ASSUME TextInv, phase = "done", InBody, MemInv, LiveInv, Checked(Here),
         At(Here).op \notin Storage \cup {"Return"},
         NEW os, os = At(Here).operands, os \in Seq(OperandOf(Len(locals)))
  PROVE  /\ Machine!Writable(At(Here).place, Produced(At(Here)))
         /\ \A i \in DOMAIN os :
              /\ Machine!Readable(os[i]) /\ Machine!Read(os[i]).type = OperandType(os[i])
              /\ os[i].mode # "const" => Machine!Valid(os[i].arg)
<1>0. TypeOK
  BY DEF TextInv
<1>s. PICK s : s = At(Here)
  OBVIOUS
<1>1. s.place \in Locals /\ s.place \in UsedBy(s) /\ Here \in Sites
  BY <1>0, <1>s, PlaceIsLocal DEF UsedBy, InBody
<1>2. s.place \in live
  BY <1>1, <1>s, UsedHasStorage DEF LiveInv
<1>3. locals[s.place + 1] = Produced(s)
  BY <1>1, <1>s, PlaceTyped DEF TypeOf
<1>4. Machine!Writable(s.place, Produced(s))
  BY <1>2, <1>3 DEF Machine!Writable
<1>5. ASSUME NEW i \in DOMAIN os
      PROVE  /\ Machine!Readable(os[i]) /\ Machine!Read(os[i]).type = OperandType(os[i])
             /\ os[i].mode # "const" => Machine!Valid(os[i].arg)
  <2>1. os[i] \in OperandOf(Len(locals))
    OBVIOUS
  <2>2. CASE os[i].mode = "const"
    BY <2>2 DEF Machine!Readable, Machine!Read, Machine!Value, OperandType
  <2>3. CASE os[i].mode # "const"
    <3>1. PICK l : l = os[i].arg
      OBVIOUS
    <3>2. l \in Locals
      BY <2>1, <2>3, <3>1 DEF OperandOf, Locals
    <3>3. l \in ReadBy(s)
      BY <1>s, <2>3, <3>1 DEF ReadBy
    <3>4. Initialised(Here, l)
      BY <1>s, <3>3 DEF Checked
    <3>5. l \in live /\ mem[l].type # "uninit" /\ mem[l].type = TypeOf(l)
      BY <3>2, <3>4 DEF MemInv
    <3> QED BY <2>3, <3>1, <3>5
        DEF Machine!Readable, Machine!Read, Machine!Valid, OperandType
  <2> QED BY <2>2, <2>3
<1> QED BY <1>s, <1>4, <1>5

LEMMA StatementRuns ==
  ASSUME TextInv, phase = "done", InBody, MemInv, LiveInv, Checked(Here),
         Machine!Executing, ip <= Len(Machine!Block.statements)
  PROVE  Machine!CanStep
<1>0. TypeOK /\ ShapeInv
  BY DEF TextInv
<1>1. PICK s : s = At(Here)
  OBVIOUS
<1>2. s = Machine!Stmt /\ s \in StatementOf(Len(locals)) /\ Here \in Sites
      /\ Shaped(ArgPairs, s) /\ s.operands \in Seq(OperandOf(Len(locals)))
  <2>1. s = Machine!Stmt /\ s \in StatementOf(Len(locals))
    BY <1>0, <1>1, AtHere
  <2> QED BY <1>0, <1>1, <2>1 DEF StatementOf, InBody, ShapeInv
<1>3. \A op : s.op = op => Machine!AtStatement(op)
  BY <1>2 DEF Machine!AtStatement
<1>4. CASE s.op = "StorageLive"
  <2>1. s = StorageLive(s.place) /\ s.place \in Locals
    BY <1>2, <1>4, FormOf DEF StatementOf, Locals
  <2>2. ~HasStorage(Here, s.place)
    BY <1>1, <1>2, <2>1, NotYetStored
  <2> QED BY <1>2, <1>3, <1>4, <2>2 DEF LiveInv, Machine!CanStep, Machine!CanStorageLive
<1>5. CASE s.op = "StorageDead"
  BY <1>3, <1>5 DEF Machine!CanStep, Machine!CanStorageDead
<1>6. PICK os : os = s.operands
  OBVIOUS
<1>7. ASSUME s.op \notin Storage
      PROVE  /\ Machine!Writable(s.place, Produced(s)) /\ OperandsTyped(s)
             /\ \A i \in DOMAIN os :
                  /\ Machine!Readable(os[i]) /\ Machine!Read(os[i]).type = OperandType(os[i])
                  /\ os[i].mode # "const" => Machine!Valid(os[i].arg)
  <2>1. s.op # "Return"
    BY <1>2 DEF StatementOf
  <2> QED BY <1>1, <1>2, <1>6, <1>7, <2>1, Ready DEF Checked
<1>8. CASE s.op = "Use"
  <2>1. Machine!Readable(os[1]) /\ Machine!Read(os[1]).type = OperandType(os[1])
        /\ Machine!Writable(s.place, Produced(s))
        /\ os[1].mode \in {"const", "move"}
    <3>1. 1 \in DOMAIN os /\ os[1].mode \in {"const", "move"}
      <4>1. (\E c : s.operands = <<Const(c)>>) \/ \E v : s.operands = <<Move(v)>>
        BY <1>2, <1>8, FormOf
      <4>2. ASSUME NEW o, os = <<o>>, o.mode \in {"const", "move"}
            PROVE  1 \in DOMAIN os /\ os[1].mode \in {"const", "move"}
        BY <4>2
      <4>3. \A c : Const(c).mode = "const" /\ Move(c).mode = "move"
        BY DEF Const, Move
      <4> QED BY <1>6, <4>1, <4>2, <4>3
    <3> QED BY <1>7, <1>8, <3>1 DEF Storage
  <2>2. Produced(s) = OperandType(os[1])
    BY <1>6, <1>8, <2>1 DEF Produced, OperandType
  <2> QED BY <1>2, <1>3, <1>6, <1>8, <2>1, <2>2 DEF Machine!CanStep, Machine!CanUse
<1>9. CASE s.op = "Ref"
  <2>1. PICK r : os = <<Borrow(r)>>
    BY <1>2, <1>6, <1>9, FormOf
  <2>2. 1 \in DOMAIN os /\ os[1].mode = "borrow" /\ os[1].arg = r
    BY <2>1 DEF Borrow
  <2>3. /\ Machine!Valid(r) /\ Machine!Read(os[1]).type = TypeOf(r) /\ TypeOf(r) = "Vec"
        /\ Machine!Writable(s.place, Produced(s))
    BY <1>6, <1>7, <1>9, <2>2 DEF OperandsTyped, OperandType, Storage
  <2>4. mem[r].type = "Vec"
    BY <2>2, <2>3 DEF Machine!Read
  <2>5. Produced(s) = "&mutVec"
    BY <1>9 DEF Produced
  <2> QED BY <1>2, <1>3, <1>6, <1>9, <2>2, <2>3, <2>4, <2>5
      DEF Machine!CanStep, Machine!CanRef
<1>10. CASE s.op = "Aggregate"
  <2>1. /\ Len(os) = 2 /\ \A i \in 1 .. 2 : OperandType(os[i]) = "i32"
        /\ Machine!Writable(s.place, Produced(s))
    BY <1>6, <1>7, <1>10 DEF OperandsTyped, Storage
  <2>2. DOMAIN os = 1 .. 2
    BY <1>2, <1>6, <2>1
  <2>3. \A i \in 1 .. 2 : Machine!Readable(os[i]) /\ Machine!Read(os[i]).type = "i32"
    BY <1>7, <1>10, <2>1, <2>2 DEF Storage
  <2>4. Produced(s) = "Point"
    BY <1>10 DEF Produced
  <2> QED BY <1>2, <1>3, <1>6, <1>10, <2>1, <2>3, <2>4
      DEF Machine!CanStep, Machine!CanAggregate
<1> QED BY <1>2, <1>4, <1>5, <1>8, <1>9, <1>10 DEF StatementOf

LEMMA TerminatorRuns ==
  ASSUME TextInv, phase = "done", InBody, MemInv, LiveInv, PassesChecks,
         Machine!Executing, ip = Len(Machine!Block.statements) + 1
  PROVE  Machine!CanStep
<1>0. TypeOK /\ ShapeInv
  BY DEF TextInv
<1>1. PICK s : s = At(Here)
  OBVIOUS
<1>2. s = Machine!Block.terminator /\ s \in TerminatorOf(Len(locals)) /\ Here \in Sites
      /\ Shaped(ArgPairs, s) /\ s.operands \in Seq(OperandOf(Len(locals)))
      /\ Checked(Here)
  <2>1. s = Machine!Block.terminator /\ s \in TerminatorOf(Len(locals))
    BY <1>0, <1>1, AtHere
  <2> QED BY <1>0, <1>1, <2>1 DEF TerminatorOf, InBody, ShapeInv, PassesChecks
<1>3. CASE s.op = "Return"
  <2>1. TypeOf(0) = "unit" \/ Initialised(Here, 0)
    BY <1>1, <1>2, <1>3 DEF Checked
  <2>2. Initialised(Here, 0) => Machine!Valid(0)
    BY <1>0, <1>2, SomeLocal DEF MemInv, Machine!Valid
  <2>3. TypeOf(0) = locals[1]
    BY DEF TypeOf
  <2> QED BY <1>2, <1>3, <2>1, <2>2, <2>3 DEF Machine!CanStep, Machine!CanReturn
<1>4. CASE s.op = "Call"
  <2>1. PICK f, os : f = s.func /\ os = s.operands
    OBVIOUS
  <2>2. /\ Machine!Writable(s.place, Produced(s)) /\ OperandsTyped(s)
        /\ \A i \in DOMAIN os :
             /\ Machine!Readable(os[i]) /\ Machine!Read(os[i]).type = OperandType(os[i])
             /\ os[i].mode # "const" => Machine!Valid(os[i].arg)
    <3>1. s.op \notin Storage \cup {"Return"}
      BY <1>4 DEF Storage
    <3> QED BY <1>1, <1>2, <2>1, <3>1, Ready DEF Checked
  <2>3. Produced(s) = Output(f)
    BY <1>4, <2>1 DEF Produced
  <2>4. Len(os) = Len(Inputs(f)) /\ \A i \in DOMAIN os : OperandType(os[i]) = Inputs(f)[i]
    BY <1>4, <2>1, <2>2 DEF OperandsTyped
  <2>5. Machine!CanCall(f)
    BY <1>2, <1>4, <2>1, <2>2, <2>3, <2>4, SameMir DEF Machine!CanCall, Machine!AtCall
  <2>6. ASSUME f = "push" PROVE Machine!CanPush
    <3>1. PICK r, a : os = <<Move(r), Move(a)>>
      <4>1. \/ s.func = "new" /\ s.operands = << >>
            \/ s.func = "push" /\ \E r, a : s.operands = <<Move(r), Move(a)>>
            \/ s.func = "len" /\ \E v : s.operands = <<Copy(v)>>
        BY <1>2, <1>4, FormOf
      <4> QED BY <2>1, <2>6, <4>1
    <3>2. os[1].mode = "move" /\ os[1].arg = r
      BY <3>1 DEF Move
    <3>3. BorrowsVec(Here, r)
      BY <1>1, <1>2, <1>4, <2>1, <2>6, <3>2 DEF Checked
    <3>4. PICK q \in Sites : /\ At(q).op = "Ref" /\ At(q).place = r /\ Since(q, Here, r)
                             /\ Initialised(Here, At(q).operands[1].arg)
      BY <3>3 DEF BorrowsVec
    <3>5. PICK v : v = At(q).operands[1].arg
      OBVIOUS
    <3>6. mem[r] = Machine!Value("&mutVec", v)
      BY <3>4, <3>5 DEF MemInv
    <3>7. v \in Locals
      <4>1. v \in ReadBy(At(q))
        <5>1. PICK w : At(q).operands = <<Borrow(w)>>
          BY <1>0, <3>4, FormOf DEF ShapeInv
        <5>2. 1 \in DOMAIN At(q).operands /\ At(q).operands[1].mode # "const"
          BY <5>1 DEF Borrow
        <5> QED BY <3>5, <5>2 DEF ReadBy
      <4>2. v \in UsedBy(At(q))
        BY <3>4, <4>1 DEF UsedBy, Storage
      <4> QED BY <1>0, <4>2, UsedIsLocal, SomeLocal
    <3>8. v \in live /\ mem[v].type # "uninit" /\ mem[v].type \in {"uninit", TypeOf(v)}
      BY <3>4, <3>5, <3>7 DEF MemInv
    <3>9. TypeOf(v) = "Vec"
      BY <3>4, <3>5 DEF PassesChecks, Checked, OperandsTyped
    <3>10. Machine!Pushed = v
      BY <1>2, <2>1, <3>2, <3>6 DEF Machine!Pushed, Machine!Read, Machine!Value
    <3> QED BY <2>5, <2>6, <3>8, <3>9, <3>10 DEF Machine!CanPush, Machine!Valid
  <2>7. f \in {"new", "push", "len"}
    BY <1>2, <1>4, <2>1, FormOf
  <2> QED BY <2>5, <2>6, <2>7 DEF Machine!CanStep
<1> QED BY <1>2, <1>3, <1>4 DEF TerminatorOf

\* The text and the run, together.
SystemInv == TextInv /\ RunInv
LEMMA SystemInvHolds == CompileSpec => []SystemInv
<1>1. CompileInit => SystemInv
  BY InvInit DEF SystemInv
<1>2. SystemInv /\ [CompileNext]_system => SystemInv'
  BY TextInvNext, RunInvNext DEF SystemInv
<1> QED BY <1>1, <1>2, PTL DEF CompileSpec

\* Every local that an instruction touches has storage, and none gets storage
\* that it still has.
StorageHolds ==
  Machine!Executing /\ Len(fn.inputs) = ArgPairs =>
    /\ \A l \in UsedBy(At(Here)) \cap Locals : l \in live
    /\ \A l \in live : At(Here) # StorageLive(l)

(* Whatever the program, well-typed or not, a call with as many arguments as *)
(* the body binds keeps to storage: what StorageLifetimes says of the text   *)
(* is what the program does when it runs.                                    *)
THEOREM RunsInStorage == CompileSpec => []StorageHolds
<1>1. SystemInv => StorageHolds
  <2> SUFFICES ASSUME SystemInv, Machine!Executing, Len(fn.inputs) = ArgPairs
               PROVE  /\ \A l \in UsedBy(At(Here)) \cap Locals : l \in live
                      /\ \A l \in live : At(Here) # StorageLive(l)
    BY DEF StorageHolds
  <2>1. TextInv /\ bb # -1
    BY DEF SystemInv, Machine!Executing
  <2>2. phase = "done" /\ InBody /\ LiveInv /\ TypeOK /\ ShapeInv /\ Here \in Sites
    BY <2>1 DEF SystemInv, RunInv, TextInv, InBody
  <2>3. \A l \in UsedBy(At(Here)) \cap Locals : l \in live
    BY <2>1, <2>2, UsedHasStorage DEF LiveInv
  <2>4. ASSUME NEW l \in live, At(Here) = StorageLive(l) PROVE FALSE
    <3>1. At(Here).op = "StorageLive" /\ At(Here).place = l
      BY <2>4 DEF StorageLive
    <3>2. At(Here) \in StatementOf(Len(locals)) \/ At(Here) \in TerminatorOf(Len(locals))
      <4>1. /\ Len(Machine!Block.statements) \in Nat
            /\ ip \in 1 .. Len(Machine!Block.statements) + 1
        BY <2>2, AtHere
      <4>2. ip <= Len(Machine!Block.statements) \/ ip = Len(Machine!Block.statements) + 1
        BY <4>1
      <4> QED BY <2>2, <4>2, AtHere
    <3>3. l \in Locals
      BY <3>1, <3>2 DEF StatementOf, TerminatorOf, Locals
    <3>4. ~HasStorage(Here, l)
      BY <2>1, <2>2, <2>4, <3>3, NotYetStored
    <3> QED BY <2>2, <3>4 DEF LiveInv
  <2> QED BY <2>3, <2>4
<1> QED BY <1>1, SystemInvHolds, PTL

(* mir_borrowck and the type check of mir_built are skipped for Toylang      *)
(* items (borrowck.rs:26), so nothing stops a body that they would reject.   *)
(* But a body that meets their demands on types and moves never runs into    *)
(* undefined behaviour: what the lowering sees to for every source (storage, *)
(* control flow, types of temporaries) is all that has to be added to them.  *)
THEOREM ChecksSuffice == CompileSpec => [](PassesChecks => NeverUndefined)
<1>1. SystemInv => (PassesChecks => NeverUndefined)
  <2> SUFFICES ASSUME SystemInv, PassesChecks, Machine!Executing PROVE Machine!CanStep
    BY DEF NeverUndefined, Machine!Stuck
  <2>1. TextInv /\ bb # -1
    BY DEF SystemInv, Machine!Executing
  <2>2. phase = "done" /\ InBody /\ MemInv /\ LiveInv
    BY <2>1 DEF SystemInv, RunInv, PassesChecks
  <2>3. Checked(Here)
    BY <2>2 DEF InBody, PassesChecks
  <2>4. /\ Len(Machine!Block.statements) \in Nat
        /\ ip \in 1 .. Len(Machine!Block.statements) + 1
    BY <2>1, <2>2, AtHere DEF TextInv
  <2>5. ip <= Len(Machine!Block.statements) \/ ip = Len(Machine!Block.statements) + 1
    BY <2>4
  <2> QED BY <2>1, <2>2, <2>3, <2>5, StatementRuns, TerminatorRuns
<1> QED BY <1>1, SystemInvHolds, PTL
=============================================================================
