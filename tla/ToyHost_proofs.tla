--------------------------- MODULE ToyHost_proofs ---------------------------
(***************************************************************************)
(* Theorems about a host program of any length: no instruction of a         *)
(* hand-written body is undefined, and what the destructor is called with.   *)
(***************************************************************************)
EXTENDS ToyHost, SequenceTheorems, TLAPS

HostBody == IF calling.fn = "get_x" THEN BuildHardcoded ELSE GlueBody
LastBlock == IF calling.fn = "drop_in_place" /\ Declared THEN 1 ELSE 0

\* What a call returns.
Answer == IF calling.fn = "get_x" THEN Machine!Value("i32", 42) ELSE Machine!Unit

-----------------------------------------------------------------------------
(* Where a call is, and what its locals hold there.  get_x binds none of the *)
(* arguments it is passed.                                                   *)
AtGetX ==
  /\ bb = 0 /\ ip \in 1 .. 2 /\ live = {0}
  /\ DOMAIN mem = {0} /\ (ip = 2 => mem[0] = Answer)

AtGlue ==
  /\ bb \in 0 .. LastBlock /\ ip = 1 /\ live = 0 .. 1
  /\ DOMAIN mem = 0 .. 1 /\ mem[1] = calling.args[1]

\* The call under way is not entered yet, or its body is somewhere.
Underway ==
  /\ calling.fn \in {"get_x", "drop_in_place"}
  /\ locals = HostBody.locals /\ blocks = HostBody.blocks /\ arg_count = HostBody.arg_count
  /\ calling.fn = "drop_in_place" =>
       /\ dropping # << >>
       /\ calling.args = <<Machine!Value("*mutPoint", Head(dropping))>>
  /\ \/ bb = -1 /\ ip = 1 /\ outcome = Machine!Running
     \/ /\ calling.fn = "get_x" => AtGetX
        /\ calling.fn = "drop_in_place" => AtGlue
        /\ outcome = Machine!Running \/ (outcome = Machine!Returned(Answer) /\ bb = LastBlock)

Elements(s) == {s[n] : n \in DOMAIN s}
Distinct(s) == \A m, n \in DOMAIN s : m # n => s[m] # s[n]

\* The element whose glue has called the destructor and not returned yet.
InGlue == IF calling.fn = "drop_in_place" /\ bb = 1 THEN {Head(dropping)} ELSE {}

\* Glue runs, and the destructor is called, only where Point implements Drop.
DropInv ==
  /\ Distinct(dropping) /\ Elements(dropping) \subseteq ToDestroy /\ again = {}
  /\ ~crate.drops => dropping = << >>
  /\ IF crate.drops /\ Declared
       THEN destroyed = (ToDestroy \ Elements(dropping)) \cup InGlue
       ELSE destroyed = {}

Vecs == [owned : BOOLEAN, len : Nat]
HTypeOK == vecs \in Seq(Vecs) /\ dropping \in Seq(Nat \X Nat)
CallInv == IF Idle THEN ~Machine!Executing ELSE Underway

HInv == HTypeOK /\ CallInv /\ DropInv

-----------------------------------------------------------------------------
(* The texts of the bodies.                                                  *)

LEMMA GetXText ==
  ASSUME NEW bs, bs = ConstI32Body(42).blocks
  PROVE  /\ bs[1].statements = <<Use(0, Const(42))>> /\ Len(bs[1].statements) = 1
         /\ bs[1].terminator = Return
BY DEF ConstI32Body, Body, BasicBlock

LEMMA GlueText ==
  ASSUME NEW bs, bs = DropCallBody(crate.foreign).blocks
  PROVE  /\ Len(bs[1].statements) = 0
         /\ bs[1].terminator = IF Declared THEN Call("drop", <<Copy(1)>>, 0, 1) ELSE Return
         /\ Declared => Len(bs[2].statements) = 0 /\ bs[2].terminator = Return
BY DEF DropCallBody, Body, BasicBlock, Declared

-----------------------------------------------------------------------------
(* One instruction: when it may run, and what it does.                       *)

\* The instruction at hand is s, a statement, or t, a terminator.
AtS(s) == /\ Machine!Executing /\ ip \in Nat /\ Len(Machine!Block.statements) \in Nat
          /\ ip <= Len(Machine!Block.statements) /\ Machine!Stmt = s
AtT(t) == /\ Machine!Executing /\ ip = Len(Machine!Block.statements) + 1
          /\ Len(Machine!Block.statements) \in Nat /\ Machine!Block.terminator = t

LEMMA StatementStep ==
  ASSUME NEW s, AtS(s), Machine!Step \/ CallDestructor
  PROVE  \/ s.op = "StorageLive" /\ Machine!ExecStorageLive
         \/ s.op = "StorageDead" /\ Machine!ExecStorageDead
         \/ s.op = "Use" /\ Machine!ExecUse
         \/ s.op = "Ref" /\ Machine!ExecRef
         \/ s.op = "Aggregate" /\ Machine!ExecAggregate
<1>1. ip # Len(Machine!Block.statements) + 1 /\ Machine!Stmt = s
  BY DEF AtS
<1>2. \A f : ~Machine!AtCall(f)
  BY <1>1 DEF Machine!AtCall
<1>3. ~Machine!CallNew /\ ~Machine!CallPush /\ ~Machine!CallLen /\ ~CallDestructor
  BY <1>2 DEF Machine!CallNew, Machine!CallPush, Machine!CanPush, Machine!CallLen,
     CallDestructor, Machine!CanCall
<1>4. ~Machine!ExecReturn
  BY <1>1 DEF Machine!ExecReturn, Machine!CanReturn
<1>5. \/ Machine!ExecStorageLive \/ Machine!ExecStorageDead
      \/ Machine!ExecUse \/ Machine!ExecRef \/ Machine!ExecAggregate
  BY <1>3, <1>4 DEF Machine!Step
<1>6. \A o : Machine!AtStatement(o) => s.op = o
  BY <1>1 DEF Machine!AtStatement
<1> QED BY <1>5, <1>6 DEF Machine!ExecStorageLive, Machine!CanStorageLive,
  Machine!ExecStorageDead, Machine!CanStorageDead, Machine!ExecUse, Machine!CanUse,
  Machine!ExecRef, Machine!CanRef, Machine!ExecAggregate, Machine!CanAggregate

LEMMA TerminatorStep ==
  ASSUME NEW t, AtT(t), Machine!Step \/ CallDestructor
  PROVE  \/ t.op = "Return" /\ Machine!ExecReturn
         \/ t.op = "Call" /\ t.func = "new" /\ Machine!CallNew
         \/ t.op = "Call" /\ t.func = "push" /\ Machine!CallPush
         \/ t.op = "Call" /\ t.func = "len" /\ Machine!CallLen
         \/ t.op = "Call" /\ t.func = "drop" /\ CallDestructor
<1>1. ~(ip <= Len(Machine!Block.statements)) /\ Machine!Block.terminator = t
  BY DEF AtT
<1>2. \A o : ~Machine!AtStatement(o)
  BY <1>1 DEF Machine!AtStatement
<1>3. /\ ~Machine!ExecStorageLive /\ ~Machine!ExecStorageDead /\ ~Machine!ExecUse
      /\ ~Machine!ExecRef /\ ~Machine!ExecAggregate
  BY <1>2 DEF Machine!ExecStorageLive, Machine!CanStorageLive, Machine!ExecStorageDead,
     Machine!CanStorageDead, Machine!ExecUse, Machine!CanUse, Machine!ExecRef, Machine!CanRef,
     Machine!ExecAggregate, Machine!CanAggregate
<1>4. \A f : Machine!CanCall(f) => t.op = "Call" /\ t.func = f
  BY <1>1 DEF Machine!CanCall, Machine!AtCall
<1>5. Machine!CanReturn => t.op = "Return"
  BY <1>1 DEF Machine!CanReturn
<1> QED BY <1>3, <1>4, <1>5 DEF Machine!Step, Machine!CallNew, Machine!CallPush, Machine!CanPush,
  Machine!CallLen, CallDestructor, Machine!ExecReturn

\* The next statement, with storage live and memory m after it.
Goes(ls, m) == ip' = ip + 1 /\ bb' = bb /\ outcome' = outcome /\ live' = ls /\ mem' = m

\* Constants are not moved.
LEMMA UseStep ==
  ASSUME NEW l, NEW n, AtS(Use(l, Const(n)))
  PROVE  /\ l \in live /\ locals[l + 1] = "i32" => Machine!CanStep
         /\ Machine!Step \/ CallDestructor =>
              Goes(live, [m \in DOMAIN mem |-> IF m = l THEN Machine!Value("i32", n) ELSE mem[m]])
<1>1. \A m : Const(n) # Machine!Move(m)
  BY DEF Const, Machine!Move
<1>2. Use(l, Const(n)).operands = <<Const(n)>>
  BY DEF Use
<1>3. Machine!MovedOut(<<Const(n)>>) = {}
  <2>1. \A i \in DOMAIN <<Const(n)>> : <<Const(n)>>[i] = Const(n)
    OBVIOUS
  <2> QED BY <1>1, <2>1 DEF Machine!MovedOut
<1>4. Machine!Readable(Const(n)) /\ Machine!Read(Const(n)) = Machine!Value("i32", n)
  BY DEF Machine!Readable, Machine!Read, Const
<1>5. l \in live /\ locals[l + 1] = "i32" => Machine!CanStep
  BY <1>4 DEF AtS, Machine!CanStep, Machine!CanUse, Machine!AtStatement, Use, Machine!Writable,
     Machine!Value
<1>6. Machine!Step \/ CallDestructor => Machine!ExecUse
  BY StatementStep DEF Use
<1> QED BY <1>2, <1>3, <1>4, <1>5, <1>6 DEF AtS, Machine!ExecUse, Use, Goes, Machine!Stored

\* The next block b, with memory m.
Calls(b, m) == ip' = 1 /\ bb' = b /\ outcome' = outcome /\ live' = live /\ mem' = m

LEMMA DropStep ==
  ASSUME NEW l, NEW r, NEW b, AtT(Call("drop", <<Copy(r)>>, l, b))
  PROVE  /\ l \in live /\ locals[l + 1] = "unit" /\ r \in live /\ mem[r].type = "*mutPoint"
              => Machine!CanCall("drop")
         /\ Machine!Step \/ CallDestructor =>
              CallDestructor /\ Calls(b, [mem EXCEPT ![l] = Machine!Unit])
                /\ destroyed' = destroyed \cup {mem[r].is}
                /\ again' = again \cup (destroyed \cap {mem[r].is})
<1>1. Copy(r).mode # "const" /\ Copy(r).arg = r
  BY DEF Copy
<1>2. /\ Machine!Read(Copy(r)) = mem[r]
      /\ r \in live /\ mem[r].type = "*mutPoint" => Machine!Readable(Copy(r))
  BY <1>1 DEF Machine!Read, Machine!Readable, Machine!Valid
<1>3. l \in live /\ locals[l + 1] = "unit" /\ r \in live /\ mem[r].type = "*mutPoint"
        => Machine!CanCall("drop")
  <2>1. Machine!Inputs("drop") = <<"*mutPoint">> /\ Machine!Output("drop") = "unit"
    BY DEF Machine!Inputs, Machine!Output
  <2> QED BY <1>2, <2>1 DEF AtT, Machine!CanCall, Machine!AtCall, Call, Machine!Writable
<1>4. Machine!Step \/ CallDestructor => CallDestructor
  BY TerminatorStep DEF Call
<1> QED BY <1>2, <1>3, <1>4 DEF AtT, CallDestructor, Machine!Jump, Call, Calls

LEMMA ReturnStep ==
  ASSUME AtT(Return)
  PROVE  /\ locals[1] = "unit" \/ (0 \in live /\ mem[0].type # "uninit") => Machine!CanStep
         /\ Machine!Step \/ CallDestructor =>
              /\ outcome' = Machine!Returned(IF locals[1] = "unit" THEN Machine!Unit ELSE mem[0])
              /\ UNCHANGED <<bb, ip, live, mem>>
<1>1. locals[1] = "unit" \/ (0 \in live /\ mem[0].type # "uninit") => Machine!CanStep
  BY DEF AtT, Machine!CanStep, Machine!CanReturn, Return, Machine!Valid
<1>2. Machine!Step \/ CallDestructor => Machine!ExecReturn
  BY TerminatorStep DEF Return
<1> QED BY <1>1, <1>2 DEF Machine!ExecReturn

\* Only a call of drop calls the destructor.
LEMMA NotDrop ==
  ASSUME NEW t, AtT(t), t.op # "Call" \/ t.func # "drop"
  PROVE  ~CallDestructor
BY DEF AtT, CallDestructor, Machine!CanCall, Machine!AtCall

\* A step of the body, or of the destructor.
Moves ==
  (Machine!Step \/ CallDestructor) /\ UNCHANGED <<crate, calling, body, vecs, dropping>>

-----------------------------------------------------------------------------
(* The bodies.                                                               *)

LEMMA GetXRuns ==
  ASSUME calling.fn = "get_x", Machine!Executing, AtGetX,
         locals = ConstI32Body(42).locals, blocks = ConstI32Body(42).blocks
  PROVE  /\ Machine!CanStep
         /\ Moves =>
              /\ AtGetX' /\ ~CallDestructor
              /\ outcome' = Machine!Running \/ (outcome' = Machine!Returned(Answer) /\ bb' = 0)
<1>0. locals[1] = "i32"
  BY DEF ConstI32Body, Body
<1>t. /\ blocks[1].statements = <<Use(0, Const(42))>> /\ Len(blocks[1].statements) = 1
      /\ blocks[1].terminator = Return
  BY GetXText
<1>w. Answer = Machine!Value("i32", 42) /\ Answer.type # "uninit"
  BY DEF Answer, Machine!Value
<1>u. Moves => Answer' = Answer
  BY DEF Answer, Moves
<1>n. ~CallDestructor
  BY <1>t DEF AtGetX, CallDestructor, Machine!CanCall, Machine!AtCall, Machine!Block, Return
<1>b. Machine!Block = blocks[1] /\ live = {0} /\ DOMAIN mem = {0} /\ bb = 0
  BY DEF AtGetX, Machine!Block
<1>1. CASE ip = 1
  <2>0. <<Use(0, Const(42))>>[1] = Use(0, Const(42))
    OBVIOUS
  <2>1. AtS(Use(0, Const(42)))
    <3>1. Len(Machine!Block.statements) = 1 /\ Machine!Stmt = Use(0, Const(42))
      BY <1>1, <1>b, <1>t, <2>0 DEF Machine!Stmt
    <3> QED BY <1>1, <3>1 DEF AtGetX, AtS
  <2>2. /\ Machine!CanStep
        /\ Machine!Step \/ CallDestructor =>
             Goes(live, [m \in DOMAIN mem |-> IF m = 0 THEN Machine!Value("i32", 42) ELSE mem[m]])
    BY <1>0, <1>b, <2>1, UseStep
  <2> QED BY <1>1, <1>b, <1>n, <1>w, <1>u, <2>2 DEF Moves, Goes, AtGetX, Machine!Executing
<1>2. CASE ip = 2
  <2>1. AtT(Return)
    <3>1. Machine!Block.terminator = Return /\ Len(Machine!Block.statements) = 1
      BY <1>b, <1>t
    <3> QED BY <1>2, <3>1 DEF AtT
  <2>2. 0 \in live /\ mem[0] = Answer
    BY <1>2 DEF AtGetX
  <2>3. /\ Machine!CanStep
        /\ Machine!Step \/ CallDestructor =>
              outcome' = Machine!Returned(mem[0]) /\ UNCHANGED <<bb, ip, live, mem>>
    BY <1>0, <1>w, <2>1, <2>2, ReturnStep
  <2> QED BY <1>2, <1>n, <1>w, <1>u, <2>2, <2>3 DEF Moves, AtGetX
<1> QED BY <1>1, <1>2 DEF AtGetX

\* With a destructor the glue calls it and returns; without, it returns.
LEMMA GlueRuns ==
  ASSUME calling.fn = "drop_in_place", Machine!Executing, AtGlue,
         NEW a, calling.args = <<Machine!Value("*mutPoint", a)>>,
         locals = DropCallBody(crate.foreign).locals, blocks = DropCallBody(crate.foreign).blocks
  PROVE  /\ Machine!CanStep \/ Machine!CanCall("drop")
         /\ Moves =>
              /\ AtGlue'
              /\ \/ /\ CallDestructor /\ destroyed' = destroyed \cup {a}
                    /\ again' = again \cup (destroyed \cap {a})
                    /\ Declared /\ bb = 0 /\ bb' = 1 /\ outcome' = Machine!Running
                 \/ /\ ~CallDestructor /\ bb = LastBlock /\ bb' = bb
                    /\ outcome' = Machine!Returned(Answer)
<1>0. locals[1] = "unit" /\ locals[2] = "*mutPoint"
  BY DEF DropCallBody, Body
<1>t. /\ Len(blocks[1].statements) = 0
      /\ blocks[1].terminator = IF Declared THEN Call("drop", <<Copy(1)>>, 0, 1) ELSE Return
      /\ Declared => Len(blocks[2].statements) = 0 /\ blocks[2].terminator = Return
  BY GlueText
<1>a. mem[1] = calling.args[1] /\ mem[1] = Machine!Value("*mutPoint", a)
  BY DEF AtGlue
<1>m. Machine!Value("*mutPoint", a).type = "*mutPoint" /\ Machine!Value("*mutPoint", a).is = a
  BY DEF Machine!Value
<1>w. Answer = Machine!Unit /\ LastBlock = IF Declared THEN 1 ELSE 0
  BY DEF Answer, LastBlock
<1>l. Moves => LastBlock' = LastBlock
  BY DEF LastBlock, Declared, Moves
<1>1. CASE bb = 0 /\ Declared
  <2>1. AtT(Call("drop", <<Copy(1)>>, 0, 1)) /\ ip = 1 /\ live = 0 .. 1 /\ DOMAIN mem = 0 .. 1
    BY <1>1, <1>t DEF AtT, Machine!Block, AtGlue
  <2>2. /\ Machine!CanCall("drop")
        /\ Machine!Step \/ CallDestructor =>
              CallDestructor /\ Calls(1, [mem EXCEPT ![0] = Machine!Unit])
                /\ destroyed' = destroyed \cup {mem[1].is}
                /\ again' = again \cup (destroyed \cap {mem[1].is})
    <3>1. 0 \in live /\ locals[0 + 1] = "unit" /\ 1 \in live /\ mem[1].type = "*mutPoint"
      BY <1>0, <1>a, <1>m, <2>1
    <3> QED BY <2>1, <3>1, DropStep, Zenon
  <2> QED BY <1>1, <1>a, <1>m, <1>w, <1>l, <2>1, <2>2 DEF Moves, Calls, AtGlue, Machine!Executing
<1>2. CASE bb = LastBlock
  <2>1. AtT(Return)
    BY <1>2, <1>t, <1>w DEF AtT, Machine!Block, AtGlue
  <2>3. /\ Machine!CanStep
        /\ Machine!Step \/ CallDestructor =>
              outcome' = Machine!Returned(Machine!Unit) /\ UNCHANGED <<bb, ip, live, mem>>
    BY <1>0, <2>1, ReturnStep
  <2>4. ~CallDestructor
    BY <2>1, NotDrop DEF Return
  <2> QED BY <1>2, <1>w, <1>l, <2>3, <2>4 DEF Moves, AtGlue
<1> QED BY <1>1, <1>2, <1>w DEF AtGlue

-----------------------------------------------------------------------------
(* The call under way.                                                       *)

LEMMA CallRuns ==
  ASSUME Underway, Machine!Executing
  PROVE  Machine!CanStep \/ Machine!CanCall("drop")
<1>0. bb # -1
  BY DEF Machine!Executing
<1>1. CASE calling.fn = "get_x"
  <2>1. AtGetX
    BY <1>0, <1>1 DEF Underway
  <2>2. locals = ConstI32Body(42).locals /\ blocks = ConstI32Body(42).blocks
    BY <1>1 DEF Underway, HostBody, BuildHardcoded
  <2> QED BY <1>1, <2>1, <2>2, GetXRuns
<1>2. CASE calling.fn = "drop_in_place"
  <2>1. AtGlue /\ calling.args = <<Machine!Value("*mutPoint", Head(dropping))>>
    BY <1>0, <1>2 DEF Underway
  <2>2. locals = DropCallBody(crate.foreign).locals /\ blocks = DropCallBody(crate.foreign).blocks
    BY <1>2 DEF Underway, HostBody, GlueBody
  <2> QED BY <1>2, <2>1, <2>2, GlueRuns
<1> QED BY <1>1, <1>2 DEF Underway

\* A step of a body stays in the body, and the body returns the answer.  Only
\* the glue calls the destructor, with the address it was called with.
LEMMA CallMoves ==
  ASSUME Underway, Machine!Executing, Moves
  PROVE  /\ Underway'
         /\ calling.fn # "drop_in_place" => ~CallDestructor
         /\ calling.fn = "drop_in_place" =>
              \/ /\ Declared /\ bb = 0 /\ bb' = 1
                 /\ destroyed' = destroyed \cup {Head(dropping)}
                 /\ again' = again \cup (destroyed \cap {Head(dropping)})
              \/ ~CallDestructor /\ bb' = bb
<1>0. bb # -1 /\ outcome = Machine!Running
  BY DEF Machine!Executing
<1>m. /\ Machine!Step \/ CallDestructor
      /\ UNCHANGED <<crate, calling, locals, blocks, arg_count, vecs, dropping>>
  BY DEF Moves, body
<1>a. Answer' = Answer /\ LastBlock' = LastBlock /\ HostBody' = HostBody
  BY <1>m DEF Answer, LastBlock, Declared, HostBody, BuildHardcoded, GlueBody
<1>1. CASE calling.fn = "get_x"
  <2>1. AtGetX
    BY <1>0, <1>1 DEF Underway
  <2>2. locals = ConstI32Body(42).locals /\ blocks = ConstI32Body(42).blocks
    BY <1>1 DEF Underway, HostBody, BuildHardcoded
  <2>3. /\ AtGetX' /\ ~CallDestructor
        /\ outcome' = Machine!Running \/ (outcome' = Machine!Returned(Answer) /\ bb' = 0)
    BY <1>1, <2>1, <2>2, GetXRuns
  <2>4. LastBlock = 0
    BY <1>1 DEF LastBlock
  <2> QED BY <1>1, <1>m, <1>a, <2>3, <2>4 DEF Underway
<1>2. CASE calling.fn = "drop_in_place"
  <2>1. AtGlue /\ calling.args = <<Machine!Value("*mutPoint", Head(dropping))>>
    BY <1>0, <1>2 DEF Underway
  <2>2. locals = DropCallBody(crate.foreign).locals /\ blocks = DropCallBody(crate.foreign).blocks
    BY <1>2 DEF Underway, HostBody, GlueBody
  <2>3. /\ AtGlue'
        /\ \/ outcome' = Machine!Running
           \/ outcome' = Machine!Returned(Answer) /\ bb' = LastBlock
        /\ \/ /\ Declared /\ bb = 0 /\ bb' = 1
              /\ destroyed' = destroyed \cup {Head(dropping)}
              /\ again' = again \cup (destroyed \cap {Head(dropping)})
           \/ ~CallDestructor /\ bb' = bb
    BY <1>2, <2>1, <2>2, GlueRuns
  <2> QED BY <1>2, <1>m, <1>a, <2>3 DEF Underway
<1> QED BY <1>1, <1>2 DEF Underway

\* A call is entered: the arguments the body declares are in the first locals.
LEMMA CallEntered ==
  ASSUME Underway, Enter
  PROVE  Underway' /\ bb = -1 /\ bb' = 0
<1>m. /\ bb = -1 /\ bb' = 0 /\ live' = 0 .. arg_count /\ ip' = ip /\ outcome' = outcome
      /\ mem' = [l \in 0 .. Len(locals) - 1 |->
                   IF l \in 1 .. arg_count THEN calling.args[l] ELSE Machine!Uninit]
      /\ UNCHANGED <<crate, calling, locals, blocks, arg_count, dropping>>
  BY DEF Enter, Machine!Enter, body
<1>o. ip = 1 /\ outcome = Machine!Running
  <2>1. ~AtGetX /\ ~AtGlue
    BY <1>m DEF AtGetX, AtGlue
  <2> QED BY <2>1 DEF Underway
<1>b. HostBody' = HostBody
  BY <1>m DEF HostBody, BuildHardcoded, GlueBody
<1>1. CASE calling.fn = "get_x"
  <2>1. arg_count = 0 /\ Len(locals) = 1
    BY <1>1 DEF Underway, HostBody, BuildHardcoded, ConstI32Body, Body
  <2>2. live' = {0} /\ DOMAIN mem' = {0}
    BY <1>m, <2>1
  <2>3. AtGetX'
    BY <1>m, <1>o, <2>2 DEF AtGetX
  <2> QED BY <1>1, <1>m, <1>o, <1>b, <2>3 DEF Underway
<1>2. CASE calling.fn = "drop_in_place"
  <2>1. arg_count = 1 /\ Len(locals) = 2
    BY <1>2 DEF Underway, HostBody, GlueBody, DropCallBody, Body
  <2>2. DOMAIN mem' = 0 .. 1 /\ mem'[1] = calling.args[1] /\ live' = 0 .. 1
    BY <1>m, <2>1
  <2>3. AtGlue' /\ LastBlock' \in 0 .. 1
    BY <1>2, <1>m, <1>o, <2>2 DEF AtGlue, LastBlock
  <2> QED BY <1>2, <1>m, <1>o, <1>b, <2>3 DEF Underway
<1> QED BY <1>1, <1>2, <1>m DEF Underway

-----------------------------------------------------------------------------
(* The elements that are dropped.                                            *)

LEMMA TailOf ==
  ASSUME NEW S, NEW s \in Seq(S), s # << >>, Distinct(s)
  PROVE  /\ Tail(s) \in Seq(S) /\ Distinct(Tail(s)) /\ Head(s) \in Elements(s) /\ Head(s) \in S
         /\ Elements(Tail(s)) = Elements(s) \ {Head(s)}
<1>1. /\ Tail(s) \in Seq(S) /\ Len(Tail(s)) = Len(s) - 1 /\ Head(s) = s[1] /\ Len(s) \in Nat \ {0}
      /\ \A n \in 1 .. Len(s) - 1 : Tail(s)[n] = s[n + 1]
  BY HeadTailProperties, EmptySeq, LenProperties
<1>2. PICK t \in Seq(S) : t = Tail(s)
  BY <1>1
<1>3. DOMAIN s = 1 .. Len(s) /\ DOMAIN t = 1 .. Len(s) - 1 /\ \A n \in DOMAIN t : t[n] = s[n + 1]
  BY <1>1, <1>2
<1>4. Distinct(t)
  BY <1>3 DEF Distinct
<1>5. Elements(t) = Elements(s) \ {s[1]}
  <2>1. ASSUME NEW x \in Elements(t) PROVE x \in Elements(s) \ {s[1]}
    <3>1. PICK n \in DOMAIN t : x = t[n]
      BY <2>1 DEF Elements
    <3>2. n + 1 \in DOMAIN s /\ 1 \in DOMAIN s /\ n + 1 # 1 /\ x = s[n + 1]
      BY <1>1, <1>3, <3>1
    <3> QED BY <3>2 DEF Elements, Distinct
  <2>2. ASSUME NEW x \in Elements(s), x # s[1] PROVE x \in Elements(t)
    <3>1. PICK n \in DOMAIN s : x = s[n]
      BY <2>2 DEF Elements
    <3>2. n - 1 \in DOMAIN t /\ x = t[n - 1]
      BY <1>1, <1>3, <2>2, <3>1
    <3> QED BY <3>2 DEF Elements
  <2> QED BY <2>1, <2>2
<1>6. s[1] \in Elements(s) /\ s[1] \in S
  BY <1>1, <1>3 DEF Elements
<1> QED BY <1>1, <1>2, <1>4, <1>5, <1>6

LEMMA ToDestroyIs ==
  /\ \A v, n : <<v, n>> \in ToDestroy <=>
       v \in DOMAIN vecs /\ ~vecs[v].owned /\ n \in 1 .. vecs[v].len
  /\ \A x \in ToDestroy : \E v, n : x = <<v, n>>
BY DEF ToDestroy

\* An owned Vec is not to be destroyed.
LEMMA NewVec ==
  ASSUME vecs \in Seq(Vecs), NEW r \in Vecs, r.owned, vecs' = Append(vecs, r)
  PROVE  vecs' \in Seq(Vecs) /\ ToDestroy' = ToDestroy
<1>1. /\ vecs' \in Seq(Vecs) /\ Len(vecs') = Len(vecs) + 1 /\ vecs'[Len(vecs) + 1] = r
      /\ \A n \in 1 .. Len(vecs) : vecs'[n] = vecs[n]
  BY AppendProperties
<1>2. DOMAIN vecs = 1 .. Len(vecs) /\ DOMAIN vecs' = DOMAIN vecs \cup {Len(vecs) + 1}
  BY <1>1
<1>3. {w \in DOMAIN vecs' : ~vecs'[w].owned} = {w \in DOMAIN vecs : ~vecs[w].owned}
  BY <1>1, <1>2
<1> QED BY <1>1, <1>2, <1>3 DEF ToDestroy

-----------------------------------------------------------------------------
(* The steps of the host.                                                    *)

LEMMA HInit == HostInit => HInv
<1> SUFFICES ASSUME HostInit PROVE HInv
  OBVIOUS
<1>1. HTypeOK
  BY DEF HostInit, HTypeOK
<1>2. CallInv
  BY DEF HostInit, CallInv, Idle, Machine!NotCalled, Machine!Executing
<1>3. ToDestroy = {} /\ Elements(dropping) = {} /\ Distinct(dropping)
  BY DEF HostInit, ToDestroy, Elements, Distinct
<1>4. InGlue = {}
  BY DEF HostInit, InGlue, Nobody
<1> QED BY <1>1, <1>2, <1>3, <1>4 DEF HInv, DropInv, HostInit

LEMMA Begins ==
  ASSUME HInv, NEW f, NEW args, NEW b, Begin(f, args, b),
         \/ f = "get_x" /\ b = BuildHardcoded
         \/ /\ f = "drop_in_place" /\ b = GlueBody /\ dropping # << >>
            /\ args = <<Machine!Value("*mutPoint", Head(dropping))>>
  PROVE  HInv'
<1>1. /\ calling = Nobody /\ calling' = [fn |-> f, args |-> args]
      /\ locals' = b.locals /\ blocks' = b.blocks /\ arg_count' = b.arg_count
      /\ bb' = -1 /\ ip' = 1 /\ outcome' = Machine!Running
      /\ UNCHANGED <<crate, vecs, dropping, destroyed, again>>
  BY DEF Begin, Idle, destructions
<1>2. HTypeOK'
  BY <1>1 DEF HInv, HTypeOK
<1>3. calling'.fn = f /\ calling'.args = args /\ f # "none"
  BY <1>1
<1>4. CallInv'
  <2>1. HostBody' = b
    BY <1>1, <1>3 DEF HostBody, BuildHardcoded, GlueBody
  <2>2. Underway'
    BY <1>1, <1>3, <2>1 DEF Underway
  <2>3. ~Idle'
    BY <1>1, <1>3 DEF Idle, Nobody
  <2> QED BY <2>2, <2>3 DEF CallInv
<1>5. InGlue = {} /\ InGlue' = {}
  BY <1>1 DEF InGlue, Nobody
<1>6. ToDestroy' = ToDestroy /\ Declared' = Declared
  BY <1>1 DEF ToDestroy, Declared
<1>7. DropInv'
  BY <1>1, <1>5, <1>6 DEF HInv, DropInv, Elements, Distinct
<1> QED BY <1>2, <1>4, <1>7 DEF HInv

\* The host extends a Vec of its own, or makes one.
LEMMA HostVecStep == HInv /\ HostVec => HInv'
<1> SUFFICES ASSUME HInv, HostVec PROVE HInv'
  OBVIOUS
<1>1. UNCHANGED <<crate, calling, locals, blocks, arg_count, bb, ip, live, mem, outcome,
                  dropping, destroyed, again>>
  BY DEF HostVec, machine, body, destructions
<1>0. calling = Nobody
  BY DEF HostVec, Rest, Idle
<1>2. vecs' \in Seq(Vecs) /\ ToDestroy' = ToDestroy
  <2>1. CASE vecs' = Append(vecs, [owned |-> TRUE, len |-> 0])
    <3>1. PICK r : r = [owned |-> TRUE, len |-> 0]
      OBVIOUS
    <3>2. r \in Vecs /\ r.owned
      BY <3>1 DEF Vecs
    <3> QED BY <2>1, <3>1, <3>2, NewVec DEF HInv, HTypeOK
  <2>2. ASSUME NEW v \in DOMAIN vecs, vecs[v].owned, vecs' = [vecs EXCEPT ![v].len = @ + 1]
        PROVE  vecs' \in Seq(Vecs) /\ ToDestroy' = ToDestroy
    <3>1. vecs \in Seq(Vecs) /\ vecs[v] \in Vecs
      BY <2>2 DEF HInv, HTypeOK
    <3>3. PICK r : r = [vecs[v] EXCEPT !.len = vecs[v].len + 1]
      OBVIOUS
    <3>4. r \in Vecs /\ r.owned = vecs[v].owned
      BY <3>1, <3>3 DEF Vecs
    <3>5. vecs' = [vecs EXCEPT ![v] = r]
      BY <2>2, <3>3
    <3>6. vecs' \in Seq(Vecs)
      BY <3>1, <3>4, <3>5
    <3>7. /\ DOMAIN vecs' = DOMAIN vecs /\ vecs'[v].owned
          /\ \A w \in DOMAIN vecs : w # v => vecs'[w] = vecs[w]
      BY <2>2, <3>1, <3>4, <3>5
    <3> QED BY <2>2, <3>6, <3>7 DEF ToDestroy
  <2> QED BY <2>1, <2>2 DEF HostVec
<1>3. HTypeOK'
  BY <1>1, <1>2 DEF HInv, HTypeOK
<1>4. CallInv'
  BY <1>0, <1>1 DEF HInv, CallInv, Idle, Machine!Executing
<1>5. DropInv'
  <2>1. InGlue' = InGlue /\ Declared' = Declared
    BY <1>1 DEF InGlue, Declared
  <2> QED BY <1>1, <1>2, <2>1 DEF HInv, DropInv, Elements, Distinct
<1> QED BY <1>3, <1>4, <1>5 DEF HInv

\* The host drops a Vec: if Point implements Drop, its elements are still to be
\* dropped, and otherwise nothing is.
LEMMA DropVecStep == HInv /\ DropVec => HInv'
<1> SUFFICES ASSUME HInv, DropVec PROVE HInv'
  OBVIOUS
<1>1. PICK v \in DOMAIN vecs :
        /\ Rest /\ vecs[v].owned
        /\ dropping' = IF crate.drops THEN [n \in 1 .. vecs[v].len |-> <<v, n>>] ELSE << >>
        /\ vecs' = [vecs EXCEPT ![v].owned = FALSE]
        /\ UNCHANGED <<crate, calling, body, machine, destructions>>
  BY DEF DropVec
<1>2. /\ calling = Nobody /\ dropping = << >>
      /\ UNCHANGED <<crate, calling, locals, blocks, arg_count, bb, ip, live, mem, outcome,
                     destroyed, again>>
  BY <1>1 DEF Rest, Idle, machine, body, destructions
<1>3. vecs \in Seq(Vecs) /\ vecs[v] \in Vecs /\ v \in Nat
  BY DEF HInv, HTypeOK
<1>4. PICK len \in Nat : len = vecs[v].len
  BY <1>3 DEF Vecs
<1>r. PICK r : r = [vecs[v] EXCEPT !.owned = FALSE]
  OBVIOUS
<1>5. r \in Vecs /\ ~r.owned /\ r.len = len
  BY <1>3, <1>4, <1>r DEF Vecs
<1>6. /\ vecs' = [vecs EXCEPT ![v] = r] /\ vecs' \in Seq(Vecs) /\ DOMAIN vecs' = DOMAIN vecs
      /\ vecs'[v] = r /\ \A w \in DOMAIN vecs : w # v => vecs'[w] = vecs[w]
  BY <1>1, <1>3, <1>5, <1>r
<1>10. InGlue = {} /\ InGlue' = {} /\ Declared' = Declared /\ Elements(dropping) = {}
  BY <1>2 DEF InGlue, Nobody, Declared, Elements
<1> DEFINE D == {<<v, n>> : n \in 1 .. len}
<1>12. ToDestroy' = ToDestroy \cup D /\ ToDestroy \cap D = {}
  <2>1. \A n : <<v, n>> \notin ToDestroy
    BY <1>1, ToDestroyIs
  <2>2. ASSUME NEW x \in ToDestroy' PROVE x \in ToDestroy \cup D
    <3>1. PICK w \in DOMAIN vecs' : \E m \in 1 .. vecs'[w].len : x = <<w, m>> /\ ~vecs'[w].owned
      BY DEF ToDestroy
    <3>2. CASE w = v
      BY <1>5, <1>6, <3>1, <3>2
    <3>3. CASE w # v
      BY <1>6, <3>1, <3>3, ToDestroyIs
    <3> QED BY <3>2, <3>3
  <2>3. ASSUME NEW x \in ToDestroy PROVE x \in ToDestroy'
    <3>1. PICK w \in DOMAIN vecs : \E m \in 1 .. vecs[w].len : x = <<w, m>> /\ ~vecs[w].owned
      BY DEF ToDestroy
    <3>2. w # v
      BY <1>1, <3>1
    <3> QED BY <1>6, <3>1, <3>2 DEF ToDestroy
  <2>4. ASSUME NEW x \in D PROVE x \in ToDestroy'
    <3>1. PICK n \in 1 .. len : x = <<v, n>>
      OBVIOUS
    <3> QED BY <1>5, <1>6, <3>1 DEF ToDestroy
  <2> QED BY <2>1, <2>2, <2>3, <2>4
<1>9. CallInv'
  BY <1>2 DEF HInv, CallInv, Idle, Machine!Executing
<1>d. CASE crate.drops
  <2>1. /\ dropping' = [n \in 1 .. len |-> <<v, n>>] /\ dropping' \in Seq(Nat \X Nat)
        /\ DOMAIN dropping' = 1 .. len
    <3>1. dropping' = [n \in 1 .. len |-> <<v, n>>]
      BY <1>1, <1>4, <1>d
    <3>2. \A n \in 1 .. len : <<v, n>> \in Nat \X Nat
      BY <1>3
    <3> QED BY <3>1, <3>2
  <2>2. Elements(dropping') = D /\ Distinct(dropping')
    BY <2>1 DEF Elements, Distinct
  <2>3. Elements(dropping)' = Elements(dropping') /\ Distinct(dropping)'
    BY <2>2
  <2>4. DropInv'
    BY <1>2, <1>10, <1>12, <1>d, <2>2, <2>3 DEF HInv, DropInv
  <2>5. HTypeOK'
    BY <1>6, <2>1 DEF HTypeOK
  <2> QED BY <1>9, <2>4, <2>5 DEF HInv
<1>e. CASE ~crate.drops
  <2>1. dropping' = << >>
    BY <1>1, <1>e
  <2>2. Elements(dropping)' = {} /\ Distinct(dropping)'
    BY <2>1 DEF Elements, Distinct
  <2>3. DropInv'
    BY <1>2, <1>e, <2>1, <2>2 DEF HInv, DropInv
  <2>4. HTypeOK'
    BY <1>6, <2>1 DEF HTypeOK
  <2> QED BY <1>9, <2>3, <2>4 DEF HInv
<1> QED BY <1>d, <1>e

LEMMA CallStep ==
  ASSUME HInv, CallGetX \/ DropElement
  PROVE  HInv'
<1>1. CASE CallGetX
  BY <1>1, Begins DEF CallGetX
<1>2. CASE DropElement
  BY <1>2, Begins DEF DropElement
<1> QED BY <1>1, <1>2

LEMMA EnterStep == HInv /\ Enter => HInv'
<1> SUFFICES ASSUME HInv, Enter PROVE HInv'
  OBVIOUS
<1>1. ~Idle /\ UNCHANGED <<crate, calling, vecs, dropping, destroyed, again>>
  BY DEF Enter, destructions
<1>2. Underway' /\ bb = -1 /\ bb' = 0
  BY <1>1, CallEntered DEF HInv, CallInv
<1>3. HTypeOK'
  BY <1>1 DEF HInv, HTypeOK
<1>4. CallInv'
  BY <1>1, <1>2 DEF CallInv, Idle
<1>5. InGlue = {} /\ InGlue' = {} /\ Declared' = Declared /\ ToDestroy' = ToDestroy
  BY <1>1, <1>2 DEF InGlue, Declared, ToDestroy
<1>6. DropInv'
  BY <1>1, <1>5 DEF HInv, DropInv, Elements, Distinct
<1> QED BY <1>3, <1>4, <1>6 DEF HInv

\* An instruction of the body under way, the destructor's call among them.
LEMMA MoveStep == HInv /\ (Run \/ CallDestructor) => HInv'
<1> SUFFICES ASSUME HInv, Run \/ CallDestructor PROVE HInv'
  OBVIOUS
<1>1. Moves /\ UNCHANGED <<crate, calling, vecs, dropping>>
  BY DEF Moves, Run, CallDestructor
<1>2. Machine!Executing
  <2>1. \A f : Machine!CanCall(f) => Machine!Executing
    BY DEF Machine!CanCall, Machine!AtCall
  <2>2. \A o : Machine!AtStatement(o) => Machine!Executing
    BY DEF Machine!AtStatement
  <2>3. CallDestructor => Machine!Executing
    BY <2>1 DEF CallDestructor
  <2>4. Machine!Step => Machine!Executing
    BY <2>1, <2>2 DEF Machine!Step, Machine!ExecStorageLive, Machine!CanStorageLive,
       Machine!ExecStorageDead, Machine!CanStorageDead, Machine!ExecUse, Machine!CanUse,
       Machine!ExecRef, Machine!CanRef, Machine!ExecAggregate, Machine!CanAggregate,
       Machine!CallNew, Machine!CallPush, Machine!CanPush, Machine!CallLen,
       Machine!ExecReturn, Machine!CanReturn
  <2> QED BY <2>3, <2>4 DEF Run
<1>3. ~Idle /\ Underway
  BY <1>2 DEF HInv, CallInv
<1>4. /\ Underway'
      /\ calling.fn # "drop_in_place" => ~CallDestructor
      /\ calling.fn = "drop_in_place" =>
           \/ /\ Declared /\ bb = 0 /\ bb' = 1
              /\ destroyed' = destroyed \cup {Head(dropping)}
              /\ again' = again \cup (destroyed \cap {Head(dropping)})
           \/ ~CallDestructor /\ bb' = bb
  BY <1>1, <1>2, <1>3, CallMoves
<1>5. Declared' = Declared /\ ToDestroy' = ToDestroy
  BY <1>1 DEF Declared, ToDestroy
<1>6. CallInv' /\ HTypeOK'
  BY <1>1, <1>3, <1>4 DEF HInv, HTypeOK, CallInv, Idle
<1>e. Distinct(dropping)' /\ Elements(dropping)' = Elements(dropping)
  BY <1>1 DEF HInv, DropInv, Distinct, Elements
<1>7. CASE ~CallDestructor /\ (calling.fn = "drop_in_place" => bb' = bb)
  <2>1. destroyed' = destroyed /\ again' = again
    BY <1>7 DEF Run, destructions
  <2>2. InGlue' = InGlue
    BY <1>1, <1>7 DEF InGlue
  <2>3. DropInv'
    BY <1>1, <1>5, <1>e, <2>1, <2>2 DEF HInv, DropInv
  <2> QED BY <1>6, <2>3 DEF HInv
<1>8. CASE /\ calling.fn = "drop_in_place" /\ Declared /\ bb = 0 /\ bb' = 1
           /\ destroyed' = destroyed \cup {Head(dropping)}
           /\ again' = again \cup (destroyed \cap {Head(dropping)})
  <2>1. /\ dropping \in Seq(Nat \X Nat) /\ dropping # << >> /\ Distinct(dropping)
        /\ Elements(dropping) \subseteq ToDestroy
    BY <1>3, <1>8 DEF HInv, HTypeOK, DropInv, Underway
  <2>2. Head(dropping) \in Elements(dropping)
    BY <2>1, TailOf
  <2>3. InGlue = {} /\ InGlue' = {Head(dropping)}
    BY <1>1, <1>8 DEF InGlue
  <2>4. crate.drops /\ destroyed = ToDestroy \ Elements(dropping) /\ again = {}
    BY <1>8, <2>1, <2>3 DEF HInv, DropInv
  <2>5. again' = {}
    BY <1>8, <2>2, <2>4
  <2>6. DropInv'
    BY <1>1, <1>5, <1>8, <1>e, <2>1, <2>3, <2>4, <2>5 DEF DropInv
  <2> QED BY <1>6, <2>6 DEF HInv
<1> QED BY <1>4, <1>7, <1>8

\* The result of a call: after the glue's, an element is dropped.
LEMMA ResultStep == HInv /\ GetResult => HInv'
<1> SUFFICES ASSUME HInv, GetResult PROVE HInv'
  OBVIOUS
<1>1. /\ ~Idle /\ outcome.status = "returned" /\ calling' = Nobody
      /\ UNCHANGED <<crate, bb, outcome, vecs, destroyed, again>>
      /\ dropping' = IF calling.fn = "drop_in_place" THEN Tail(dropping) ELSE dropping
  BY DEF GetResult, machine, destructions
<1>2. Underway
  BY <1>1 DEF HInv, CallInv
<1>3. outcome # Machine!Running
  BY <1>1 DEF Machine!Running
<1>4. bb = LastBlock
  BY <1>2, <1>3 DEF Underway
<1>5. CallInv'
  BY <1>1, <1>3 DEF CallInv, Idle, Machine!Executing
<1>7. InGlue' = {} /\ Declared' = Declared /\ ToDestroy' = ToDestroy
  BY <1>1 DEF InGlue, Nobody, Declared, ToDestroy
<1>8. CASE calling.fn = "drop_in_place"
  <2>1. /\ dropping \in Seq(Nat \X Nat) /\ dropping # << >> /\ Distinct(dropping)
        /\ Elements(dropping) \subseteq ToDestroy
    BY <1>2, <1>8 DEF HInv, HTypeOK, DropInv, Underway
  <2>2. /\ dropping' \in Seq(Nat \X Nat) /\ Distinct(dropping')
        /\ Head(dropping) \in Elements(dropping)
        /\ Elements(dropping') = Elements(dropping) \ {Head(dropping)}
    BY <1>1, <1>8, <2>1, TailOf
  <2>3. Declared => InGlue = {Head(dropping)}
    BY <1>4, <1>8 DEF InGlue, LastBlock
  <2>4. crate.drops /\ again = {}
    BY <2>1 DEF HInv, DropInv
  <2>5. IF Declared THEN destroyed = ToDestroy \ Elements(dropping') ELSE destroyed = {}
    BY <2>1, <2>2, <2>3, <2>4 DEF HInv, DropInv
  <2>6. Distinct(dropping)' /\ Elements(dropping)' = Elements(dropping')
    BY <2>2
  <2>7. DropInv'
    BY <1>1, <1>7, <2>1, <2>2, <2>4, <2>5, <2>6 DEF DropInv
  <2>8. HTypeOK'
    BY <1>1, <2>2 DEF HInv, HTypeOK
  <2> QED BY <1>5, <2>7, <2>8 DEF HInv
<1>9. CASE calling.fn # "drop_in_place"
  <2>1. InGlue = {} /\ dropping' = dropping
    BY <1>1, <1>9 DEF InGlue
  <2>2. HTypeOK' /\ DropInv'
    BY <1>1, <1>7, <2>1 DEF HInv, HTypeOK, DropInv, Elements, Distinct
  <2> QED BY <1>5, <2>2 DEF HInv
<1> QED BY <1>8, <1>9

-----------------------------------------------------------------------------
(* HInv holds of every state of every host program.                          *)
THEOREM HostInvariant == HostSpec => []HInv
<1>1. HInv /\ [HostNext]_hostVars => HInv'
  <2> SUFFICES ASSUME HInv, [HostNext]_hostVars PROVE HInv'
    OBVIOUS
  <2>1. CASE UNCHANGED hostVars
    <3> USE <2>1 DEF hostVars, machine, body, destructions
    <3>1. HTypeOK'
      BY DEF HInv, HTypeOK
    <3>2. Answer' = Answer /\ LastBlock' = LastBlock /\ HostBody' = HostBody
      BY DEF Answer, LastBlock, Declared, HostBody, BuildHardcoded, GlueBody
    <3>3. (AtGetX => AtGetX') /\ (AtGlue => AtGlue')
      BY <3>2 DEF AtGetX, AtGlue
    <3>4. CallInv'
      BY <3>2, <3>3 DEF HInv, CallInv, Idle, Machine!Executing, Underway
    <3>5. DropInv'
      BY DEF HInv, DropInv, Declared, InGlue, ToDestroy, Elements, Distinct
    <3> QED BY <3>1, <3>4, <3>5 DEF HInv
  <2>2. CASE CallGetX \/ DropElement
    BY <2>2, CallStep
  <2>3. CASE HostVec
    BY <2>3, HostVecStep
  <2>4. CASE DropVec
    BY <2>4, DropVecStep
  <2>5. CASE Enter
    BY <2>5, EnterStep
  <2>6. CASE Run \/ CallDestructor
    BY <2>6, MoveStep
  <2>7. CASE GetResult
    BY <2>7, ResultStep
  <2> QED BY <2>1, <2>2, <2>3, <2>4, <2>5, <2>6, <2>7 DEF HostNext, Working
<1> QED BY <1>1, HInit, PTL DEF HostSpec

(* No instruction of a body written by hand is undefined, whatever the host   *)
(* program calls, whatever get_x's signature, however many Vecs it makes.     *)
(* An argument that a body does not declare is no part of this: get_x's is    *)
(* passed and not bound (ArgCountMatches of ToyHost is false).               *)
THEOREM NoUndefinedBehaviour == HostSpec => []NeverUndefined
<1>1. HInv => NeverUndefined
  <2> SUFFICES ASSUME HInv, Machine!Executing PROVE Machine!CanStep \/ Machine!CanCall("drop")
    BY DEF NeverUndefined
  <2>1. Underway
    BY DEF HInv, CallInv
  <2> QED BY <2>1, CallRuns
<1> QED BY <1>1, HostInvariant, PTL

(* The destructor is called once with each element of a dropped Vec: after a  *)
(* drop has ended, with all of them, and never with anything else.  Where no  *)
(* Drop impl or no destructor is declared, it is never called.               *)
THEOREM DropsOnce == HostSpec => []DestroyedOnce
<1>1. HInv => DestroyedOnce
  <2> SUFFICES ASSUME HInv PROVE DestroyedOnce
    OBVIOUS
  <2>1. InGlue \subseteq ToDestroy
    <3>1. CASE calling.fn = "drop_in_place" /\ bb = 1
      <4>1. ~Idle
        BY <3>1 DEF Idle, Nobody
      <4>2. dropping # << >>
        BY <3>1, <4>1 DEF HInv, CallInv, Underway
      <4>3. Head(dropping) \in Elements(dropping)
        BY <4>2, TailOf DEF HInv, HTypeOK, DropInv
      <4> QED BY <3>1, <4>3 DEF HInv, DropInv, InGlue
    <3> QED BY <3>1 DEF InGlue
  <2>2. Idle => InGlue = {}
    BY DEF Idle, Nobody, InGlue
  <2> QED BY <2>1, <2>2 DEF HInv, DropInv, DestroyedOnce, Elements
<1> QED BY <1>1, HostInvariant, PTL
=============================================================================
