--------------------------- MODULE ToyLowerProps ---------------------------
(***************************************************************************)
(* What the lowering guarantees about the body it writes, whatever program  *)
(* it is given: well-typed or not, scoped or not.                           *)
(***************************************************************************)
EXTENDS ToyLower, FiniteSets

(* The program text written so far: block by block, the block in progress   *)
(* last.  A site is a place in it; a block's terminator is its last site.   *)
InProgress == Len(blocks) + 1
Text(b) == IF b \in DOMAIN blocks THEN blocks[b].statements ELSE current
StatementSites == UNION {{<<b, i>> : i \in 1 .. Len(Text(b))} : b \in 1 .. InProgress}
TerminatorSites == {<<b, Len(Text(b)) + 1>> : b \in DOMAIN blocks}
Sites == StatementSites \cup TerminatorSites
At(p) == IF p \in StatementSites THEN Text(p[1])[p[2]] ELSE blocks[p[1]].terminator

Precedes(p, q) == p[1] < q[1] \/ (p[1] = q[1] /\ p[2] < q[2])

Storage == {"StorageLive", "StorageDead"}
LiveSites(l) == {p \in StatementSites : At(p) = StorageLive(l)}
DeadSites(l) == {p \in StatementSites : At(p) = StorageDead(l)}

\* The locals an instruction reads, borrows or writes.
ReadBy(s) == {s.operands[i].arg :
                i \in {j \in DOMAIN s.operands : s.operands[j].mode # "const"}}
UsedBy(s) == CASE s.op \in Storage  -> {}
               [] s.op = "Return"   -> {0}
               [] OTHER             -> {s.place} \cup ReadBy(s)
UseSites(l) == {p \in StatementSites \cup TerminatorSites : l \in UsedBy(At(p))}

\* The locals allocated by alloc_local: neither _0 nor a bound parameter.
Allocated == {l \in Locals : l > ArgPairs}

-----------------------------------------------------------------------------
\* The frames that fit n locals.
StructLits == {e \in Exprs : e.k = "StructLit"}
FrameOf(n) ==
  [f : {"eval"}, expr : Exprs, dest : 0 .. n - 1]
    \cup [f : {"fields"}, done : Nat, tmps : Seq(0 .. n - 1),
             expr : StructLits, dest : 0 .. n - 1]
    \cup [f : {"push"}, ref : 0 .. n - 1, arg : 0 .. n - 1, dest : 0 .. n - 1]
    \cup [f : {"dead"}, tmp : 0 .. n - 1]

(* Every local that a statement, a terminator, the variable map or a         *)
(* pending call mentions has been allocated, and every field has its type.   *)
(* Code: each index handed out by alloc_local is pushed to locals first.     *)
TypeOK ==
  /\ fn \in Functions
  /\ phase \in {"resolve", "params", "body", "done", "panicked"}
  /\ next \in Nat \ {0}
  /\ locals \in Seq(Types)
  /\ localMap \in [Names -> {Unbound} \cup Locals]
  /\ blocks \in Seq(BlockOf(Len(locals)))
  /\ current \in Seq(StatementOf(Len(locals)))
  /\ frames \in Seq(FrameOf(Len(locals)))

(* The control-flow graph is a chain: the call that ends block b continues   *)
(* in block b + 1, and only the last block of a finished body returns, so    *)
(* every branch target exists.  Code: next_bb is computed before             *)
(* finalize_block pushes the block (lower.rs:182, 241, 287).                 *)
BlocksChained ==
  \A i \in DOMAIN blocks :
    LET t == blocks[i].terminator IN
      IF i = Len(blocks) /\ phase = "done"
        THEN t.op = "Return"
        ELSE t.op = "Call" /\ t.target = i

(* Every local made by alloc_local has exactly one StorageLive, and no other *)
(* local has any (the first half of rule 1 of the MIR validity rules).       *)
StorageLiveOnce ==
  \A l \in Locals :
    LET lives == LiveSites(l) IN
      IF l \in Allocated THEN \E p \in lives : lives = {p} ELSE lives = {}

(* No instruction touches an allocated local before its StorageLive or       *)
(* after its StorageDead; a call's arguments are alive across the call.      *)
UsedWhileStored ==
  \A l \in Allocated : \A p \in UseSites(l) :
    /\ \E q \in LiveSites(l) : Precedes(q, p)
    /\ \A q \in DeadSites(l) : Precedes(p, q)

(* In a finished body every temporary has exactly one StorageDead, and the   *)
(* locals that never get one are exactly as many as the let statements: no   *)
(* temporary's storage is leaked by a nested or successive call.             *)
TemporariesDie ==
  phase = "done" =>
    /\ \A l \in Locals : Cardinality(DeadSites(l)) <= 1
    /\ Cardinality({l \in Allocated : DeadSites(l) = {}})
         = Cardinality({i \in 1 .. Len(fn.stmts) : fn.stmts[i].k = "Let"})

\* The type an instruction produces.
Produced(s) == CASE s.op = "Call"      -> Output(s.func)
                 [] s.op = "Aggregate" -> "Point"
                 [] s.op = "Ref"       -> "&mutVec"
                 [] s.op = "Use" /\ s.operands[1].mode = "const" -> "i32"
                 [] s.op = "Use" /\ s.operands[1].mode = "move"
                                       -> TypeOf(s.operands[1].arg)

(* The type infer_ty predicts for a let or a temporary is the type of what   *)
(* lower_expr_into then stores there, also when the name is being shadowed.  *)
DeclaredTypeHolds ==
  \A p \in StatementSites \cup TerminatorSites :
    LET s == At(p) IN
      (s.op \notin Storage \cup {"Return"} /\ s.place # 0) => TypeOf(s.place) = Produced(s)

(* The lowering of any body ends, with a body or with a panic.               *)
Terminates == <>(phase \in {"done", "panicked"})

-----------------------------------------------------------------------------
(* A statement of the source that the lowering does not keep.                *)

(* lower.rs:273: the receiver of len is already &Vec, so it is copied; with   *)
(* a Vec that a let binds it is not.                                         *)
LenReceiverIsRef ==
  \A i \in DOMAIN blocks :
    blocks[i].terminator.op = "Call" /\ blocks[i].terminator.func = "len"
      => TypeOf(blocks[i].terminator.operands[1].arg) = "&Vec"
=============================================================================
