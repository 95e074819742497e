------------------------------ MODULE ToyChecks -----------------------------
(***************************************************************************)
(* What rustc's checks would demand of a body as to its types and moves.    *)
(* They are not run on it: mir_borrowck answers for Toylang items without    *)
(* looking, and a body that is put in place of mir_built is never            *)
(* type-checked.  Loans and lifetimes are left out.                          *)
(***************************************************************************)
EXTENDS ToyLowerProps

Entry == <<0, 0>>   \* a place before all sites, where the arguments are written

Writes(s, l) == s.op \notin Storage \cup {"Return"} /\ s.place = l
Clears(s, l) ==
  \/ s.op \in Storage /\ s.place = l
  \/ TypeOf(l) \notin CopyTypes /\ \E i \in DOMAIN s.operands : s.operands[i] = Move(l)
Changes(s, l) == Writes(s, l) \/ Clears(s, l)

\* Between q and p nothing is done to l.
Since(q, p, l) ==
  /\ Precedes(q, p)
  /\ \A c \in Sites : Changes(At(c), l) => ~(Precedes(q, c) /\ Precedes(c, p))

\* When the body gets to p, l has a value: it is an argument or was written,
\* and has not been moved nor died since.
Initialised(p, l) ==
  \/ l \in 1 .. ArgPairs /\ Since(Entry, p, l)
  \/ \E q \in Sites : Writes(At(q), l) /\ Since(q, p, l)

\* When the body gets to p, r holds the borrow of a Vec, which has a value.
BorrowsVec(p, r) ==
  \E q \in Sites : /\ At(q).op = "Ref" /\ At(q).place = r /\ Since(q, p, r)
                   /\ Initialised(p, At(q).operands[1].arg)

OperandType(o) == IF o.mode = "const" THEN "i32" ELSE TypeOf(o.arg)
OperandsTyped(s) ==
  /\ s.op = "Ref"       => TypeOf(s.operands[1].arg) = "Vec"
  /\ s.op = "Aggregate" => /\ Len(s.operands) = 2
                           /\ \A i \in 1 .. 2 : OperandType(s.operands[i]) = "i32"
  /\ s.op = "Call"      => /\ Len(s.operands) = Len(Inputs(s.func))
                           /\ \A i \in DOMAIN s.operands :
                                OperandType(s.operands[i]) = Inputs(s.func)[i]

Checked(p) ==
  LET s == At(p) IN
    /\ OperandsTyped(s)
    /\ \A l \in ReadBy(s) : Initialised(p, l)
    /\ Writes(s, 0) => TypeOf(0) = Produced(s)
    /\ s.op = "Call" /\ s.func = "push" => BorrowsVec(p, s.operands[1].arg)
    /\ s.op = "Return" => TypeOf(0) = "unit" \/ Initialised(p, 0)

\* arg_count is the number of argument locals, and every instruction is right.
PassesChecks == Len(fn.inputs) = ArgPairs /\ \A p \in Sites : Checked(p)
=============================================================================
