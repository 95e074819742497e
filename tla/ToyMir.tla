------------------------------- MODULE ToyMir -------------------------------
(***************************************************************************)
(* The fragment of rustc's MIR that this compiler writes: operands, the     *)
(* statements StorageLive, StorageDead and Assign, and the terminators Call *)
(* and Return.  A local is its index (_0 is 0), a block index is 0-based as *)
(* in rustc, and the sequence of blocks is 1-based as in TLA+: block b is    *)
(* blocks[b + 1].                                                           *)
(***************************************************************************)
EXTENDS Integers, Sequences

Move(l)   == [mode |-> "move",   arg |-> l]
Copy(l)   == [mode |-> "copy",   arg |-> l]
Borrow(l) == [mode |-> "borrow", arg |-> l]    \* the place of Rvalue::Ref
Const(n)  == [mode |-> "const",  arg |-> n]

StorageLive(l)    == [op |-> "StorageLive", place |-> l, operands |-> << >>]
StorageDead(l)    == [op |-> "StorageDead", place |-> l, operands |-> << >>]
Use(l, o)         == [op |-> "Use",         place |-> l, operands |-> <<o>>]
Ref(l, r)         == [op |-> "Ref",         place |-> l, operands |-> <<Borrow(r)>>]
Aggregate(l, os)  == [op |-> "Aggregate",   place |-> l, operands |-> os]

Call(f, os, l, t) ==
  [op |-> "Call", func |-> f, operands |-> os, place |-> l, target |-> t]
Return ==
  [op |-> "Return", func |-> "none", operands |-> << >>, place |-> 0, target |-> 0]

BasicBlock(ss, t) == [statements |-> ss, terminator |-> t]

-----------------------------------------------------------------------------
\* The same things as sets: all of them over the locals 0 .. n-1.
OperandOf(n) == [mode : {"move", "copy", "borrow"}, arg : 0 .. n - 1]
                  \cup [mode : {"const"}, arg : Int]
StatementOf(n) ==
  [op : {"StorageLive", "StorageDead", "Use", "Ref", "Aggregate"},
   place : 0 .. n - 1, operands : Seq(OperandOf(n))]
TerminatorOf(n) ==
  [op : {"Call", "Return"}, func : {"new", "push", "len", "drop", "none"},
   operands : Seq(OperandOf(n)), place : 0 .. n - 1, target : Nat]
BlockOf(n) == [statements : Seq(StatementOf(n)), terminator : TerminatorOf(n)]

-----------------------------------------------------------------------------
\* Rust types the compiler names, and which of them are Copy.
Types == {"i32", "usize", "unit", "Point", "Vec", "&mutVec", "&Vec"}
CopyTypes == {"i32", "usize", "unit", "&Vec", "*mutPoint"}

\* Signatures of the three Vec methods that are called, and of a destructor.
Inputs(f) == CASE f = "new"  -> << >>
               [] f = "push" -> <<"&mutVec", "Point">>
               [] f = "len"  -> <<"&Vec">>
               [] f = "drop" -> <<"*mutPoint">>
Output(f) == CASE f = "new" -> "Vec" [] f = "push" -> "unit" [] f = "len" -> "usize"
               [] f = "drop" -> "unit"
=============================================================================
