----------------------------- MODULE MirMachine -----------------------------
(***************************************************************************)
(* What rustc and the Vec of the standard library make of a MIR body: one   *)
(* call of it, instruction by instruction.  This is the compiler's          *)
(* environment, not its code: a body that gets stuck here is one that rustc *)
(* may miscompile, or abort on.                                             *)
(*                                                                         *)
(* A value is its type and its contents: a number, the two fields of a      *)
(* Point, the elements of a Vec (also behind an &Vec, whose owner is the    *)
(* caller), or the local that an &mut Vec borrows.                          *)
(***************************************************************************)
EXTENDS ToyMir

VARIABLES
  locals,   \* the type of each local, _0 first
  blocks,   \* the body
  bb, ip,   \* the block and the instruction in it to execute next
  live,     \* the locals that have storage
  mem,      \* local -> value or Uninit
  outcome   \* Running or Returned(value)

machine == <<bb, ip, live, mem, outcome>>

Value(t, v) == [type |-> t, is |-> v]
Uninit      == Value("uninit", 0)
Unit        == Value("unit", 0)

Running     == [status |-> "running"]
Returned(v) == [status |-> "returned", value |-> v]

\* Before the body is called.
NotCalled ==
  bb = -1 /\ ip = 1 /\ live = {} /\ mem = << >> /\ outcome = Running

\* A call of a body that declares arg_count arguments: they are in _1 .. _arg_count,
\* and _0 waits for the result.  A value passed beyond them has no local to be in.
Enter(args, arg_count) ==
  /\ bb = -1
  /\ bb' = 0
  /\ live' = 0 .. arg_count
  /\ mem' = [l \in 0 .. Len(locals) - 1 |-> IF l \in 1 .. arg_count THEN args[l] ELSE Uninit]
  /\ UNCHANGED <<ip, outcome>>

Block == blocks[bb + 1]
Executing == bb >= 0 /\ outcome = Running
Stmt == Block.statements[ip]
AtStatement(op) == Executing /\ ip <= Len(Block.statements) /\ Stmt.op = op
AtCall(f) ==
  /\ Executing /\ ip = Len(Block.statements) + 1
  /\ Block.terminator.op = "Call" /\ Block.terminator.func = f

Valid(l)    == l \in live /\ mem[l].type # "uninit"
Readable(o) == o.mode = "const" \/ Valid(o.arg)
Read(o)     == IF o.mode = "const" THEN Value("i32", o.arg) ELSE mem[o.arg]

\* Moving out of a place of a type that is not Copy leaves it uninitialised.
MovedOut(os) ==
  {l \in DOMAIN mem : /\ locals[l + 1] \notin CopyTypes
                      /\ \E i \in DOMAIN os : os[i] = Move(l)}

\* Memory after the operands os are consumed and v is stored in l.
Stored(os, l, v) ==
  [m \in DOMAIN mem |-> IF m = l THEN v ELSE IF m \in MovedOut(os) THEN Uninit ELSE mem[m]]

\* A value of type t may be written to l.
Writable(l, t) == l \in live /\ locals[l + 1] = t

-----------------------------------------------------------------------------
(* For each instruction: when it may run, and what it does.                  *)

CanStorageLive == AtStatement("StorageLive") /\ Stmt.place \notin live
ExecStorageLive ==
  /\ CanStorageLive
  /\ live' = live \cup {Stmt.place}
  /\ mem' = [mem EXCEPT ![Stmt.place] = Uninit]
  /\ ip' = ip + 1
  /\ UNCHANGED <<bb, outcome>>

CanStorageDead == AtStatement("StorageDead")
ExecStorageDead ==
  /\ CanStorageDead
  /\ live' = live \ {Stmt.place}
  /\ mem' = [mem EXCEPT ![Stmt.place] = Uninit]
  /\ ip' = ip + 1
  /\ UNCHANGED <<bb, outcome>>

CanUse ==
  /\ AtStatement("Use")
  /\ Readable(Stmt.operands[1]) /\ Writable(Stmt.place, Read(Stmt.operands[1]).type)
ExecUse ==
  /\ CanUse
  /\ mem' = Stored(Stmt.operands, Stmt.place, Read(Stmt.operands[1]))
  /\ ip' = ip + 1
  /\ UNCHANGED <<bb, live, outcome>>

CanRef ==
  /\ AtStatement("Ref")
  /\ LET r == Stmt.operands[1].arg IN Valid(r) /\ mem[r].type = "Vec"
  /\ Writable(Stmt.place, "&mutVec")
ExecRef ==
  /\ CanRef
  /\ mem' = [mem EXCEPT ![Stmt.place] = Value("&mutVec", Stmt.operands[1].arg)]
  /\ ip' = ip + 1
  /\ UNCHANGED <<bb, live, outcome>>

\* Point's fields are two i32, in the order of its declaration.
CanAggregate ==
  /\ AtStatement("Aggregate")
  /\ Len(Stmt.operands) = 2
  /\ \A i \in 1 .. 2 : Readable(Stmt.operands[i]) /\ Read(Stmt.operands[i]).type = "i32"
  /\ Writable(Stmt.place, "Point")
ExecAggregate ==
  /\ CanAggregate
  /\ LET os == Stmt.operands IN
       mem' = Stored(os, Stmt.place, Value("Point", <<Read(os[1]).is, Read(os[2]).is>>))
  /\ ip' = ip + 1
  /\ UNCHANGED <<bb, live, outcome>>

\* The call at hand is one of f, its arguments are values of f's input types,
\* and its destination takes a value of the output type.
CanCall(f) ==
  /\ AtCall(f)
  /\ LET t == Block.terminator IN
       /\ Len(t.operands) = Len(Inputs(f))
       /\ \A i \in DOMAIN t.operands :
            Readable(t.operands[i]) /\ Read(t.operands[i]).type = Inputs(f)[i]
       /\ Writable(t.place, Output(f))

Jump == bb' = Block.terminator.target /\ ip' = 1 /\ UNCHANGED <<live, outcome>>

CallNew ==
  /\ CanCall("new")
  /\ mem' = [mem EXCEPT ![Block.terminator.place] = Value("Vec", << >>)]
  /\ Jump

Pushed == Read(Block.terminator.operands[1]).is   \* the local that is borrowed
CanPush == CanCall("push") /\ Valid(Pushed) /\ mem[Pushed].type = "Vec"
CallPush ==
  /\ CanPush
  /\ LET t == Block.terminator IN
       mem' = [Stored(t.operands, t.place, Unit)
                 EXCEPT ![Pushed] = Value("Vec", Append(mem[Pushed].is, Read(t.operands[2]).is))]
  /\ Jump

CallLen ==
  /\ CanCall("len")
  /\ LET t == Block.terminator IN
       mem' = [mem EXCEPT ![t.place] = Value("usize", Len(Read(t.operands[1]).is))]
  /\ Jump

\* A unit return place needs no write.
CanReturn ==
  /\ Executing /\ ip = Len(Block.statements) + 1 /\ Block.terminator.op = "Return"
  /\ locals[1] = "unit" \/ Valid(0)
ExecReturn ==
  /\ CanReturn
  /\ outcome' = Returned(IF locals[1] = "unit" THEN Unit ELSE mem[0])
  /\ UNCHANGED <<bb, ip, live, mem>>

Step ==
  \/ ExecStorageLive \/ ExecStorageDead
  \/ ExecUse \/ ExecRef \/ ExecAggregate
  \/ CallNew \/ CallPush \/ CallLen
  \/ ExecReturn

\* The next instruction may run: exactly when Step is enabled, as each of its
\* actions is what Can... says and an assignment to every variable.
CanStep ==
  \/ CanStorageLive \/ CanStorageDead
  \/ CanUse \/ CanRef \/ CanAggregate
  \/ CanCall("new") \/ CanPush \/ CanCall("len")
  \/ CanReturn

\* The next instruction's preconditions do not hold: undefined behaviour.
Stuck == Executing /\ ~CanStep
=============================================================================
