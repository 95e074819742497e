------------------------------- MODULE ToyHost ------------------------------
(***************************************************************************)
(* A Rust program like tests/mir_test.rs and tests/drop_test.rs, linked     *)
(* with the bodies of ToyShims: it calls get_x whenever it likes, and makes, *)
(* extends and drops Vecs of Points.  Dropping a Vec is the standard         *)
(* library's work: it calls drop_in_place, the drop glue, for each element   *)
(* if the element type needs drop.  The bodies run on MirMachine, the        *)
(* destructor is a foreign function.                                         *)
(***************************************************************************)
EXTENDS ToyShims

CONSTANTS
  Crates,    \* what the queries see of a host crate: its foreign functions in
             \* definition order, the inputs of its stub get_x, and whether
             \* Point implements Drop, so that its drop glue is not the empty one
  MaxVecs,   \* Vecs made in a run
  MaxLen     \* elements of a Vec

VARIABLES
  crate,
  calling,                  \* the call under way, or Nobody
  locals, blocks, arg_count, \* its body
  bb, ip, live, mem, outcome, \* the machine
  vecs,      \* the Vecs made so far: how many elements, and whether dropped
  dropping,  \* the elements still to be dropped, by address
  destroyed, \* the addresses the destructor was called with
  again      \* those it was called with more than once

machine == <<bb, ip, live, mem, outcome>>
body == <<locals, blocks, arg_count>>
destructions == <<destroyed, again>>
hostVars == <<crate, calling, body, machine, vecs, dropping, destructions>>

Machine == INSTANCE MirMachine

Nobody == [fn |-> "none", args |-> << >>]
Idle == calling = Nobody
Declared == FindExternFn(crate.foreign, "__toylang_drop_Point") # 0

HostInit ==
  /\ crate \in Crates
  /\ calling = Nobody /\ Machine!NotCalled
  /\ locals = << >> /\ blocks = << >> /\ arg_count = 0
  /\ vecs = << >> /\ dropping = << >> /\ destroyed = {} /\ again = {}

\* What build_hardcoded returns for get_x, the only name it has a body for.
BuildHardcoded == ConstI32Body(42)
\* What toy_mir_shims returns for DropGlue(_, Some(Point)).
GlueBody == DropCallBody(crate.foreign)

\* The machine is set to b, the body of f, and enters it in the next step.
Begin(f, args, b) ==
  /\ Idle
  /\ calling' = [fn |-> f, args |-> args]
  /\ locals' = b.locals /\ blocks' = b.blocks /\ arg_count' = b.arg_count
  /\ bb' = -1 /\ ip' = 1 /\ live' = {} /\ mem' = << >> /\ outcome' = Machine!Running
  /\ UNCHANGED <<crate, vecs, dropping, destructions>>

Rest == Idle /\ dropping = << >>

\* get_x is passed what its signature asks for.
CallGetX ==
  /\ Rest
  /\ Begin("get_x", [i \in DOMAIN crate.get_x |-> Machine!Value(crate.get_x[i], <<5, 6>>)],
           BuildHardcoded)
HostVec ==
  /\ Rest
  /\ \/ Len(vecs) < MaxVecs /\ vecs' = Append(vecs, [owned |-> TRUE, len |-> 0])
     \/ \E v \in DOMAIN vecs :
          /\ vecs[v].owned /\ vecs[v].len < MaxLen
          /\ vecs' = [vecs EXCEPT ![v].len = @ + 1]
  /\ UNCHANGED <<crate, calling, body, machine, dropping, destructions>>
DropVec ==
  \E v \in DOMAIN vecs :
    /\ Rest /\ vecs[v].owned
    /\ dropping' = IF crate.drops THEN [n \in 1 .. vecs[v].len |-> <<v, n>>] ELSE << >>
    /\ vecs' = [vecs EXCEPT ![v].owned = FALSE]
    /\ UNCHANGED <<crate, calling, body, machine, destructions>>
DropElement ==
  /\ dropping # << >>
  /\ Begin("drop_in_place", <<Machine!Value("*mutPoint", Head(dropping))>>, GlueBody)

Enter ==
  /\ ~Idle /\ Machine!Enter(calling.args, arg_count)
  /\ UNCHANGED <<crate, calling, body, vecs, dropping, destructions>>
Run ==
  /\ Machine!Step
  /\ UNCHANGED <<crate, calling, body, vecs, dropping, destructions>>

\* The foreign function __toylang_drop_Point.
CallDestructor ==
  /\ Machine!CanCall("drop")
  /\ LET t == Machine!Block.terminator
         a == Machine!Read(t.operands[1]).is IN
       /\ mem' = [mem EXCEPT ![t.place] = Machine!Unit]
       /\ destroyed' = destroyed \cup {a}
       /\ again' = again \cup (destroyed \cap {a})
  /\ Machine!Jump
  /\ UNCHANGED <<crate, calling, body, vecs, dropping>>

GetResult ==
  /\ ~Idle /\ outcome.status = "returned"
  /\ calling' = Nobody
  /\ dropping' = IF calling.fn = "drop_in_place" THEN Tail(dropping) ELSE dropping
  /\ UNCHANGED <<crate, body, machine, vecs, destructions>>

Working == DropElement \/ Enter \/ Run \/ CallDestructor \/ GetResult
HostNext == CallGetX \/ HostVec \/ DropVec \/ Working

\* The host may stop calling, but a call or a drop that is under way goes on.
HostSpec == HostInit /\ [][HostNext]_hostVars /\ WF_hostVars(Working)

-----------------------------------------------------------------------------
\* The elements of the dropped Vecs.
ToDestroy ==
  UNION {{<<v, n>> : n \in 1 .. vecs[v].len} : v \in {w \in DOMAIN vecs : ~vecs[w].owned}}

(* If Point implements Drop and the crate declares the destructor, it is      *)
(* called exactly once with each element of a Vec that was dropped, and with  *)
(* nothing else: no leak, no double drop.  While the glue of an element runs  *)
(* it may or may not be destroyed yet.  Otherwise it is never called: glue    *)
(* for an undeclared destructor does nothing (build_drop_call_body).          *)
DestroyedOnce ==
  LET waiting == {dropping[n] : n \in DOMAIN dropping}
  IN IF crate.drops /\ Declared
       THEN /\ again = {} /\ destroyed \subseteq ToDestroy
            /\ Idle => destroyed = ToDestroy \ waiting
       ELSE destroyed = {}

(* No body written by hand reaches an instruction whose preconditions do not *)
(* hold: the drop glue declares the pointer it passes on, and no body touches *)
(* what it does not declare.  Whether a body declares all it is passed is     *)
(* ArgCountMatches's question.                                              *)
NeverUndefined == Machine!Executing => Machine!CanStep \/ Machine!CanCall("drop")

(* A call returns and a drop reaches the last element: the host is never     *)
(* caught in a body of build_const_i32_body or build_drop_call_body.         *)
CallsReturn == ~Rest ~> Rest

(* "The arg_count field must match the number of argument locals (and        *)
(* fn_sig.inputs().len())" (implemented.md:705): a body is called with as     *)
(* many arguments as it declares.                                            *)
ArgCountMatches == ~Idle => Len(calling.args) = arg_count
=============================================================================
