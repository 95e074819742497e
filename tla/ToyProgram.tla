----------------------------- MODULE ToyProgram -----------------------------
(***************************************************************************)
(* A Toylang function on its way from source to result: ToyLower writes the *)
(* body, and once it is done the compiled program calls it (MirMachine).    *)
(***************************************************************************)
EXTENDS ToyLower

CONSTANT ArgValues(_)   \* the values an argument of a type may have

VARIABLES args, bb, ip, live, mem, outcome

machine == <<bb, ip, live, mem, outcome>>
system  == <<vars, args, machine>>

Machine == INSTANCE MirMachine

\* The unit type has one value.
ASSUME ArgValuesAssumption ==
  \A t \in Types : \A v \in ArgValues(t) : v.type = "unit" => v = Machine!Unit

\* Argument lists that fit the signature.
Arguments(f) == {as \in [1 .. Len(f.inputs) -> UNION {ArgValues(t) : t \in Types}] :
                   \A i \in DOMAIN as : as[i].type = f.inputs[i]}

CompileInit ==
  /\ Init
  /\ args \in Arguments(fn)
  /\ Machine!NotCalled

Compile == Next /\ UNCHANGED <<args, machine>>

\* The caller passes what the stub's signature asks for, and arg_count is read
\* off the same signature.
CallIt ==
  /\ phase = "done"
  /\ Machine!Enter(args, Len(fn.inputs))
  /\ UNCHANGED <<vars, args>>

Run == Machine!Step /\ UNCHANGED <<vars, args>>

CompileNext == Compile \/ CallIt \/ Run

\* Neither the compiler nor the program waits for anything.
CompileSpec == CompileInit /\ [][CompileNext]_system /\ WF_system(CompileNext)

-----------------------------------------------------------------------------
(* Every instruction that runs meets the preconditions rustc and Vec put on  *)
(* it: no local is used before it is written, after it died or after it was  *)
(* moved, and every value has the type of the place it is stored in.         *)
NeverUndefined == ~Machine!Stuck
=============================================================================
