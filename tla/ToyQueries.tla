----------------------------- MODULE ToyQueries -----------------------------
(***************************************************************************)
(* A session of the toylangc driver: the command line is read, the registry *)
(* is installed in the statics of the four query modules, rustc's providers *)
(* are saved and overridden, and then rustc's worker threads demand queries  *)
(* (src/main.rs, src/callbacks.rs, src/queries).                            *)
(*                                                                         *)
(* rustc's part is external: a query runs once, on the thread that demands   *)
(* it first, and its answer is kept; other threads that need it wait.        *)
(***************************************************************************)
EXTENDS ToyCrate

CONSTANTS
  Threads,       \* rustc's worker threads
  CommandLines,  \* the arguments the driver may be started with
  Roots,         \* the keys that rustc's analysis and code generation demand
  Needs(_),      \* the keys that rustc's own provider of a key demands
  Unset          \* what a OnceLock holds before it is set

ASSUME UnsetAssumption == Unset \notin Registries /\ Unset \notin {"rustc", "toylang"}

ASSUME CommandLinesAssumption == CommandLines \subseteq Seq(STRING)

ASSUME RootsAssumption == Roots \subseteq Keys /\ \A k \in Keys : Needs(k) \subseteq Keys

VARIABLES
  argv,       \* the command line
  phase,      \* "start", "config", "session", "queries", "rejected" or "panicked"
  args,       \* the arguments that are left for rustc
  loaded,     \* the registry that main hands to ToyCallbacks
  registry,   \* query -> what the REGISTRY static of its module holds
  default,    \* query -> what the DEFAULT static of its module holds
  provider,   \* query -> rustc's table of providers
  answer,     \* key -> answer or Pending: rustc's query cache
  stack       \* thread -> the provider calls it is in, innermost last

vars == <<argv, phase, args, loaded, registry, default, provider, answer, stack>>

Contract == INSTANCE QueryContract
Pending  == Contract!Pending

\* OnceLock::set, deaf to any but the first call.
SetOnce(cell, value) == IF cell = Unset THEN value ELSE cell

\* A provider call in progress: the code it is in, and the key it is about.
Call(code, k) == [in |-> code, key |-> k]
Top(t)    == stack[t][Len(stack[t])]
Popped(t) == SubSeq(stack[t], 1, Len(stack[t]) - 1)
At(t, code) == phase = "queries" /\ stack[t] # << >> /\ Top(t).in = code

Started(k) == \E t \in Threads : \E d \in DOMAIN stack[t] : stack[t][d].key = k
Startable(k) == answer[k] = Pending /\ ~Started(k)

-----------------------------------------------------------------------------
Init ==
  /\ argv \in CommandLines
  /\ phase = "start"
  /\ args = argv
  /\ loaded = Unset
  /\ registry = [q \in Queries |-> Unset]
  /\ default = [q \in Queries |-> Unset]
  /\ provider = [q \in Queries |-> "rustc"]
  /\ answer = [k \in Keys |-> Pending]
  /\ stack = [t \in Threads |-> << >>]

\* The first --toylang-input, if it is followed by a path.
FlagAt == {p \in DOMAIN args : args[p] = Flag /\ \A o \in 1 .. p - 1 : args[o] # Flag}
WithPath == {p \in FlagAt : p + 1 <= Len(args)}

(* extract_registry, on a file that can be read and parsed.                 *)
LoadFile ==
  /\ phase = "start"
  /\ \E p \in WithPath :
       /\ args[p + 1] \in Readable
       /\ loaded' = Files[args[p + 1]]
       /\ args' = SubSeq(args, 1, p - 1) \o SubSeq(args, p + 2, Len(args))
  /\ phase' = "config"
  /\ UNCHANGED <<argv, registry, default, provider, answer, stack>>

(* extract_registry panics on a file that it cannot read or parse.          *)
LoadBadFile ==
  /\ phase = "start"
  /\ \E p \in WithPath : args[p + 1] \notin Readable
  /\ phase' = "panicked"
  /\ UNCHANGED <<argv, args, loaded, registry, default, provider, answer, stack>>

(* extract_registry without a flag that has a path.                         *)
LoadHardcoded ==
  /\ phase = "start"
  /\ WithPath = {}
  /\ loaded' = HardcodedPoint
  /\ phase' = "config"
  /\ UNCHANGED <<argv, args, registry, default, provider, answer, stack>>

(* External: rustc does not know a flag that is left over.                  *)
RejectArgs ==
  /\ phase = "config"
  /\ \E p \in DOMAIN args : args[p] = Flag
  /\ phase' = "rejected"
  /\ UNCHANGED <<argv, args, loaded, registry, default, provider, answer, stack>>

\* Mistake: the borrow checker's module is not given the registry.
ConfigWithoutBorrowck ==
  /\ phase = "config"
  /\ \A p \in DOMAIN args : args[p] # Flag
  /\ registry' = [q \in Queries |-> IF q = "mir_borrowck" THEN registry[q]
                                    ELSE SetOnce(registry[q], loaded)]
  /\ phase' = "session"
  /\ UNCHANGED <<argv, args, loaded, default, provider, answer, stack>>

(* ToyCallbacks::config: install_registry in each of the four modules.      *)
Config ==
  /\ phase = "config"
  /\ \A p \in DOMAIN args : args[p] # Flag
  /\ registry' = [q \in Queries |-> SetOnce(registry[q], loaded)]
  /\ phase' = "session"
  /\ UNCHANGED <<argv, args, loaded, default, provider, answer, stack>>

\* Mistake: the overrides are installed before the defaults are saved.
OverrideQueriesFirst ==
  /\ phase = "session"
  /\ provider' = [q \in Queries |-> "toylang"]
  /\ default' = [q \in Queries |-> SetOnce(default[q], provider'[q])]
  /\ phase' = "queries"
  /\ UNCHANGED <<argv, args, loaded, registry, answer, stack>>

\* Mistake: the default of mir_borrowck is not saved.
OverrideQueriesLosesBorrowck ==
  /\ phase = "session"
  /\ default' = [q \in Queries |-> IF q = "mir_borrowck" THEN default[q]
                                   ELSE SetOnce(default[q], provider[q])]
  /\ provider' = [q \in Queries |-> "toylang"]
  /\ phase' = "queries"
  /\ UNCHANGED <<argv, args, loaded, registry, answer, stack>>

(* toy_override_queries: save the four defaults, then install the overrides. *)
OverrideQueries ==
  /\ phase = "session"
  /\ default' = [q \in Queries |-> SetOnce(default[q], provider[q])]
  /\ provider' = [q \in Queries |-> "toylang"]
  /\ phase' = "queries"
  /\ UNCHANGED <<argv, args, loaded, registry, answer, stack>>

-----------------------------------------------------------------------------
(* External: the query system.                                              *)

Push(t, k) ==
  /\ stack' = [stack EXCEPT ![t] = Append(stack[t], Call(provider[k.query], k))]
  /\ UNCHANGED <<argv, phase, args, loaded, registry, default, provider, answer>>

\* A thread takes up a query that the rest of the compiler demands.
Demand(t) ==
  /\ phase = "queries" /\ stack[t] = << >>
  /\ \E k \in Roots : Startable(k) /\ Push(t, k)

\* rustc's provider demands another query.
DemandNested(t) ==
  /\ At(t, "rustc")
  /\ \E k \in Needs(Top(t).key) : Startable(k) /\ Push(t, k)

\* The provider on top returns a; the query cache keeps it.
Return(t, a) ==
  /\ answer' = [answer EXCEPT ![Top(t).key] = a]
  /\ stack' = [stack EXCEPT ![t] = Popped(t)]
  /\ UNCHANGED <<argv, phase, args, loaded, registry, default, provider>>

\* rustc's provider has what it needs.
RustcAnswers(t) ==
  /\ At(t, "rustc")
  /\ \A k \in Needs(Top(t).key) : answer[k] # Pending
  /\ Return(t, ByRustc)

-----------------------------------------------------------------------------
(* The four overrides                                                       *)

Installed(q) == registry[q] # Unset

\* Mistake: any type whose name contains the struct's is taken for it.
NamesStructLoosely(q, it) ==
  it.kind \in {"adt", "derived"} /\ Installed(q) /\ it.name \in DOMAIN registry[q].structs

\* The test of toy_layout_of, and toylang_struct_name.
NamesStruct(q, it) ==
  it.kind = "adt" /\ Installed(q) /\ it.name \in DOMAIN registry[q].structs

\* toylang_fn_name, and the fallback of is_toylang_item.
NamesFunction(q, it) ==
  it.kind = "fn" /\ Installed(q) /\ it.name \in DOMAIN registry[q].functions

\* Which keys an override answers itself.
Intercepted(k) ==
  \/ k.query = "layout_of" /\ NamesStruct("layout_of", k.item)
  \/ k.query = "mir_shims" /\ k.item.drops /\ NamesStruct("mir_shims", k.item)
  \/ k.query = "mir_built" /\ NamesFunction("mir_built", k.item)
  \/ k.query = "mir_borrowck" /\ (k.item.file = "toylang" \/ NamesFunction("mir_borrowck", k.item))

(* A parsed body goes to build_body; without one, build_hardcoded knows what  *)
(* a single function does.                                                  *)
BodyOf(name)     == registry["mir_built"].functions[name]
Hardcoded(name)  == name = "get_x"
Buildable(name)  == IF BodyOf(name) = NoBody THEN Hardcoded(name) ELSE BodyOf(name) \notin Misfits

LayoutOf(t) ==
  /\ At(t, "toylang") /\ Top(t).key.query = "layout_of" /\ Intercepted(Top(t).key)
  /\ Return(t, ByToy(registry["layout_of"].structs[Top(t).key.item.name]))

MirBuilt(t) ==
  /\ At(t, "toylang") /\ Top(t).key.query = "mir_built" /\ Intercepted(Top(t).key)
  /\ LET name == Top(t).key.item.name IN
       /\ Buildable(name)
       /\ Return(t, ByToy(IF BodyOf(name) = NoBody THEN "42" ELSE BodyOf(name)))

MirBorrowck(t) ==
  /\ At(t, "toylang") /\ Top(t).key.query = "mir_borrowck" /\ Intercepted(Top(t).key)
  /\ Return(t, ByToy("unchecked"))

(* build_drop_call_body calls the destructor that find_extern_fn finds, and  *)
(* does nothing if there is none.                                           *)
MirShims(t) ==
  /\ At(t, "toylang") /\ Top(t).key.query = "mir_shims" /\ Intercepted(Top(t).key)
  /\ Return(t, ByToy(IF Top(t).key.item.destructor THEN "drop" ELSE "no-op"))

(* An override that does not answer calls the default it saved.             *)
Delegate(t) ==
  /\ At(t, "toylang") /\ ~Intercepted(Top(t).key)
  /\ LET k == Top(t).key IN
       /\ default[k.query] # Unset
       /\ stack' = [stack EXCEPT ![t] = Append(Popped(t), Call(default[k.query], k))]
  /\ UNCHANGED <<argv, phase, args, loaded, registry, default, provider, answer>>

\* The panics of build_body, build_hardcoded, and an override without a default.
Panics(k) ==
  IF Intercepted(k)
  THEN k.query = "mir_built" /\ ~Buildable(k.item.name)
  ELSE default[k.query] = Unset

(* A panic of any thread ends the session.                                  *)
Panic(t) ==
  /\ At(t, "toylang") /\ Panics(Top(t).key)
  /\ phase' = "panicked"
  /\ UNCHANGED <<argv, args, loaded, registry, default, provider, answer, stack>>

-----------------------------------------------------------------------------
Start == LoadFile \/ LoadBadFile \/ LoadHardcoded \/ RejectArgs \/ Config \/ OverrideQueries

ThreadStep(t) ==
  \/ Demand(t) \/ DemandNested(t) \/ RustcAnswers(t)
  \/ LayoutOf(t) \/ MirBuilt(t) \/ MirBorrowck(t) \/ MirShims(t)
  \/ Delegate(t) \/ Panic(t)

Next == Start \/ \E t \in Threads : ThreadStep(t)

\* The main thread runs the start-up; every worker thread is scheduled.
Spec ==
  /\ Init /\ [][Next]_vars
  /\ WF_vars(Start)
  /\ \A t \in Threads : WF_vars(ThreadStep(t))

-----------------------------------------------------------------------------
\* A crate in which the names of Toylang definitions belong to their stubs, and
\* whose code is in Rust files.
Unambiguous ==
  \A it \in Items :
    /\ it.file = "rs"
    /\ \A r \in Registries :
         \/ it.kind = "adt" /\ it.name \in DOMAIN r.structs
         \/ it.kind = "fn" /\ it.name \in DOMAIN r.functions
         => it.stub

(* The variables have their types; a saved default is never an override.     *)
TypeOK ==
  /\ phase \in {"start", "config", "session", "queries", "rejected", "panicked"}
  /\ loaded \in Registries \cup {Unset}
  /\ registry \in [Queries -> Registries \cup {Unset}]
  /\ default \in [Queries -> {"rustc", Unset}]
  /\ provider \in [Queries -> {"rustc", "toylang"}]
  /\ \A t \in Threads : \A d \in DOMAIN stack[t] :
       stack[t][d].in \in {"rustc", "toylang"} /\ stack[t][d].key \in Keys

(* The session keeps the promises of the driver: whichever thread asks       *)
(* first, each stub is answered with the definitions that the command line    *)
(* asks for, and everything else by rustc.                                  *)
KeepsContract == Contract!Spec

(* The query modules hold copies of the registry of their own, but agree on   *)
(* whose an item is: a type that drops has Toylang's layout if and only if it *)
(* has Toylang's drop glue, a function goes unchecked if and only if its body *)
(* is Toylang's.  (A type that does not drop has DropGlue(_, None), which is   *)
(* rustc's in any case: src/queries/drop_glue.rs:29.)                        *)
SameOwner ==
  \A k1, k2 \in Keys :
    /\ k1.item = k2.item /\ k1.item.kind \in {"adt", "fn"}
    /\ "mir_shims" \in {k1.query, k2.query} => k1.item.kind = "adt" /\ k1.item.drops
    /\ Pending \notin {answer[k1], answer[k2]}
    => answer[k1].by = answer[k2].by

(* The driver panics only on a .toylang file that it cannot use, or that     *)
(* holds a body it cannot lower, and without one only on a stub for which its *)
(* built-in definitions have no body.                                       *)
PanicsOnlyOnBadInput ==
  phase = "panicked" =>
    \/ \E p \in 2 .. Len(argv) :
         /\ argv[p - 1] = Flag
         /\ argv[p] \in Readable =>
              \E n \in DOMAIN Files[argv[p]].functions : Files[argv[p]].functions[n] \in Misfits
    \/ /\ loaded = HardcodedPoint
       /\ \E k \in Keys : k.query = "mir_built" /\ k.item.name \in {"make_vec", "vec_len"}

(* A session that is not turned down answers every query that is demanded:    *)
(* no override calls itself, and no thread waits for ever.                   *)
EveryDemandAnswered ==
  <>(phase \in {"rejected", "panicked"} \/ \A k \in Roots : answer[k] # Pending)

(* What is not the stub of a Toylang definition is left to rustc.            *)
OthersDelegated == \A k \in Keys : ~k.item.stub => answer[k].by # "toylang"
=============================================================================
