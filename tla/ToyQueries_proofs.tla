------------------------- MODULE ToyQueries_proofs -------------------------
(***************************************************************************)
(* Proofs about a session of the driver, for every crate, every set of       *)
(* .toylang files and every number of worker threads: the two halves of the  *)
(* driver agree on the owner of an item, and the session implements the       *)
(* contract of QueryContract.                                               *)
(***************************************************************************)
EXTENDS ToyQueries, TLAPS, WellFoundedInduction

\* A set of naturals that is not empty has a first element.
LEMMA FirstOf ==
  ASSUME NEW S, S \subseteq Nat, S # {}
  PROVE  \E p \in S : \A o \in S : p <= o
<1> DEFINE R == OpToRel(<, Nat)
<1>1. \A x, y \in Nat : x < y => <<x, y>> \in R
  BY DEF OpToRel
<1>2. IsWellFoundedOn(R, Nat)
  BY NatLessThanWellFounded
<1> HIDE DEF R
<1>3. PICK p \in S : \A o \in S : ~(<<o, p>> \in R)
  BY <1>2, WFMin
<1>4. \A o \in S : ~(o < p)
  BY <1>1, <1>3
<1> QED BY <1>4

\* The elements of a sequence that has grown by one.
LEMMA Appended ==
  ASSUME NEW S, NEW q \in Seq(S), NEW c \in S
  PROVE  /\ Append(q, c) \in Seq(S)
         /\ \A d \in DOMAIN Append(q, c) :
              Append(q, c)[d] = c \/ (d \in DOMAIN q /\ Append(q, c)[d] = q[d])
<1>1. DOMAIN Append(q, c) = 1 .. Len(q) + 1 /\ Len(q) \in Nat /\ DOMAIN q = 1 .. Len(q)
  OBVIOUS
<1>2. \A d \in 1 .. Len(q) + 1 : d = Len(q) + 1 \/ d \in 1 .. Len(q)
  BY <1>1
<1> QED BY <1>1, <1>2

-----------------------------------------------------------------------------
(* The inductive invariant.                                                 *)

\* Whether the definitions r name the item of k, and so claim the query.
Owned(r, k) ==
  \/ /\ \/ k.query = "layout_of"
        \/ k.query = "mir_shims" /\ k.item.drops
     /\ k.item.kind = "adt" /\ k.item.name \in DOMAIN r.structs
  \/ k.query = "mir_built" /\ k.item.kind = "fn" /\ k.item.name \in DOMAIN r.functions
  \/ k.query = "mir_borrowck"
       /\ \/ k.item.file = "toylang"
          \/ k.item.kind = "fn" /\ k.item.name \in DOMAIN r.functions

\* The answer that the session gives to k when r is installed.
Given(r, k) ==
  IF ~Owned(r, k) THEN ByRustc
  ELSE IF k.query = "layout_of" THEN ByToy(r.structs[k.item.name])
  ELSE IF k.query = "mir_shims" THEN ByToy(IF k.item.destructor THEN "drop" ELSE "no-op")
  ELSE IF k.query = "mir_built"
       THEN ByToy(IF r.functions[k.item.name] = NoBody THEN "42" ELSE r.functions[k.item.name])
  ELSE ByToy("unchecked")

Calls == [in : {"rustc", "toylang"}, key : Keys]

\* What each phase of the start-up has set.
Prepared ==
  /\ argv \in CommandLines
  /\ phase = "start" => args = argv
  /\ phase \in {"start", "config"} => registry = [q \in Queries |-> Unset]
  /\ phase \in {"start", "config", "session"} =>
       /\ default = [q \in Queries |-> Unset]
       /\ provider = [q \in Queries |-> "rustc"]
       /\ stack = [t \in Threads |-> << >>]
       /\ answer = [k \in Keys |-> Pending]
  /\ phase \in {"config", "session", "queries"} =>
       loaded \in Registries /\ loaded = Contract!Asked
  /\ phase \in {"session", "queries"} => registry = [q \in Queries |-> loaded]
  /\ phase = "queries" =>
       /\ default = [q \in Queries |-> "rustc"]
       /\ provider = [q \in Queries |-> "toylang"]

\* What the worker threads are at, and what they have answered.
Working ==
  /\ stack \in [Threads -> Seq(Calls)]
  /\ phase = "queries" =>
       \A t \in Threads : \A d \in DOMAIN stack[t] :
         stack[t][d].in = "rustc" => ~Owned(loaded, stack[t][d].key)
  /\ answer = [k \in Keys |-> answer[k]]
  /\ \A k \in Keys : answer[k] = Pending \/ answer[k] = Given(loaded, k)

IInv == TypeOK /\ Prepared /\ Working

-----------------------------------------------------------------------------
(* The command line.                                                        *)

\* The registry that main loads is the one the command line asks for.
LEMMA AskedFile ==
  ASSUME argv \in CommandLines, args = argv, NEW p \in WithPath
  PROVE  Contract!Asked = Files[args[p + 1]]
<1>1. args \in Seq(STRING)
  BY CommandLinesAssumption
<1>2. /\ p \in 1 .. Len(argv) - 1 /\ argv[p] = Flag
      /\ \A o \in 1 .. p - 1 : argv[o] # Flag
  BY <1>1 DEF WithPath, FlagAt
<1> DEFINE first == CHOOSE q \in 1 .. Len(argv) :
                      argv[q] = Flag /\ \A o \in 1 .. q - 1 : argv[o] # Flag
<1>3. /\ first \in 1 .. Len(argv) /\ argv[first] = Flag
      /\ \A o \in 1 .. first - 1 : argv[o] # Flag
  BY <1>1, <1>2
<1> HIDE DEF first
<1>4. first = p
  BY <1>1, <1>2, <1>3
<1> USE DEF first
<1>5. Contract!Asked = Files[argv[first + 1]]
  BY <1>2 DEF Contract!Asked, Contract!Flag, Flag
<1> HIDE DEF first
<1> QED BY <1>4, <1>5

\* Without a flag that has a path, it is the built-in one.
LEMMA AskedNone ==
  ASSUME argv \in CommandLines, args = argv, WithPath = {}
  PROVE  Contract!Asked = HardcodedPoint
<1>1. args \in Seq(STRING)
  BY CommandLinesAssumption
<1> SUFFICES ASSUME NEW p \in 1 .. Len(argv) - 1, argv[p] = Flag
             PROVE  FALSE
  BY DEF Contract!Asked, Contract!Flag, Flag, HardcodedPoint, Contract!HardcodedPoint, Registry, Contract!Registry, NoBody, Contract!NoBody
<1> DEFINE S == {q \in 1 .. Len(argv) : argv[q] = Flag}
<1>2. S \subseteq Nat /\ p \in S
  BY <1>1
<1>3. PICK q \in S : \A o \in S : q <= o
  BY <1>2, FirstOf
<1>4. q \in 1 .. Len(argv) /\ q <= p /\ \A o \in 1 .. q - 1 : argv[o] # Flag
  BY <1>1, <1>2, <1>3
<1>5. q \in WithPath
  BY <1>1, <1>3, <1>4 DEF WithPath, FlagAt
<1> QED BY <1>5

-----------------------------------------------------------------------------
(* The overrides.                                                           *)

\* The four modules claim what the registry they were given names.
LEMMA InterceptedOwned ==
  ASSUME IInv, phase = "queries", NEW k \in Keys
  PROVE  Intercepted(k) <=> Owned(loaded, k)
<1>1. /\ loaded # Unset /\ k.query \in Queries
      /\ \A q \in Queries : registry[q] = loaded
  BY UnsetAssumption, KeysAssumption DEF IInv, Prepared, Queries
<1> QED BY <1>1 DEF Intercepted, Owned, NamesStruct, NamesFunction, Installed, Queries

\* The call on top of a stack.
LEMMA TopCall ==
  ASSUME IInv, NEW t \in Threads, NEW c, At(t, c)
  PROVE  /\ phase = "queries" /\ Top(t) \in Calls /\ Top(t).in = c
         /\ stack[t] \in Seq(Calls) /\ Len(stack[t]) \in Nat \ {0}
         /\ Top(t).key \in Keys /\ Top(t).key.query \in Queries
         /\ c = "rustc" => ~Owned(loaded, Top(t).key)
<1>1. stack[t] \in Seq(Calls) /\ stack[t] # << >> /\ phase = "queries"
  BY DEF IInv, Working, At
<1>2. Len(stack[t]) \in DOMAIN stack[t] /\ Len(stack[t]) \in Nat \ {0}
  BY <1>1
<1>3. Top(t) \in Calls
  BY <1>1, <1>2 DEF Top
<1>4. Top(t).key \in Keys /\ Top(t).key.query \in Queries
  BY <1>3, KeysAssumption DEF Calls, Queries
<1>5. Top(t).in = c /\ (c = "rustc" => ~Owned(loaded, Top(t).key))
  BY <1>1, <1>2 DEF IInv, Working, At, Top
<1> QED BY <1>1, <1>2, <1>3, <1>4, <1>5

\* A step that gives a thread another stack of such calls.
LEMMA Restack ==
  ASSUME IInv, phase = "queries", NEW t \in Threads, NEW s \in Seq(Calls),
         \A d \in DOMAIN s : s[d].in = "rustc" => ~Owned(loaded, s[d].key),
         stack' = [stack EXCEPT ![t] = s], answer' = [k \in Keys |-> answer'[k]],
         \A k \in Keys : answer'[k] \in {answer[k], Given(loaded, k)},
         UNCHANGED <<argv, phase, args, loaded, registry, default, provider>>
  PROVE  IInv'
<1>1. Prepared'
  BY DEF IInv, Prepared, Contract!Asked
<1>2. Working'
  <2>1. stack' \in [Threads -> Seq(Calls)]
    BY DEF IInv, Working
  <2>2. \A u \in Threads : stack'[u] = IF u = t THEN s ELSE stack[u]
    BY DEF IInv, Working
  <2>3. \A k \in Keys : answer'[k] = Pending \/ answer'[k] = Given(loaded, k)
    BY DEF IInv, Working
  <2> QED BY <2>1, <2>2, <2>3 DEF IInv, Working
<1>3. \A u \in Threads : \A d \in DOMAIN stack'[u] : stack'[u][d] \in Calls
  BY <1>2 DEF Working
<1>4. TypeOK'
  BY <1>3 DEF IInv, TypeOK, Calls
<1> QED BY <1>1, <1>2, <1>4 DEF IInv

-----------------------------------------------------------------------------
(* The steps.                                                               *)

\* A provider call begins: rustc's table leads to the overrides.
LEMMA PushStep ==
  ASSUME IInv, phase = "queries", NEW t \in Threads, NEW k \in Keys, Push(t, k)
  PROVE  IInv'
<1> DEFINE c == Call(provider[k.query], k)
           s == Append(stack[t], c)
<1>1. provider[k.query] = "toylang"
  BY KeysAssumption DEF IInv, Prepared, Queries
<1>2. stack[t] \in Seq(Calls) /\ answer = [j \in Keys |-> answer[j]]
  BY DEF IInv, Working
<1>3. c \in Calls /\ c.in = "toylang"
  BY <1>1 DEF Call, Calls
<1>4. \A d \in DOMAIN s : s[d] = c \/ (d \in DOMAIN stack[t] /\ s[d] = stack[t][d])
  <2> HIDE DEF c
  <2> QED BY <1>2, <1>3, Appended
<1>5. s \in Seq(Calls)
  BY <1>2, <1>3, Appended
<1>6. \A d \in DOMAIN s : s[d].in = "rustc" => ~Owned(loaded, s[d].key)
  <2> HIDE DEF s, c
  <2> QED BY <1>3, <1>4 DEF IInv, Working
<1>7. stack' = [stack EXCEPT ![t] = s] /\ answer' = answer
      /\ UNCHANGED <<argv, phase, args, loaded, registry, default, provider>>
  BY DEF Push
<1> HIDE DEF s, c
<1> QED BY <1>2, <1>5, <1>6, <1>7, Restack

\* The call on top returns what the registry says about its key.
LEMMA ReturnStep ==
  ASSUME IInv, NEW t \in Threads, NEW c, At(t, c),
         NEW a, a = Given(loaded, Top(t).key), Return(t, a)
  PROVE  IInv'
<1>1. /\ phase = "queries" /\ Top(t).key \in Keys
      /\ stack[t] \in Seq(Calls) /\ Len(stack[t]) \in Nat \ {0}
  BY TopCall
<1>2. /\ Popped(t) \in Seq(Calls)
      /\ \A d \in DOMAIN Popped(t) : d \in DOMAIN stack[t] /\ Popped(t)[d] = stack[t][d]
  BY <1>1 DEF Popped
<1>3. \A d \in DOMAIN Popped(t) :
        Popped(t)[d].in = "rustc" => ~Owned(loaded, Popped(t)[d].key)
  BY <1>1, <1>2 DEF IInv, Working
<1>4. /\ stack' = [stack EXCEPT ![t] = Popped(t)]
      /\ UNCHANGED <<argv, phase, args, loaded, registry, default, provider>>
  BY DEF Return
<1>5. /\ answer' = [k \in Keys |-> answer'[k]]
      /\ \A k \in Keys : answer'[k] \in {answer[k], Given(loaded, k)}
  BY <1>1 DEF Return, IInv, Working
<1> QED BY <1>1, <1>2, <1>3, <1>4, <1>5, Restack

\* A call of the default: rustc's provider takes the place of the override.
LEMMA DelegateStep ==
  ASSUME IInv, NEW t \in Threads, Delegate(t)
  PROVE  IInv'
<1>1. /\ phase = "queries" /\ Top(t).key \in Keys /\ Top(t).key.query \in Queries
      /\ stack[t] \in Seq(Calls) /\ Len(stack[t]) \in Nat \ {0}
  BY TopCall DEF Delegate
<1> DEFINE k == Top(t).key
           c == Call(default[k.query], k)
           s == Append(Popped(t), c)
<1>2. default[k.query] = "rustc" /\ ~Owned(loaded, k)
  BY <1>1, InterceptedOwned DEF Delegate, IInv, Prepared
<1>3. c \in Calls /\ c.in = "rustc" /\ c.key = k
  BY <1>1, <1>2 DEF Call, Calls
<1>4. /\ Popped(t) \in Seq(Calls)
      /\ \A d \in DOMAIN Popped(t) : d \in DOMAIN stack[t] /\ Popped(t)[d] = stack[t][d]
  BY <1>1 DEF Popped
<1>5. \A d \in DOMAIN s : s[d] = c \/ (d \in DOMAIN Popped(t) /\ s[d] = Popped(t)[d])
  <2> HIDE DEF c
  <2> QED BY <1>3, <1>4, Appended
<1>6. s \in Seq(Calls)
  BY <1>3, <1>4, Appended
<1>7. \A d \in DOMAIN s : s[d].in = "rustc" => ~Owned(loaded, s[d].key)
  <2> HIDE DEF s, c
  <2> QED BY <1>1, <1>2, <1>3, <1>4, <1>5 DEF IInv, Working
<1>8. stack' = [stack EXCEPT ![t] = s] /\ answer' = answer /\ answer = [j \in Keys |-> answer[j]]
      /\ UNCHANGED <<argv, phase, args, loaded, registry, default, provider>>
  BY DEF Delegate, IInv, Working
<1> HIDE DEF s, c
<1> QED BY <1>1, <1>6, <1>7, <1>8, Restack

\* What each kind of provider returns is what Given says.
LEMMA AnswersGiven ==
  ASSUME IInv, NEW t \in Threads,
         \/ RustcAnswers(t) \/ LayoutOf(t) \/ MirBuilt(t) \/ MirBorrowck(t) \/ MirShims(t)
  PROVE  \E c : At(t, c) /\ Return(t, Given(loaded, Top(t).key))
<1>1. CASE RustcAnswers(t)
  BY <1>1, TopCall DEF RustcAnswers, Given
<1>2. ASSUME At(t, "toylang"), Intercepted(Top(t).key)
      PROVE  /\ Owned(loaded, Top(t).key)
             /\ \A q \in Queries : registry[q] = loaded
  BY <1>2, TopCall, InterceptedOwned DEF IInv, Prepared
<1>3. CASE LayoutOf(t)
  BY <1>2, <1>3 DEF LayoutOf, Given, Queries
<1>4. CASE MirBuilt(t)
  BY <1>2, <1>4 DEF MirBuilt, BodyOf, Given, Queries
<1>5. CASE MirBorrowck(t)
  BY <1>2, <1>5 DEF MirBorrowck, Given
<1>6. CASE MirShims(t)
  BY <1>2, <1>6 DEF MirShims, Given
<1> QED BY <1>1, <1>3, <1>4, <1>5, <1>6

\* A panic, at whatever point, leaves the answers.
LEMMA PanicStep ==
  ASSUME IInv, phase' \in {"panicked", "rejected"},
         phase' = "panicked" \/ phase = "config",
         UNCHANGED <<argv, args, loaded, registry, default, provider, answer, stack>>
  PROVE  IInv'
<1>1. TypeOK'
  BY DEF IInv, TypeOK
<1>2. Prepared' /\ Working'
  BY DEF IInv, Prepared, Working
<1> QED BY <1>1, <1>2 DEF IInv

\* A step of the start-up that leaves the threads idle.
LEMMA StartStep ==
  ASSUME IInv, phase \in {"start", "config", "session"},
         UNCHANGED <<answer, stack>>
  PROVE  /\ Working'
         /\ \A t \in Threads : \A d \in DOMAIN stack'[t] :
              stack'[t][d].in \in {"rustc", "toylang"} /\ stack'[t][d].key \in Keys
<1>1. stack = [t \in Threads |-> << >>] /\ answer = [k \in Keys |-> Pending]
  BY DEF IInv, Prepared
<1>2. \A t \in Threads : stack'[t] = << >>
  BY <1>1
<1>3. << >> \in Seq(Calls) /\ DOMAIN << >> = {}
  OBVIOUS
<1> QED BY <1>1, <1>2, <1>3 DEF Working

\* The steps of a thread.
LEMMA ThreadKeeps ==
  ASSUME IInv, NEW t \in Threads, ThreadStep(t)
  PROVE  IInv'
<1>1. CASE Demand(t)
  BY <1>1, PushStep, RootsAssumption DEF Demand
<1>2. CASE DemandNested(t)
  <2>1. Top(t).key \in Keys /\ phase = "queries"
    BY <1>2, TopCall DEF DemandNested
  <2> QED BY <1>2, <2>1, PushStep, RootsAssumption DEF DemandNested
<1>3. CASE RustcAnswers(t) \/ LayoutOf(t) \/ MirBuilt(t) \/ MirBorrowck(t) \/ MirShims(t)
  BY <1>3, AnswersGiven, ReturnStep
<1>4. CASE Delegate(t)
  BY <1>4, DelegateStep
<1>5. CASE Panic(t)
  BY <1>5, PanicStep DEF Panic
<1> QED BY <1>1, <1>2, <1>3, <1>4, <1>5 DEF ThreadStep

\* The invariant holds initially.
LEMMA IInvInit == Init => IInv
<1> SUFFICES ASSUME Init PROVE IInv
  OBVIOUS
<1>1. TypeOK
  BY DEF Init, TypeOK
<1>2. Prepared
  BY DEF Init, Prepared
<1>3. \A t \in Threads : stack[t] = << >>
  BY DEF Init
<1>4. stack \in [Threads -> Seq(Calls)]
  BY DEF Init
<1>5. Working
  BY <1>3, <1>4 DEF Init, Working
<1> QED BY <1>1, <1>2, <1>5 DEF IInv

\* Every step keeps it.
LEMMA IInvNext == IInv /\ [Next]_vars => IInv'
<1> SUFFICES ASSUME IInv, [Next]_vars PROVE IInv'
  OBVIOUS
<1>1. CASE LoadFile
  <2>1. PICK p \in WithPath : /\ args[p + 1] \in Readable
                              /\ loaded' = Files[args[p + 1]]
    BY <1>1 DEF LoadFile
  <2>2. /\ phase = "start" /\ phase' = "config"
        /\ UNCHANGED <<argv, registry, default, provider, answer, stack>>
    BY <1>1 DEF LoadFile
  <2>3. loaded' = Contract!Asked /\ loaded' \in Registries
    BY <2>1, <2>2, AskedFile DEF IInv, Prepared, Registries
  <2>4. Contract!Asked' = Contract!Asked
    BY <2>2 DEF Contract!Asked
  <2>5. Prepared'
    BY <2>2, <2>3, <2>4 DEF IInv, Prepared
  <2>6. Working' /\ TypeOK'
    BY <2>2, <2>3, StartStep DEF IInv, TypeOK
  <2> QED BY <2>5, <2>6 DEF IInv
<1>2. CASE LoadHardcoded
  <2>1. /\ phase = "start" /\ phase' = "config" /\ loaded' = HardcodedPoint
        /\ WithPath = {}
        /\ UNCHANGED <<argv, registry, default, provider, answer, stack>>
    BY <1>2 DEF LoadHardcoded
  <2>2. loaded' = Contract!Asked /\ loaded' \in Registries
    BY <2>1, AskedNone DEF IInv, Prepared, Registries
  <2>3. Contract!Asked' = Contract!Asked
    BY <2>1 DEF Contract!Asked
  <2>4. Prepared'
    BY <2>1, <2>2, <2>3 DEF IInv, Prepared
  <2>5. Working' /\ TypeOK'
    BY <2>1, <2>2, StartStep DEF IInv, TypeOK
  <2> QED BY <2>4, <2>5 DEF IInv
<1>3. CASE LoadBadFile \/ RejectArgs
  BY <1>3, PanicStep DEF LoadBadFile, RejectArgs
<1>4. CASE Config
  <2>1. /\ phase = "config" /\ phase' = "session"
        /\ registry' = [q \in Queries |-> SetOnce(registry[q], loaded)]
        /\ UNCHANGED <<argv, args, loaded, default, provider, answer, stack>>
    BY <1>4 DEF Config
  <2>2. registry' = [q \in Queries |-> loaded]
    BY <2>1 DEF IInv, Prepared, SetOnce
  <2>3. Contract!Asked' = Contract!Asked
    BY <2>1 DEF Contract!Asked
  <2>4. Prepared'
    BY <2>1, <2>2, <2>3 DEF IInv, Prepared
  <2>5. Working' /\ TypeOK'
    BY <2>1, <2>2, StartStep DEF IInv, TypeOK, Prepared
  <2> QED BY <2>4, <2>5 DEF IInv
<1>5. CASE OverrideQueries
  <2>1. /\ phase = "session" /\ phase' = "queries"
        /\ default' = [q \in Queries |-> SetOnce(default[q], provider[q])]
        /\ provider' = [q \in Queries |-> "toylang"]
        /\ UNCHANGED <<argv, args, loaded, registry, answer, stack>>
    BY <1>5 DEF OverrideQueries
  <2>2. default' = [q \in Queries |-> "rustc"]
    BY <2>1 DEF IInv, Prepared, SetOnce
  <2>3. Contract!Asked' = Contract!Asked
    BY <2>1 DEF Contract!Asked
  <2>4. Prepared'
    BY <2>1, <2>2, <2>3 DEF IInv, Prepared
  <2>5. Working' /\ TypeOK'
    BY <2>1, <2>2, StartStep DEF IInv, TypeOK
  <2> QED BY <2>4, <2>5 DEF IInv
<1>6. CASE \E t \in Threads : ThreadStep(t)
  BY <1>6, ThreadKeeps
<1>7. CASE UNCHANGED vars
  <2>1. TypeOK'
    BY <1>7 DEF IInv, TypeOK, vars
  <2>2. Prepared' /\ Working'
    BY <1>7 DEF IInv, Prepared, Working, vars, Contract!Asked
  <2> QED BY <2>1, <2>2 DEF IInv
<1> QED
  BY <1>1, <1>2, <1>3, <1>4, <1>5, <1>6, <1>7 DEF Next, Start

\* The invariant of the session.
LEMMA Invariant == Spec => []IInv
<1> QED BY IInvInit, IInvNext, PTL DEF Spec

(* The tables of the session hold what they should; a saved default is       *)
(* rustc's provider, never an override (toy_override_queries).               *)
THEOREM TypeCorrect == Spec => []TypeOK
<1>1. IInv => TypeOK
  BY DEF IInv
<1> QED BY <1>1, Invariant, PTL

-----------------------------------------------------------------------------
(* The contract.                                                            *)

\* In a crate whose code is in Rust files the body and the borrow checking of a
\* function, and the layout and the drop glue of a type that drops, are claimed
\* together.
LEMMA OwnedTogether ==
  ASSUME \A it \in Items : it.file = "rs", NEW r,
         NEW j \in Keys, NEW k \in Keys, j.item = k.item, j.item.kind \in {"adt", "fn"},
         "mir_shims" \in {j.query, k.query} => j.item.kind = "adt" /\ j.item.drops
  PROVE  Owned(r, j) <=> Owned(r, k)
  BY KeysAssumption DEF Owned

\* The claim shows in the answer.
LEMMA GivenBy ==
  ASSUME NEW r, NEW k
  PROVE  Given(r, k).by = IF Owned(r, k) THEN "toylang" ELSE "rustc"
  BY DEF Given, ByRustc, ByToy

(* Whatever the threads demand and in whatever order, the four modules agree  *)
(* on whose an item is (the four copies of is_toylang_type and its kin in     *)
(* src/queries), if no item is defined in a .toylang file.                   *)
THEOREM OwnerCorrect ==
  ASSUME \A it \in Items : it.file = "rs"
  PROVE  Spec => []SameOwner
<1>1. IInv => SameOwner
  <2> SUFFICES ASSUME IInv, NEW j \in Keys, NEW k \in Keys,
                      j.item = k.item, j.item.kind \in {"adt", "fn"},
                      "mir_shims" \in {j.query, k.query} => j.item.kind = "adt" /\ j.item.drops,
                      Pending \notin {answer[j], answer[k]}
               PROVE  answer[j].by = answer[k].by
    BY DEF SameOwner
  <2>1. answer[j] = Given(loaded, j) /\ answer[k] = Given(loaded, k)
    BY DEF IInv, Working
  <2> QED BY <2>1, OwnedTogether, GivenBy
<1> QED BY <1>1, Invariant, PTL

\* When names are not ambiguous, what the session gives is what is promised.
LEMMA GivenPromised ==
  ASSUME Unambiguous, Contract!Asked \in Registries, NEW k \in Keys
  PROVE  Given(Contract!Asked, k) = Contract!Promised(k)
<1> DEFINE r == Contract!Asked
           it == k.item
<1> USE DEF Contract!ByToy, ByToy, Contract!ByRustc, ByRustc, Contract!NoBody, NoBody
<1>1. /\ it \in Items /\ it.file = "rs"
      /\ it.kind = "adt" /\ it.name \in DOMAIN r.structs => it.stub
      /\ it.kind = "fn" /\ it.name \in DOMAIN r.functions => it.stub
  BY KeysAssumption DEF Unambiguous
<1>k. \/ k.query \in {"mir_borrowck", "mir_built"} /\ it.kind = "fn"
      \/ k.query = "layout_of" /\ it.kind \in {"adt", "derived"}
      \/ k.query = "mir_shims"
  BY KeysAssumption
<1> DEFINE OfStruct   == it.kind = "adt" /\ it.stub /\ it.name \in DOMAIN r.structs
           OfFunction == it.kind = "fn" /\ it.stub /\ it.name \in DOMAIN r.functions
<1>2. Owned(r, k) <=> \/ k.query = "layout_of" /\ OfStruct
                      \/ k.query = "mir_shims" /\ it.drops /\ OfStruct
                      \/ k.query \in {"mir_built", "mir_borrowck"} /\ OfFunction
  BY <1>1, <1>k DEF Owned
<1>3. CASE k.query = "layout_of" /\ OfStruct
  BY <1>2, <1>3 DEF Given, Contract!Promised, Contract!IsStubOf
<1>4. CASE k.query = "mir_shims" /\ it.drops /\ OfStruct
  BY <1>2, <1>4 DEF Given, Contract!Promised, Contract!IsStubOf
<1>5. CASE k.query = "mir_built" /\ OfFunction
  BY <1>2, <1>5 DEF Given, Contract!Promised, Contract!IsStubOf
<1>6. CASE k.query = "mir_borrowck" /\ OfFunction
  BY <1>2, <1>6 DEF Given, Contract!Promised, Contract!IsStubOf
<1>7. CASE ~Owned(r, k)
  BY <1>2, <1>7 DEF Given, Contract!Promised, Contract!IsStubOf
<1> QED BY <1>2, <1>3, <1>4, <1>5, <1>6, <1>7

\* A query that is answered is a reply of the contract.
LEMMA ReturnReplies ==
  ASSUME Unambiguous, IInv, NEW t \in Threads, NEW c, At(t, c),
         Return(t, Given(loaded, Top(t).key))
  PROVE  [Contract!Next]_<<argv, answer>>
<1>1. /\ phase = "queries" /\ Top(t).key \in Keys /\ answer = [k \in Keys |-> answer[k]]
      /\ loaded \in Registries /\ loaded = Contract!Asked
  BY TopCall DEF IInv, Prepared, Working
<1> DEFINE k == Top(t).key
<1>2. /\ answer' = [answer EXCEPT ![k] = Contract!Promised(k)]
      /\ argv' = argv
  BY <1>1, GivenPromised DEF Return
<1>3. answer[k] = Pending \/ answer[k] = Contract!Promised(k)
  BY <1>1, GivenPromised DEF IInv, Working
<1>4. Contract!Asked # Contract!Unreadable
  <2>1. HardcodedPoint # Unreadable
    <3>1. "bad" \in DOMAIN Unreadable /\ "bad" \notin DOMAIN HardcodedPoint
      BY DEF HardcodedPoint, Registry, Unreadable
    <3> QED BY <3>1
  <2> QED BY <1>1, <2>1 DEF Registries, Readable, Unreadable, Contract!Unreadable
<1>5. CASE answer[k] = Pending
  BY <1>1, <1>2, <1>4, <1>5 DEF Contract!Next, Contract!Reply, Pending
<1>6. CASE answer[k] = Contract!Promised(k)
  BY <1>1, <1>2, <1>6
<1> QED BY <1>3, <1>5, <1>6

(* In a crate in which only the stubs bear the names of Toylang definitions,  *)
(* every answer of the driver is the one that the .toylang file promises, and  *)
(* no answer is taken back: the session implements QueryContract.            *)
THEOREM ContractKept ==
  ASSUME Unambiguous
  PROVE  Spec => KeepsContract
<1>1. Init => Contract!Init
  BY DEF Init, Contract!Init, Pending
<1>2. IInv /\ [Next]_vars => [Contract!Next]_<<argv, answer>>
  <2> SUFFICES ASSUME IInv, [Next]_vars
               PROVE  [Contract!Next]_<<argv, answer>>
    OBVIOUS
  <2>1. CASE \/ Start \/ UNCHANGED vars
             \/ \E t \in Threads : Demand(t) \/ DemandNested(t) \/ Delegate(t) \/ Panic(t)
    <3>1. UNCHANGED <<argv, answer>>
      BY <2>1 DEF Start, LoadFile, LoadBadFile, LoadHardcoded, RejectArgs, Config,
         OverrideQueries, Demand, DemandNested, Push, Delegate, Panic, vars
    <3> QED BY <3>1
  <2>2. ASSUME NEW t \in Threads,
               \/ RustcAnswers(t) \/ LayoutOf(t) \/ MirBuilt(t)
               \/ MirBorrowck(t) \/ MirShims(t)
        PROVE  [Contract!Next]_<<argv, answer>>
    BY <2>2, AnswersGiven, ReturnReplies
  <2> QED BY <2>1, <2>2 DEF Next, ThreadStep
<1> QED BY <1>1, <1>2, Invariant, PTL DEF KeepsContract, Contract!Spec, Spec

-----------------------------------------------------------------------------
(* Panics.                                                                  *)

\* What the command line asks for is in a file it names, or built in.
LEMMA AskedSource ==
  ASSUME argv \in CommandLines
  PROVE  \/ Contract!Asked = HardcodedPoint
         \/ \E p \in 2 .. Len(argv) : argv[p - 1] = Flag /\ Contract!Asked = Files[argv[p]]
<1>1. argv \in Seq(STRING)
  BY CommandLinesAssumption
<1> USE DEF Contract!Flag, Flag
<1>2. CASE ~\E p \in 1 .. Len(argv) - 1 : argv[p] = Flag
  BY <1>2 DEF Contract!Asked, HardcodedPoint, Contract!HardcodedPoint,
     Registry, Contract!Registry, NoBody, Contract!NoBody
<1>3. ASSUME NEW p \in 1 .. Len(argv) - 1, argv[p] = Flag
      PROVE  \E q \in 2 .. Len(argv) : argv[q - 1] = Flag /\ Contract!Asked = Files[argv[q]]
  <2> DEFINE S == {q \in 1 .. Len(argv) : argv[q] = Flag}
             IsFirst(q) == argv[q] = Flag /\ \A o \in 1 .. q - 1 : argv[o] # Flag
             first == CHOOSE q \in 1 .. Len(argv) : IsFirst(q)
  <2>1. S \subseteq Nat /\ p \in S
    BY <1>1, <1>3
  <2>2. PICK q \in S : \A o \in S : q <= o
    BY <2>1, FirstOf
  <2>3. q \in 1 .. Len(argv) - 1 /\ IsFirst(q)
    BY <1>1, <1>3, <2>1, <2>2
  <2>4. first \in 1 .. Len(argv) /\ IsFirst(first)
    BY <1>1, <2>3
  <2>5. Contract!Asked = Files[argv[first + 1]]
    BY <1>3 DEF Contract!Asked
  <2> HIDE DEF first
  <2>6. first = q
    BY <1>1, <2>3, <2>4
  <2>7. q + 1 \in 2 .. Len(argv) /\ (q + 1) - 1 = q
    BY <1>1, <2>3
  <2> QED BY <2>3, <2>5, <2>6, <2>7
<1> QED BY <1>2, <1>3

\* A provider panics only on a body that the lowerer or build_hardcoded refuses.
LEMMA PanicCause ==
  ASSUME IInv, NEW t \in Threads, Panic(t)
  PROVE  PanicsOnlyOnBadInput'
<1>1. /\ phase = "queries" /\ Top(t).key \in Keys /\ Top(t).key.query \in Queries
      /\ argv \in CommandLines /\ loaded = Contract!Asked
      /\ \A q \in Queries : registry[q] = loaded /\ default[q] = "rustc"
  BY TopCall DEF Panic, IInv, Prepared
<1>2. /\ Panics(Top(t).key)
      /\ UNCHANGED <<argv, loaded>>
  BY DEF Panic
<1> DEFINE k == Top(t).key
           name == k.item.name
<1>3. /\ k.query = "mir_built" /\ ~Buildable(name)
      /\ name \in DOMAIN loaded.functions
  BY <1>1, <1>2, UnsetAssumption DEF Panics, Intercepted, NamesFunction, Queries
<1>4. \/ loaded.functions[name] = NoBody /\ name # "get_x"
      \/ loaded.functions[name] # NoBody /\ loaded.functions[name] \in Misfits
  BY <1>1, <1>3 DEF Buildable, BodyOf, Hardcoded, Queries
<1>5. CASE loaded = HardcodedPoint
  <2>1. name \in {"make_vec", "vec_len", "get_x"} /\ loaded.functions[name] = NoBody
    BY <1>3, <1>5 DEF HardcodedPoint, Registry
  <2> QED BY <1>1, <1>2, <1>3, <1>4, <1>5, <2>1 DEF PanicsOnlyOnBadInput
<1>6. ASSUME NEW p \in 2 .. Len(argv), argv[p - 1] = Flag, loaded = Files[argv[p]]
      PROVE  PanicsOnlyOnBadInput'
  BY <1>2, <1>3, <1>4, <1>6, FilesAssumption DEF PanicsOnlyOnBadInput
<1> QED BY <1>1, <1>5, <1>6, AskedSource

(* For every crate and every .toylang file the driver panics only on what it  *)
(* cannot read, parse or lower (the panics of main.rs and of queries/build.rs). *)
THEOREM PanicsCorrect == Spec => []PanicsOnlyOnBadInput
<1>1. Init => PanicsOnlyOnBadInput
  BY DEF Init, PanicsOnlyOnBadInput
<1>2. IInv /\ PanicsOnlyOnBadInput /\ [Next]_vars => PanicsOnlyOnBadInput'
  <2> SUFFICES ASSUME IInv, PanicsOnlyOnBadInput, [Next]_vars
               PROVE  PanicsOnlyOnBadInput'
    OBVIOUS
  <2>1. CASE LoadBadFile
    <3>1. argv \in Seq(STRING) /\ args = argv /\ argv' = argv
      BY <2>1, CommandLinesAssumption DEF LoadBadFile, IInv, Prepared
    <3>2. PICK p \in WithPath : args[p + 1] \notin Readable
      BY <2>1 DEF LoadBadFile
    <3>3. /\ p + 1 \in 2 .. Len(argv) /\ (p + 1) - 1 = p
          /\ argv[p] = Flag /\ argv[p + 1] \notin Readable
      BY <3>1, <3>2 DEF WithPath, FlagAt
    <3> QED BY <3>1, <3>3 DEF PanicsOnlyOnBadInput
  <2>2. CASE \E t \in Threads : Panic(t)
    BY <2>2, PanicCause
  <2>3. CASE LoadFile \/ LoadHardcoded \/ RejectArgs \/ Config \/ OverrideQueries
    BY <2>3 DEF LoadFile, LoadHardcoded, RejectArgs, Config, OverrideQueries,
       PanicsOnlyOnBadInput
  <2>4. ASSUME NEW t \in Threads, ThreadStep(t), ~Panic(t)
        PROVE  phase' = "queries"
    BY <2>4 DEF ThreadStep, Demand, DemandNested, Push, RustcAnswers, LayoutOf, MirBuilt,
       MirBorrowck, MirShims, Delegate, Return, At
  <2>5. CASE UNCHANGED vars
    BY <2>5 DEF vars, PanicsOnlyOnBadInput
  <2> QED
    BY <2>1, <2>2, <2>3, <2>4, <2>5 DEF Next, Start, PanicsOnlyOnBadInput
<1> QED BY <1>1, <1>2, Invariant, PTL DEF Spec
=============================================================================
