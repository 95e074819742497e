--------------------------- MODULE QueryContract ----------------------------
(***************************************************************************)
(* What the toylangc driver promises rustc, query by query: the stubs of    *)
(* Toylang definitions get what the .toylang file says, everything else     *)
(* gets what rustc says, and an answer is never taken back.                 *)
(***************************************************************************)
EXTENDS ToyCrate

VARIABLES
  argv,    \* the command line
  answer   \* key -> answer or Pending

Pending == [by |-> "nobody", what |-> "pending"]

\* The definitions the command line asks for.
Asked ==
  IF \E p \in 1 .. Len(argv) - 1 : argv[p] = Flag
  THEN LET first == CHOOSE p \in 1 .. Len(argv) :
                      argv[p] = Flag /\ \A o \in 1 .. p - 1 : argv[o] # Flag
       IN  Files[argv[first + 1]]
  ELSE HardcodedPoint

IsStubOf(it, defs) == it.stub /\ it.name \in DOMAIN defs

Promised(k) ==
  LET it == k.item IN
  CASE it.kind = "adt" /\ k.query = "layout_of" /\ IsStubOf(it, Asked.structs) ->
         ByToy(Asked.structs[it.name])
    [] it.kind = "adt" /\ it.drops /\ k.query = "mir_shims" /\ IsStubOf(it, Asked.structs) ->
         ByToy(IF it.destructor THEN "drop" ELSE "no-op")
    [] it.kind = "fn" /\ k.query = "mir_built" /\ IsStubOf(it, Asked.functions) ->
         ByToy(IF Asked.functions[it.name] = NoBody THEN "42" ELSE Asked.functions[it.name])
    [] it.kind = "fn" /\ k.query = "mir_borrowck" /\ IsStubOf(it, Asked.functions) ->
         ByToy("unchecked")
    [] OTHER -> ByRustc

Init == answer = [k \in Keys |-> Pending]

Reply(k) ==
  /\ answer[k] = Pending
  /\ Asked # Unreadable
  /\ answer' = [answer EXCEPT ![k] = Promised(k)]
  /\ UNCHANGED argv

Next == \E k \in Keys : Reply(k)

Spec == Init /\ [][Next]_<<argv, answer>>
=============================================================================
