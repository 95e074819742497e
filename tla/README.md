# A TLA+ model of the Toylang compiler

OnRust is `toylangc`, a Rust compiler driver that teaches rustc a small language.
A user writes Rust *stubs* (`struct Point { .. }`, `fn make_vec() -> Vec<Point> {
unreachable!() }`) and a `.toylang` file with the real definitions. The driver parses
the file, installs overrides of four rustc queries, and lets rustc compile the crate:
rustc then asks the overrides for layouts, function bodies, borrow-check results and
drop glue.

This directory holds the specification of that driver, the TLC runs that check it on
small instances, and TLAPS proofs of theorems about it for instances of any size.
`PROJECT.json` lists the parts, the source lines each definition stands for, the runs,
the mutated definitions that show each property can fail, the hazards and the theorems.

## The system

| component | state | operations | who calls it |
|---|---|---|---|
| driver start-up (`main.rs`, `callbacks.rs`) | the command line, the loaded registry | `extract_registry`, `config` | the user, then rustc |
| query overrides (`queries/`) | 4 x `REGISTRY`, 4 x `DEFAULT_*` (`OnceLock` statics) | `toy_override_queries`, `toy_layout_of`, `toy_mir_built`, `toy_mir_borrowck`, `toy_mir_shims` | rustc's query system, on any worker thread |
| lowering (`toylang/lower.rs`) | `Lower`: locals, variable map, finished blocks, block in progress | `build_body`, `lower_stmt`, `lower_expr_into`, `infer_ty` | `toy_mir_built` |
| registry and layout (`toylang/registry.rs`, `build_layout`) | immutable | `size`, `align`, `field_offsets` | `toy_layout_of` |
| syntax tree (`toylang/ast.rs`) | immutable | - | parser, lowering |
| lexer (`toylang/parser.rs`) | character cursor, growing token list | `tokenize` | `parse` |
| parser (`toylang/parser.rs`) | token cursor, growing registry | `parse`, `parse_program` down to `parse_primary` | `extract_registry` |
| synthetic bodies (`mir_helpers.rs`) | none | `build_const_i32_body`, `build_drop_call_body`; `build_make_vec_body` and `build_vec_len_body` have no caller; `find_extern_fn` | `toy_mir_built`, `toy_mir_shims` |
| type oracle (`oracle.rs`) | none | `find_local_struct_ty`, `find_vec_method`, `extract_global_ty`, a dump | lowering, synthetic bodies |
| sample programs (`tests/`) | their `Vec`s | call the Toylang functions, drop what they got | the user |

What is hard here:

- **Bookkeeping across nested calls** (lowering). A MIR call ends a basic block. While an
  expression is lowered, its nested calls close blocks, allocate locals and emit storage
  markers between the markers of the outer one. Nobody checks the result: borrow checking
  is switched off for exactly these bodies.
- **Two computations that must agree** (layout). `size()` and `field_offsets()` are
  separate loops, whose results rustc takes as one layout.
- **Overlapping tokens and one token of look-ahead** (lexer, parser). Words, numbers,
  comments and pairs such as `::` overlap with one-character tokens; which branch is
  taken depends on the one or two characters at the cursor, and the parser decides by
  one token, and at the last token `consume` stays where it is. Nothing is checked afterwards.
- **Bodies written by hand** (synthetic bodies). Their locals, blocks and argument count
  are spelled out in the builders, apart from the signatures they are called by; and the
  drop glue is called by rustc once per element.
- **Global state set up in an order** (queries). The statics must be filled before
  the first query and the defaults saved before they are overwritten; every module has
  its own copy of the registry and its own test of what is Toylang's.
- **Worker threads**. rustc memoises queries, demands them from several threads, and
  nests them. Answers must not depend on who asks first.

Nothing is persisted, sent over a network or retried, so there is no crash recovery,
message loss or timeout to model.

## Modules

| module | models |
|---|---|
| `ToyAst` | the syntax tree, `ast.rs` |
| `ToyMir` | the fragment of MIR the compiler writes |
| `ToyLower` | `lower.rs`: one action per arm of `lower_expr_into` and `lower_stmt`, and per part of `build_body` |
| `ToyLowerProps` | what the lowering guarantees about the body |
| `ToyLower_proofs` | theorems about the lowering: types of the state, chain of blocks, storage lifetimes, temporaries released, inferred types are the types stored |
| `ToyChecks` | external: what rustc's checks would demand of the body's types and moves |
| `MirMachine` | external: rustc and `Vec` executing a MIR body |
| `ToyMeaning` | abstract specification: what a source function means |
| `ToyProgram` | `ToyLower`, then `MirMachine` on its output, for any source |
| `ToyProgram_proofs` | theorems about the compiled program: storage at run time, and that bodies that pass `ToyChecks` are never undefined |
| `ToyCompile` | `ToyProgram` on the functions the compiler is meant for; implements `ToyMeaning` |
| `ToyCompile_proofs` | theorems about these: their bodies pass `ToyChecks`, and the compiled program implements `ToyMeaning` |
| `ToyLayout`, `ToyLayout_proofs` | the layout loops and `build_layout`, and theorems about them |
| `Characters` | the kinds of characters and of tokens |
| `ToyLexer` | `tokenize`: one action per branch of its loop |
| `ToyLexemes` | abstract specification: what a text consists of; implemented by `ToyLexer` |
| `ToyLexer_proofs` | theorems about the lexer, the refinement among them |
| `ToySyntax` | tokens, and definitions, types and bodies as the parser builds them |
| `ToyParser` | the recursive descent parser: one action per branch |
| `ToyGrammar` | abstract specification: the texts of a program, in the written grammar and with the parser's liberties; the latter implemented by `ToyParser` |
| `ToyParserProps` | that the parser reads the grammar, over texts that someone writes down |
| `ToyParser_proofs` | theorems about the parser: cursor, registry, well-formed trees |
| `ToyShims` | the two hand-written bodies that the queries return, and the search for the destructor |
| `ToyHost` | a host program that calls these bodies on `MirMachine` and drops what it makes |
| `ToyHost_proofs` | theorems about the host program: no undefined behaviour, drops |
| `ToyCrate` | registries, items and query keys |
| `QueryContract` | abstract specification: what the driver promises rustc |
| `ToyQueries`, `ToyQueries_proofs` | a session from the command line to the last query; implements `QueryContract` |
| `MC*` | instances for TLC |

### ToyLower

The Rust code recurses over the tree and appends to `locals`, `blocks` and
`current_stmts`. The model keeps these as variables, and the recursion as a stack of
`frames`; an action is one uninterrupted run of appends between two recursive calls.
`BeginPush`, for example, is all of the push arm up to the lowering of its argument, and
`FinishPush` all of it after. A local is its index and a type is one of seven values
(the compiler knows no others, and names them all). The i64 to i32 cast of literals is
modulo `I32Card`. `infer_ty` panics are guards (`Inferable`), and every panic of the
lowerer is a disjunct of `Panic`. What the Rust stub contributes (`fn_sig`) is in the
function record: the types of inputs and output need not fit the Toylang parameters.

`MirMachine` executes the body with the preconditions rustc and `Vec` put on it: a local is read
only if it is live and initialised, moving a value that is not `Copy` leaves its local
uninitialised, and argument types must fit. A call whose next instruction's preconditions
(`CanStep`) do not hold is *stuck* (undefined behaviour). `ToyMeaning` evaluates the same tree
without any of this. `ToyCompile` states that running the compiled body implements the
evaluation, for the functions in `Supported`: those that mean something and keep to three
restrictions that the code has (`InScope`, `OnReference`, `InOrder`). The runs `self_shadow` and
`len_receiver` show what happens without the first two.

`ToyChecks` reads a finished body as rustc's checks would if `toy_mir_borrowck` did not answer
for them: each local has a value where it is read, not moved nor dead since; what `push`
borrows is still there; operands have the types their instruction takes. As blocks form a
chain, "since" is about the order of the text. Loans and lifetimes are left out (the comment
at borrowck.rs:28 says that hand-built bodies do not pass the check as a whole), so
this is a part of rustc's demands, the part that an instruction needs to run.

### ToyLexer and ToyLexemes

`ToyLexer` is the loop of `tokenize` with its cursor `i`. A token is its kind and the span of
its characters, as nothing in the lexer depends on what a word says; of a number only its
fitting into an i64 matters (`Panic` is the `unwrap` of `parse::<i64>`). The order of the
branches is in their guards. The inner loops over a word, a number or a comment run to
`RunEnd`.

`ToyLexemes` has no cursor and no order of branches. It says of each *position* of the text
whether it is in a comment, a word or a number, by what precedes it on the line, and calls a
maximal span a lexeme; of a row of colons it pairs them off from the left. The lexer yields
exactly these, in order, and then one `Eof`: `YieldsLexemes`, the abstract specification
instantiated with the lexer's variables.

### ToyParser and ToyGrammar

The Rust call stack is the `agenda` (what the active functions still have to do, innermost
first), their local variables are the `values`. Calling a parse function puts its steps on the
agenda; a step expects a token kind, or is a loop or a choice that the token at the cursor
decides, or builds a node of the values parsed last. `Err` is returned through every caller: one
action, `Reject`. `consume` stays at `Eof`, which is why every loop has a test for `Eof` of its
own, in the model as in the code. The registry's two `HashMap`s are functions, and `insert`
replaces.

`ToyGrammar` is generative: it says which token lists are a text of a given expression,
type, statement or definition, and what a program's registry is: the last definition of each
name. There are two grammars. `Documented` (`Tolerant = FALSE`) is the one that
`implemented.md:307-326` writes down: commas between the elements of a list, one more allowed
after the last field of a struct definition, at least one type in `<>`, a brace at the end of
every body. `Grammar` (`Tolerant = TRUE`) adds what the parser's loops let pass: a comma after
an element is optional everywhere, `<>` may be empty, and the last body may end with the file,
as its loop ends at `Eof` as it does at a brace and then *consumes* either.

`ToyParserProps` lets someone write a program down (`source`), with or without these liberties,
and has the parser read it. `ReadsTheGrammar` says that such a program is read as itself,
and that any other text that is accepted is a text, with no further liberty, of the
definitions it was read as. That the liberties go beyond the documents is the finding of the
run `loose_grammar`: `fn f(a: M<> b: P,) {` is accepted, and `AcceptsOnlyTheGrammar` is false.

### ToyShims and ToyHost

Two bodies are written by hand and returned by a query: that of `get_x` in the hardcoded
registry (`build_hardcoded` has no other; for `make_vec` and `vec_len` it panics, which is
`Panics` of `ToyQueries`), and the drop glue. They are written down block by block, as the
builders do. The host may call `get_x` and make, extend and drop `Vec`s in any order.
Dropping a `Vec` is the standard library's work (external): if `Point` implements `Drop`, it
runs the drop glue for one element after the other. The destructor is a foreign function
(external) that a crate may or may not declare, and `find_extern_fn` looks for it by name.

`MirMachine` gives a call the arguments that its body declares, `arg_count` of them. The glue
declares its pointer. `get_x`'s body declares nothing, while the caller (`tests/mir_test.rs:13`)
passes the `Point` that the signature asks for: the value has no local, nothing drops it, and
the run `get_x_args` reports the disagreement with `implemented.md:705`.

### ToyQueries

`LoadFile`, `LoadBadFile` and `LoadHardcoded` are the three ways through
`extract_registry`; `Config` and `OverrideQueries` are the two callbacks. From then on
every thread has a stack of provider calls. `Demand`, `DemandNested`, `RustcAnswers` and
`Return` are rustc's query system (external: a query runs once, other threads wait for
it). `LayoutOf`, `MirBuilt`, `MirBorrowck` and `MirShims` are the intercepting halves of
the four overrides, `Delegate` their other half, `Panic` the panics of all of them.
A static is Unset until the first `set` and deaf to later ones (`SetOnce`).

`QueryContract` has no statics, no threads and no order: it answers a key with what the
command line's definitions say if the item is a *stub* of one of them, and with rustc's
answer if not. The code cannot see what is a stub, it compares names. `KeepsContract`
therefore holds on crates in which only stubs bear Toylang names, and `namesake` shows
the difference.

A panic in a worker thread ends the session. A `.toylang` file is abstracted to the registry
it parses to or to Unreadable, a function body to a value that `build_body` can lower or
not (`Misfits`).

### ToyLayout

One action per round of each loop. `(x + a - 1) & !(a - 1)` is `AlignUp`; that this
is the same for the alignments in use is checked by an assumption of `MCToyLayout`, over
the values that occur in the run. Arithmetic is on naturals: a struct that gets near
2^64 bytes does not fit in a source file.

## Runs

| run | instance | what it shows |
|---|---|---|
| `lower_shape` | bodies of 0-2 statements from 12, with or without a trailing expression, 6 signatures, `I32Card` = 8 | any body, also one that is ill-typed or unscoped, is lowered to well-formed MIR, or the lowering panics |
| `lower_exec` | supported bodies of 0-2 statements (3 without parameters), the two functions of `tests/point.toylang` among them, all arguments | the call returns the source's meaning and never gets stuck, and the body passes `ToyChecks` |
| `layout` | all structs of 0-4 fields | the layout is the C layout |
| `queries` | 6 command lines, 2 threads, a crate with 3 stub structs (with a destructor, without, and without a `Drop` impl), 2 stub functions and 3 other items | the session implements the contract and answers everything |
| `lexer` | all texts of up to 4 characters over 9, and of up to 6 over the characters of one construct; `MaxI64` = 10 | the lexer yields the lexemes of the text |
| `parser` | programs of up to 2 definitions out of 9, in all the ways of writing them; and every text that is one edited token, or a break-off, away from one of 10 | the parser reads the grammar, also from broken texts |
| `host` | 12 crates: 3 lists of foreign functions, `get_x` with and without a parameter, `Point` with and without a `Drop` impl; up to 2 `Vec`s of up to 3 elements | the hand-written bodies are executable, and no element is leaked or dropped twice |
| `len_receiver`, `self_shadow` | bodies of 2 statements without parameters; bodies whose `let` mentions its own name | the code against its comments and documents, see `findings` |
| `loose_grammar` | two token lists | the parser against the written grammar |
| `get_x_args` | the crate of `tests/mir_test.rs` | the body of `get_x` against its signature |
| `namesake` | the crate of `queries` with a function called like a stub | interception by name |

The bounds are chosen so that the interesting cases occur. Two statements are enough for
a local of the first to be used, shadowed or moved by the second; the expressions nest
calls in literals, literals in calls and calls in calls, so several blocks are closed
within one expression. The bodies of `lower_exec` push twice, move a Vec, read a
parameter through `&Vec` and return each kind of value. Four fields contain every
sequence of the alignments 1, 4 and 8 that produces inner and tail padding. Two threads
are enough for one to wait for a query the other has started, at top level and nested.
Four characters are the shortest texts in which a construct of two characters is cut into
by another on either side; six hold three pairs of colons, a word in a comment after a
comment, and a number that runs into a word. In the parser the 9 definitions contain every
production, among them words that are keywords elsewhere (`struct`, `fn`, `let`), and two
definitions are enough for one to replace the other or to be swallowed by a broken first
one. Three elements and two `Vec`s make the drops of one follow those of the other.

Properties, by run (each has a mutant in `PROJECT.json` that breaks it):

- `lower_shape`: `TypeOK`; `BlocksChained` (every branch target exists and is the next
  block); `StorageLiveOnce`, `UsedWhileStored`, `TemporariesDie` (the storage discipline,
  over all paths as the blocks form a chain); `DeclaredTypeHolds` (the type predicted
  before lowering is the type stored after); `Terminates`.
- `lower_exec`: `NeverUndefined`, `BodiesPassChecks` (nothing that a supported function is
  compiled to would have needed the checks that are switched off), `ImplementsMeaning`,
  `CallReturns`.
- `layout`: `TypeOK`, `RoomForFields`, `FieldsPlaced`, `ArraysAligned`.
- `lexer`: `TypeOK`, `YieldsLexemes`, `Ends`.
- `parser`: `TypeOK`, `ReadsTheGrammar`, `ParseEnds`.
- `host`: `NeverUndefined` (no instruction of a hand-written body is stuck),
  `DestroyedOnce` (at every moment, exactly the elements of dropped `Vec`s that are not
  waiting have been destroyed, each once), `CallsReturn`.
- `queries`: `TypeOK`, `SameOwner`, `PanicsOnlyOnBadInput`, `KeepsContract`,
  `EveryDemandAnswered`.

All runs but those of `ToyHost` set `CHECK_DEADLOCK FALSE`: a compilation ends. That it does
not end early is what the liveness properties are for. A host program can always go on.

One disagreement with the documents has no run: a `let` emits a `StorageLive` and never a
`StorageDead` (lower.rs:311), against rule 1 of `implemented.md:690`. `TemporariesDie` states
it by counting: the locals that are never dead are exactly as many as the lets. The same for
`arg_count` of a lowered function, which is `fn_sig.inputs().len()` (lower.rs:384) while the
locals come from a zip with the Toylang parameters (lower.rs:379): it is the premise of
`RunsInStorage` below.

**Fairness.** The lexer, the parser, the lowering, the layout and the called function are
sequential code that waits for nothing: weak fairness of the next-state relation. In
`ToyHost` only a call or a drop that is under way is fair (`Working`): the host
may stop calling at any time. In `ToyQueries` each worker
thread is weakly fair, because each is a running OS thread, and so is the start-up. No
property needs strong fairness.

## Proofs

`ToyLower_proofs` proves every safety property of the run `lower_shape`, for every set of
expressions and functions:

- `TypeCorrect`: `Spec => [](TypeOK /\ Prologue)`. `Prologue` says that the argument locals
  are in front; without it, `TypeOK` is not inductive, because `BindParam` reads
  `fn.inputs[next]`. The heart is that all instructions that are well-typed over n locals
  are well-typed over more.
- `ChainCorrect`: `Spec => []BlocksChained`, inductive with `TypeOK`: all calls are
  emitted by `Finalize` with `NextBlock`.
- `StorageCorrect`: `Spec => []StorageLiveOnce`. The lemmas follow a `StorageLive` site
  from the block in progress into the finished blocks (`Closed`), and show that a fresh
  local is mentioned nowhere (`FreshHasNoSite`, from `TypeOK`).
- `StorageLifetimes`: `Spec => []UsedWhileStored`. A *site* is a place in the text, finished
  blocks and block in progress alike, and each step only adds sites at its end (`Extends`),
  so a property of the text is disturbed by the last instructions alone. A `StorageDead`
  is harmless if nothing uses its local later; what may be used later is what is *in use*:
  variables, the parts that pending calls hold, the place being filled. `StorageInv` says
  that no local in use has a `StorageDead`, and that the temporaries of the pending calls are
  `Ordered` along the stack of frames: each is allocated after those of the frames that
  enclose it, so that a call that finishes kills nothing of an outer one.
- `StorageReleased`: `Spec => []TemporariesDie`, by counting: the locals without a
  `StorageDead` that are not temporaries of a pending call (`Kept`) are as many as the lets
  lowered so far (`Lets`). A finished body has no pending calls.
- `InferredTypesHold`: `Spec => []DeclaredTypeHolds`. The destination of every pending call
  was declared with the type of the call (`FrameTyped`), and a type once declared is not
  changed by later locals (`MoreLocals`). It holds for ill-typed sources too, and for a `let`
  that shadows what its own expression reads: that one goes wrong at run time only (`self_shadow`).

`ToyProgram_proofs` carries these theorems from the text of the body to its execution, again
for every source, supported or not:

- `ChecksSuffice`: `CompileSpec => [](PassesChecks => NeverUndefined)`. Since borrow checking is
  off, the lowering alone answers for undefined behaviour; the theorem says how much is left
  for the source to answer for. `RunInv` relates memory to the text before the next
  instruction (`Here`): a local is live iff its storage began and has not ended
  (`LiveInv`); if the text gives it a value, it holds one of its declared type, and a borrow
  is of the local it was taken of (`MemInv`). An instruction has its `Effects` on memory, and
  what the text says at the next site differs from what it says here by this instruction
  alone (`SinceStep`, `InitialisedStep`, `HasStorageStep`), so the two stay related
  (`StepKeeps`). With the invariants of the lowering (`TextInv`) and the checks, each
  instruction's preconditions follow, one by one (`StatementRuns`, `TerminatorRuns`).
- `RunsInStorage`: `CompileSpec => []StorageHolds`. From the same invariant and without the checks:
  every instruction finds storage under the locals it touches. The one premise is that the
  call passes as many arguments as the body binds; the code does not see to that, as the zip
  at lower.rs:379 stops at the shorter list.

`ToyCompile_proofs` proves that the compiler is correct: for the functions in `Supported`,
of any length and with any number of names, and for every argument list,

- `SupportedBodiesPass`: `CompileSpec => [](Supported(fn) => BodiesPassChecks)`;
- `SupportedNeverUndefined`: `CompileSpec => [](Supported(fn) => NeverUndefined)`, from it by
  `ChecksSuffice`;
- `CompilesCorrectly`: `CompileSpec /\ Supported(fn) => ImplementsMeaning`. `fn` is chosen in the
  initial state and stays, and `ImplementsMeaning` is the specification of `ToyMeaning`, so this is
  the refinement.

The argument goes by a *trace*. The state before each site of the text, in a run of the function
that starts with the arguments, is a function on sites (`History`); at each site the instruction
`Fit`s the state there and `Do`es what leads to the next. The trace is quantified and grows with
the text, while the function is still being lowered: whatever the lowering appends, the trace
can be continued over (`Reaches`). So the invariant is one of the lowering, in which there is no
machine yet, and an argument about each action of `lower_expr_into` on its own. `Tracks` says of
the state at the end of the text what the lowerer relies on: every variable's local holds what
the source gives the variable there (`Holds`), except the one whose initialiser is being
lowered; the temporaries that a pending call has filled hold the values of its parts, and what
it borrows is still there (`Calls`); and what is left to lower, evaluated in that environment,
leads to what the source means (`Bottom`). `NameInv` adds that two variables never share a
local, and that a parameter's local is its last argument's. `TraceInv` is `Tracks` for some
trace, and with the invariants of the lowering and of the run it is inductive (`CompileInv`).

A trace of a finished body then gives both results. Since its instructions fit, what they read has
a value on it, and a value that is on the trace must have been put by the text (`Sound`,
`HistorySound`): so the checks, which know the text alone, pass. And the machine follows the
trace (`RunTrace`), on which the return value is what the source means
(`ReturnsMeaning`). The three restrictions in `Supported` are each used: `InScope` where a `let`
names its local before its initialiser is lowered, `OnReference` for the receiver of `len`,
`InOrder` for the operands of a struct. The run `lower_exec` has only functions that are `Supported`,
so the premise is not empty, and the runs `self_shadow` and `len_receiver` are
counterexamples without it. TLC cannot evaluate `TraceInv`, which quantifies over traces; it checks what
follows from it, which are the properties of `lower_exec`.

`ToyLayout_proofs` proves the four properties of the layout for structs of any length.
The invariant `IInv` relates the two loops: there is a *trace* of running offsets, which the first
loop extends and the second runs along again. The trace is quantified, not a recursive
definition, so that no induction over data is needed; the induction is that of the steps.

`ToyQueries_proofs` proves, for every crate, any set of `.toylang` files and any number
of threads, that the session implements `QueryContract` (`ContractKept`, the refinement)
if the crate is `Unambiguous`: only stubs bear the names of Toylang definitions, and
all code is in Rust files. Without `Unambiguous` it is false, and `namesake` is the
counterexample. `OwnerCorrect` needs only the second half; `TypeCorrect` and
`PanicsCorrect` need neither. The invariant has three parts. `Prepared` says what each phase
of the start-up has set, up to the four copies of the registry being the one the command
line asks for; `Working` says that rustc's own provider is in charge of a key only if no
installed definition names it, and that an answer is the one `Given` by the registry.
The start-up establishes `Prepared` while the threads are idle; the threads keep
`Working` while the statics no longer change. The first flag of a command line is found with `WFMin`.

`ToyLexer_proofs` proves, for every text over any classification of characters, that the
lexer implements `ToyLexemes` (`Refines`), and the type invariant. The branches look at one
or two characters only, so the proof needs to know what a cursor position is: a `Boundary`,
that is, not inside a word, a number, a comment, an arrow or a pair of colons. `LInv`
says that the cursor is at a boundary, that all tokens end at or before it, and that no
lexeme begins between the last token's end and the cursor. Each branch is then shown to move
from boundary to boundary over one lexeme, or over none.

`ToyParser_proofs` proves for token lists of any length that the cursor never leaves the
tokens (`CursorCorrect`: `consume` saturates at `Eof`, and `Eof` is last), that the
registry answers each name with the last definition of it in the text (`RegistryCorrect`),
and that every definition is a well-formed tree (`TreesCorrect`, and with it
`TypeCorrect`). The last is the Rust type system's share of the work, which the model's stack
of untyped values gives away: the parts that the pending calls hold are one stack, and
whichever branches the text makes the parser take, each call has to find its own on top.
`Typed` states it without looking at values: there is a stack of *kinds* that the
values have (`Fits`), and a chain of such stacks along the agenda, from this one to the
empty one, in which each item maps the kinds before it to the kinds after (`Effect`, one line per
item). A branch replaces the first item by others that lead from the same stack to the same
one; so the proof of a branch looks at its own items only (`Continues`).

`ToyHost_proofs` proves, for every crate, any number of `Vec`s of any length, and a
host that calls and drops in any order, that no hand-written body reaches an instruction whose
preconditions do not hold (`NoUndefinedBehaviour`; arguments that a body does not declare are no
part of it) and that the destructor is called once with each dropped element and with
nothing else (`DropsOnce`). `HInv` says of each body what its locals hold at each instruction
(`AtGetX`, `AtGlue`).
For the drops, `destroyed` is what was to be destroyed without what is waiting,
together with the element of the glue that is past its call (`InGlue`);
`DestroyedOnce` alone is not inductive, as it leaves open which element a running glue
was called for.

The assumptions are those of the modules' `ASSUME`s: that a text consists of characters, that
a token list has its one `Eof` at the end, that the sets of expressions and
statements are closed and typed, that structs are sequences of field types, that a
command line is a sequence of strings, that a parsed function has a body, and that the unit
type has one value (`ArgValuesAssumption`). TLC evaluates them on each run's constants.

Every invariant and every action property of the passing runs is proved, except one. Out of the
prover's reach, and only model-checked, are:

- liveness: `Terminates`, `CallReturns`, `CallsReturn`, `EveryDemandAnswered`, `Ends`,
  `ParseEnds`. `CompilesCorrectly` says what is answered, not that it is;
- `ReadsTheGrammar`, as `ToyGrammar` is recursive over trees of any depth. `ToyMeaning` is not:
  an expression that means something has at most three levels, as there are no values to nest
  any deeper.

## Not modelled

- Which text a word or number token stands for: the lexer's tokens are spans, the parser's
  are opaque words and small numbers. No property relates the two.
- `peek2` has no caller.
- `build_make_vec_body` and `build_vec_len_body`: nothing calls them. What `make_vec` and
  `vec_len` of `tests/point.toylang` are compiled to is part of `lower_exec`.
- `find_vec_method`, `extract_global_ty` and the dump of the oracle: they read tables of
  rustc that are the same for every crate, or only print. `find_local_struct_ty` is modelled
  by its outcome (the field `point` of a function): that it takes the first struct of the name,
  in whatever module, is not.
- Drops in lowered bodies. The lowering emits no `Drop` terminator, so a `Vec` or a `Point` with
  a destructor that a `let` or a parameter still holds at the end is leaked. The model
  emits what the code emits; no property counts these leaks.
- Functions outside `Supported`, beyond the shape of their bodies: use after a move, an argument
  of `push` that moves its receiver, and literals that the cast to i32 wraps have no meaning to
  compare with. `ChecksSuffice` names what such a body would have to pass.
- The declared Rust fields of a stub. `build_layout` never looks at them (layout.rs:54), so
  their agreement with the Toylang fields is the user's affair, and no property speaks of it.
- What rustc's later passes make of `get_x`'s body when its `arg_count` is not the number of its
  arguments; the model lets the undeclared value go and goes on.
- Spans, scopes, debug info, messages, the ICE hook.
- A second session in one process, which the comment on `install_registry` mentions for
  tests: `main` starts one.
- A `.toylang` source file loaded by rustc itself: the test for it is modelled in
  `Intercepted`, but there is no loader, so no instance has such an item.
- Unwinding out of a call: the edges are `UnwindAction::Continue` and no cleanup block is
  ever built.

## Plan

1. Done: `ToyLower` with its properties and proofs, `ToyCompile` with the proof that it implements
   `ToyMeaning`, `ToyLayout` with its proofs, `ToyQueries` with its proofs, `ToyLexer` with its
   refinement proved, `ToyParser` against its grammar and with its proofs, `ToyShims` in a host
   program with its proofs.
2. Left: the converse of `ChecksSuffice`, that a call that returns was of a body that
   passes the checks, so that the checks ask for no more than the run needs.
