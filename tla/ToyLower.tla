------------------------------ MODULE ToyLower ------------------------------
(***************************************************************************)
(* The lowering of one Toylang function to a MIR body: build_body and the   *)
(* Lower state of src/toylang/lower.rs.                                     *)
(*                                                                         *)
(* The Rust code is a recursive descent over the syntax tree that appends   *)
(* to four growing structures.  Here the recursion is a stack of frames,    *)
(* so that each step is one uninterrupted run of appends of the code: what  *)
(* one arm of lower_expr_into or lower_stmt does before, between or after   *)
(* its recursive calls.                                                     *)
(***************************************************************************)
EXTENDS ToyAst, ToyMir

CONSTANTS
  Names,      \* variable and parameter names
  Exprs,      \* a set of expressions closed under sub-expression
  Functions,  \* the functions that may be lowered
  I32Card     \* how many values an i32 has: 2^32 in the program

ASSUME ExprsAssumption == IsExprUniverse(Exprs, Names)

(* A function to lower: the parameter names, statements and trailing        *)
(* expression come from the .toylang file, the input and output types from   *)
(* the Rust stub's fn_sig, and point says whether the crate has a struct     *)
(* named Point for the type oracle to find.                                 *)
ASSUME FunctionsAssumption ==
  \A f \in Functions :
    /\ f.params \in Seq(Names)
    /\ f.inputs \in Seq(Types)
    /\ f.output \in Types
    /\ f.point \in BOOLEAN
    /\ Len(f.stmts) \in Nat
    /\ \A i \in 1 .. Len(f.stmts) : IsStmt(f.stmts[i], Exprs, Names)
    /\ f.ret \in Seq(Exprs)
    /\ Len(f.ret) <= 1

ASSUME I32CardAssumption == I32Card \in Nat /\ I32Card >= 2

VARIABLES
  fn,        \* the function being lowered
  phase,     \* "resolve", "params", "body", "done" or "panicked"
  next,      \* index of the parameter or statement to handle next
  locals,    \* local_decls: locals[l + 1] is the type of _l
  localMap,  \* local_map: variable name -> local, or Unbound
  blocks,    \* the finished basic blocks
  current,   \* current_stmts: statements of the block in progress
  frames     \* the active lowering calls, innermost last

vars == <<fn, phase, next, locals, localMap, blocks, current, frames>>

Unbound == -1
Bound(x) == localMap[x] # Unbound

\* The locals, and the index the next alloc_local returns.
Locals == 0 .. Len(locals) - 1
Fresh  == Len(locals)
TypeOf(l) == locals[l + 1]

\* The number of (name, type) pairs of the zip in build_body.
ArgPairs == IF Len(fn.params) < Len(fn.inputs) THEN Len(fn.params) ELSE Len(fn.inputs)

\* *n as i32
AsI32(n) == ((n + I32Card \div 2) % I32Card) - I32Card \div 2

-----------------------------------------------------------------------------
(* Frames: what remains of a call of the lowerer once its callee returns.   *)
EvalFrame(e, d)       == [f |-> "eval", expr |-> e, dest |-> d]
FieldsFrame(i, ts, e, d) == [f |-> "fields", done |-> i, tmps |-> ts, expr |-> e, dest |-> d]
PushFrame(r, a, d)    == [f |-> "push", ref |-> r, arg |-> a, dest |-> d]
DeadFrame(t)          == [f |-> "dead", tmp |-> t]

Top    == frames[Len(frames)]
Popped == SubSeq(frames, 1, Len(frames) - 1)
Active(kind) == phase = "body" /\ frames # << >> /\ Top.f = kind
Idle == phase = "body" /\ frames = << >>

\* infer_ty, and the expressions on which it does not panic.
Inferable(e) ==
  \/ e.k \in {"IntLit", "StructLit"}
  \/ e.k = "Var" /\ Bound(e.name)
  \/ IsVecNew(e) \/ IsPush(e) \/ IsLen(e)

\* Mistake: a push is taken to have the type of its receiver.
InferTyOfPushIsVec(e) ==
  CASE e.k = "IntLit"    -> "i32"
    [] e.k = "Var"       -> TypeOf(localMap[e.name])
    [] e.k = "StructLit" -> "Point"
    [] IsVecNew(e)       -> "Vec"
    [] IsPush(e)         -> "Vec"
    [] IsLen(e)          -> "usize"

InferTy(e) ==
  CASE e.k = "IntLit"    -> "i32"
    [] e.k = "Var"       -> TypeOf(localMap[e.name])
    [] e.k = "StructLit" -> "Point"
    [] IsVecNew(e)       -> "Vec"
    [] IsPush(e)         -> "unit"
    [] IsLen(e)          -> "usize"

\* The receiver of push or len is a bound variable.
ReceiverFound(e) == e.receiver.k = "Var" /\ Bound(e.receiver.name)

-----------------------------------------------------------------------------
(* finalize_block: close the block in progress with a terminator, and start *)
(* the next one with the given statements.                                  *)
Finalize(term, following) ==
  /\ blocks' = Append(blocks, BasicBlock(current, term))
  /\ current' = following

\* Mistake: the target is read after the block is pushed.
NextBlockAfterPush == Len(blocks) + 2

\* next_bb, computed before the block in progress is pushed.
NextBlock == Len(blocks) + 1

-----------------------------------------------------------------------------
Init ==
  /\ fn \in Functions
  /\ phase = "resolve"
  /\ next = 1
  /\ locals = << >>
  /\ localMap = [x \in Names |-> Unbound]
  /\ blocks = << >>
  /\ current = << >>
  /\ frames = << >>

(* The type oracle finds Point, Vec::new, push and len; the return place is *)
(* allocated.                                                               *)
Resolve ==
  /\ phase = "resolve"
  /\ fn.point
  /\ locals' = Append(locals, fn.output)
  /\ phase' = "params"
  /\ UNCHANGED <<fn, next, localMap, blocks, current, frames>>

\* Mistake: a parameter is numbered after its local is pushed.
BindParamAfterPush ==
  /\ phase = "params"
  /\ next <= ArgPairs
  /\ locals' = Append(locals, fn.inputs[next])
  /\ localMap' = [localMap EXCEPT ![fn.params[next]] = Len(locals')]
  /\ next' = next + 1
  /\ UNCHANGED <<fn, phase, blocks, current, frames>>

(* One round of the loop over param_names zipped with fn_sig.inputs().      *)
BindParam ==
  /\ phase = "params"
  /\ next <= ArgPairs
  /\ locals' = Append(locals, fn.inputs[next])
  /\ localMap' = [localMap EXCEPT ![fn.params[next]] = Fresh]
  /\ next' = next + 1
  /\ UNCHANGED <<fn, phase, blocks, current, frames>>

StartBody ==
  /\ phase = "params"
  /\ next > ArgPairs
  /\ phase' = "body"
  /\ next' = 1
  /\ UNCHANGED <<fn, locals, localMap, blocks, current, frames>>

-----------------------------------------------------------------------------
(* lower_stmt                                                               *)

\* Mistake: StorageLive is left out for a let.
LowerLetWithoutLive ==
  /\ Idle /\ next <= Len(fn.stmts)
  /\ LET s == fn.stmts[next] IN
       /\ s.k = "Let"
       /\ Inferable(s.expr)
       /\ locals' = Append(locals, InferTy(s.expr))
       /\ localMap' = [localMap EXCEPT ![s.name] = Fresh]
       /\ frames' = <<EvalFrame(s.expr, Fresh)>>
  /\ next' = next + 1
  /\ UNCHANGED <<fn, phase, blocks, current>>

LowerLet ==
  /\ Idle /\ next <= Len(fn.stmts)
  /\ LET s == fn.stmts[next] IN
       /\ s.k = "Let"
       /\ Inferable(s.expr)
       /\ locals' = Append(locals, InferTy(s.expr))
       /\ localMap' = [localMap EXCEPT ![s.name] = Fresh]
       /\ current' = Append(current, StorageLive(Fresh))
       /\ frames' = <<EvalFrame(s.expr, Fresh)>>
  /\ next' = next + 1
  /\ UNCHANGED <<fn, phase, blocks>>

LowerExprStmt ==
  /\ Idle /\ next <= Len(fn.stmts)
  /\ LET s == fn.stmts[next] IN
       /\ s.k = "ExprStmt"
       /\ Inferable(s.expr)
       /\ locals' = Append(locals, InferTy(s.expr))
       /\ current' = Append(current, StorageLive(Fresh))
       /\ frames' = <<DeadFrame(Fresh), EvalFrame(s.expr, Fresh)>>
  /\ next' = next + 1
  /\ UNCHANGED <<fn, phase, localMap, blocks>>

EndExprStmt ==
  /\ Active("dead")
  /\ current' = Append(current, StorageDead(Top.tmp))
  /\ frames' = Popped
  /\ UNCHANGED <<fn, phase, next, locals, localMap, blocks>>

-----------------------------------------------------------------------------
(* lower_expr_into, one action per arm                                      *)

LowerIntLit ==
  /\ Active("eval") /\ Top.expr.k = "IntLit"
  /\ current' = Append(current, Use(Top.dest, Const(AsI32(Top.expr.n))))
  /\ frames' = Popped
  /\ UNCHANGED <<fn, phase, next, locals, localMap, blocks>>

LowerVar ==
  /\ Active("eval") /\ Top.expr.k = "Var"
  /\ Bound(Top.expr.name)
  /\ current' = Append(current, Use(Top.dest, Move(localMap[Top.expr.name])))
  /\ frames' = Popped
  /\ UNCHANGED <<fn, phase, next, locals, localMap, blocks>>

BeginStruct ==
  /\ Active("eval") /\ Top.expr.k = "StructLit"
  /\ frames' = Append(Popped, FieldsFrame(0, << >>, Top.expr, Top.dest))
  /\ UNCHANGED <<fn, phase, next, locals, localMap, blocks, current>>

\* One round of the loop over the literal's fields.
LowerField ==
  /\ Active("fields")
  /\ Top.done < Len(Top.expr.fields)
  /\ LET e == Top.expr.fields[Top.done + 1].expr IN
       /\ Inferable(e)
       /\ locals' = Append(locals, InferTy(e))
       /\ current' = Append(current, StorageLive(Fresh))
       /\ frames' = Append(Append(Popped,
                      FieldsFrame(Top.done + 1, Append(Top.tmps, Fresh), Top.expr, Top.dest)),
                      EvalFrame(e, Fresh))
  /\ UNCHANGED <<fn, phase, next, localMap, blocks>>

\* Mistake: the field temporaries die before the aggregate reads them.
FinishStructDeadFirst ==
  /\ Active("fields")
  /\ Top.done = Len(Top.expr.fields)
  /\ LET ts == Top.tmps IN
       current' = current \o [i \in 1 .. Len(ts) |-> StorageDead(ts[i])]
                          \o <<Aggregate(Top.dest, [i \in 1 .. Len(ts) |-> Move(ts[i])])>>
  /\ frames' = Popped
  /\ UNCHANGED <<fn, phase, next, locals, localMap, blocks>>

\* Mistake: the operands of the aggregate are in reverse order.
FinishStructReversed ==
  /\ Active("fields")
  /\ Top.done = Len(Top.expr.fields)
  /\ LET ts == Top.tmps
         n  == Len(ts)
     IN current' = current \o <<Aggregate(Top.dest, [i \in 1 .. n |-> Move(ts[n + 1 - i])])>>
                     \o [i \in 1 .. n |-> StorageDead(ts[i])]
  /\ frames' = Popped
  /\ UNCHANGED <<fn, phase, next, locals, localMap, blocks>>

FinishStruct ==
  /\ Active("fields")
  /\ Top.done = Len(Top.expr.fields)
  /\ LET ts == Top.tmps IN
       current' = current \o <<Aggregate(Top.dest, [i \in 1 .. Len(ts) |-> Move(ts[i])])>>
                          \o [i \in 1 .. Len(ts) |-> StorageDead(ts[i])]
  /\ frames' = Popped
  /\ UNCHANGED <<fn, phase, next, locals, localMap, blocks>>

LowerVecNew ==
  /\ Active("eval") /\ IsVecNew(Top.expr)
  /\ Finalize(Call("new", << >>, Top.dest, NextBlock), << >>)
  /\ frames' = Popped
  /\ UNCHANGED <<fn, phase, next, locals, localMap>>

\* push, up to the lowering of its argument: borrow the receiver first.
BeginPush ==
  /\ Active("eval") /\ IsPush(Top.expr)
  /\ ReceiverFound(Top.expr)
  /\ Top.expr.args # << >>
  /\ Inferable(Top.expr.args[1])
  /\ LET arg == Top.expr.args[1]
         r   == Fresh
         a   == Fresh + 1
     IN /\ locals' = Append(Append(locals, "&mutVec"), InferTy(arg))
        /\ current' = Append(Append(Append(current, StorageLive(r)),
                                    Ref(r, localMap[Top.expr.receiver.name])),
                             StorageLive(a))
        /\ frames' = Append(Append(Popped, PushFrame(r, a, Top.dest)), EvalFrame(arg, a))
  /\ UNCHANGED <<fn, phase, next, localMap, blocks>>

\* Mistake: the borrow's StorageDead is forgotten.
FinishPushLeavesRef ==
  /\ Active("push")
  /\ Finalize(Call("push", <<Move(Top.ref), Move(Top.arg)>>, Top.dest, NextBlock),
              <<StorageDead(Top.arg)>>)
  /\ frames' = Popped
  /\ UNCHANGED <<fn, phase, next, locals, localMap>>

FinishPush ==
  /\ Active("push")
  /\ Finalize(Call("push", <<Move(Top.ref), Move(Top.arg)>>, Top.dest, NextBlock),
              <<StorageDead(Top.arg), StorageDead(Top.ref)>>)
  /\ frames' = Popped
  /\ UNCHANGED <<fn, phase, next, locals, localMap>>

LowerLen ==
  /\ Active("eval") /\ IsLen(Top.expr)
  /\ ReceiverFound(Top.expr)
  /\ Finalize(Call("len", <<Copy(localMap[Top.expr.receiver.name])>>, Top.dest, NextBlock),
              << >>)
  /\ frames' = Popped
  /\ UNCHANGED <<fn, phase, next, locals, localMap>>

-----------------------------------------------------------------------------
(* The rest of build_body: the trailing expression into _0, then Return.     *)

\* Mistake: a body without a trailing expression is never closed.
LowerRetNeedsExpr ==
  /\ Idle /\ next = Len(fn.stmts) + 1
  /\ fn.ret # << >>
  /\ frames' = <<EvalFrame(fn.ret[1], 0)>>
  /\ next' = next + 1
  /\ UNCHANGED <<fn, phase, locals, localMap, blocks, current>>

LowerRet ==
  /\ Idle /\ next = Len(fn.stmts) + 1
  /\ frames' = IF fn.ret = << >> THEN << >> ELSE <<EvalFrame(fn.ret[1], 0)>>
  /\ next' = next + 1
  /\ UNCHANGED <<fn, phase, locals, localMap, blocks, current>>

EmitReturn ==
  /\ Idle /\ next = Len(fn.stmts) + 2
  /\ Finalize(Return, << >>)
  /\ phase' = "done"
  /\ UNCHANGED <<fn, next, locals, localMap, frames>>

(* Every panic! and expect of the lowerer.  Unwinding drops the Lower state, *)
(* so nothing else changes.                                                 *)
Unlowerable(e) ==
  \/ e.k = "Var" /\ ~Bound(e.name)
  \/ e.k = "StaticCall" /\ ~IsVecNew(e)
  \/ e.k = "MethodCall" /\ ~IsPush(e) /\ ~IsLen(e)
  \/ e.k = "MethodCall" /\ ~ReceiverFound(e)
  \/ IsPush(e) /\ (e.args = << >> \/ ~Inferable(e.args[1]))

Panic ==
  /\ \/ phase = "resolve" /\ ~fn.point
     \/ Idle /\ next <= Len(fn.stmts) /\ ~Inferable(fn.stmts[next].expr)
     \/ Active("eval") /\ Unlowerable(Top.expr)
     \/ /\ Active("fields") /\ Top.done < Len(Top.expr.fields)
        /\ ~Inferable(Top.expr.fields[Top.done + 1].expr)
  /\ phase' = "panicked"
  /\ UNCHANGED <<fn, next, locals, localMap, blocks, current, frames>>

Next ==
  \/ Resolve \/ BindParam \/ StartBody
  \/ LowerLet \/ LowerExprStmt \/ EndExprStmt
  \/ LowerIntLit \/ LowerVar
  \/ BeginStruct \/ LowerField \/ FinishStruct
  \/ LowerVecNew \/ BeginPush \/ FinishPush \/ LowerLen
  \/ LowerRet \/ EmitReturn
  \/ Panic

\* One thread runs the lowering without waiting for anything.
Spec == Init /\ [][Next]_vars /\ WF_vars(Next)
=============================================================================
