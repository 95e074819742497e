--------------------------- MODULE ToyLower_proofs ---------------------------
(***************************************************************************)
(* Theorems about the lowering, for every set of functions to lower: the    *)
(* typing invariant, the shape of the control-flow graph and, in the order  *)
(* of the text, that no local is used outside of its storage, the storage   *)
(* of every temporary is released, and every instruction stores a value of  *)
(* the type its local was declared with.                                    *)
(***************************************************************************)
EXTENDS ToyLowerProps, FiniteSetTheorems, TLAPS

-----------------------------------------------------------------------------
(* Growing the set of locals keeps every instruction and frame well-formed.  *)

(* A sequence over a set is one over any larger set.                        *)
LEMMA SeqMonotone ==
  ASSUME NEW S, NEW T, S \subseteq T
  PROVE  Seq(S) \subseteq Seq(T)
  OBVIOUS

(* Append and \o keep the element type of a sequence.                       *)
LEMMA AppendType ==
  ASSUME NEW S, NEW s \in Seq(S), NEW x \in S
  PROVE  Append(s, x) \in Seq(S) /\ Len(Append(s, x)) = Len(s) + 1
  OBVIOUS

\* What a sequence holds after one and after three appends.
LEMMA AppendOne ==
  ASSUME NEW S, NEW s \in Seq(S), NEW x
  PROVE  /\ Append(s, x) \in Seq(S \cup {x})
         /\ Len(Append(s, x)) = Len(s) + 1
         /\ \A i \in 1 .. Len(s) : Append(s, x)[i] = s[i]
         /\ Append(s, x)[Len(s) + 1] = x
<1>1. s \in Seq(S \cup {x})
  OBVIOUS
<1> QED BY <1>1

(* What a sequence looks like after three appends.                          *)
LEMMA AppendThree ==
  ASSUME NEW S, NEW s \in Seq(S), NEW x, NEW y, NEW z, NEW t,
         t = Append(Append(Append(s, x), y), z)
  PROVE  /\ Len(t) = Len(s) + 3
         /\ \A i \in 1 .. Len(s) : t[i] = s[i]
         /\ t[Len(s) + 1] = x /\ t[Len(s) + 2] = y /\ t[Len(s) + 3] = z
<1> DEFINE a == Append(s, x)
           b == Append(a, y)
<1>0. Len(s) \in Nat
  OBVIOUS
<1>1. /\ a \in Seq(S \cup {x}) /\ Len(a) = Len(s) + 1
      /\ \A i \in 1 .. Len(s) : a[i] = s[i]
      /\ a[Len(s) + 1] = x
  BY AppendOne
<1>t. t = Append(b, z)
  OBVIOUS
<1> HIDE DEF a
<1>2. /\ b \in Seq(S \cup {x} \cup {y}) /\ Len(b) = Len(a) + 1
      /\ \A i \in 1 .. Len(a) : b[i] = a[i]
      /\ b[Len(a) + 1] = y
  BY <1>1, AppendOne
<1> HIDE DEF b
<1>3. /\ Len(t) = Len(b) + 1
      /\ \A i \in 1 .. Len(b) : t[i] = b[i]
      /\ t[Len(b) + 1] = z
  BY <1>2, <1>t, AppendOne
<1> QED BY <1>0, <1>1, <1>2, <1>3

\* What a concatenation holds.
LEMMA ConcatParts ==
  ASSUME NEW S, NEW s \in Seq(S), NEW t \in Seq(S), NEW c, c = s \o t
  PROVE  /\ Len(c) = Len(s) + Len(t)
         /\ \A i \in 1 .. Len(s) : c[i] = s[i]
         /\ \A i \in Len(s) + 1 .. Len(s) + Len(t) : c[i] = t[i - Len(s)]
  OBVIOUS

(* An element of a sequence over S is in S.                                 *)
LEMMA ElementType ==
  ASSUME NEW S, NEW s \in Seq(S)
  PROVE  Len(s) \in Nat /\ \A i \in 1 .. Len(s) : s[i] \in S
  OBVIOUS

(* More locals make more operands well-typed.                               *)
LEMMA OperandMonotone ==
  ASSUME NEW m \in Nat, NEW n \in Nat, m <= n
  PROVE  OperandOf(m) \subseteq OperandOf(n)
  BY DEF OperandOf

(* More locals make more statements well-typed.                             *)
LEMMA StatementMonotone ==
  ASSUME NEW m \in Nat, NEW n \in Nat, m <= n
  PROVE  StatementOf(m) \subseteq StatementOf(n)
<1>1. Seq(OperandOf(m)) \subseteq Seq(OperandOf(n))
  BY OperandMonotone, SeqMonotone
<1> QED BY <1>1 DEF StatementOf

(* More locals make more blocks well-typed.                                 *)
LEMMA BlockMonotone ==
  ASSUME NEW m \in Nat, NEW n \in Nat, m <= n
  PROVE  BlockOf(m) \subseteq BlockOf(n)
<1>1. Seq(OperandOf(m)) \subseteq Seq(OperandOf(n))
  BY OperandMonotone, SeqMonotone
<1>2. Seq(StatementOf(m)) \subseteq Seq(StatementOf(n))
  BY StatementMonotone, SeqMonotone
<1>3. TerminatorOf(m) \subseteq TerminatorOf(n)
  BY <1>1 DEF TerminatorOf
<1> QED BY <1>2, <1>3 DEF BlockOf

(* More locals make more frames well-typed.                                 *)
LEMMA FrameMonotone ==
  ASSUME NEW m \in Nat, NEW n \in Nat, m <= n
  PROVE  FrameOf(m) \subseteq FrameOf(n)
<1>1. Seq(0 .. m - 1) \subseteq Seq(0 .. n - 1)
  BY SeqMonotone
<1> QED BY <1>1 DEF FrameOf

(* The part of TypeOK that depends on the number of locals.                  *)
Mentions(n) ==
  /\ blocks \in Seq(BlockOf(n))
  /\ current \in Seq(StatementOf(n))
  /\ frames \in Seq(FrameOf(n))

(* More locals leave everything emitted so far well-typed.                  *)
LEMMA MentionsMonotone ==
  ASSUME NEW m \in Nat, NEW n \in Nat, m <= n, Mentions(m)
  PROVE  Mentions(n)
<1>1. Seq(BlockOf(m)) \subseteq Seq(BlockOf(n))
  BY BlockMonotone, SeqMonotone
<1>2. Seq(StatementOf(m)) \subseteq Seq(StatementOf(n))
  BY StatementMonotone, SeqMonotone
<1>3. Seq(FrameOf(m)) \subseteq Seq(FrameOf(n))
  BY FrameMonotone, SeqMonotone
<1> QED BY <1>1, <1>2, <1>3 DEF Mentions

(* The instructions the lowerer writes are well-formed.                      *)
LEMMA InstructionTypes ==
  ASSUME NEW n \in Nat, NEW l \in 0 .. n - 1, NEW r \in 0 .. n - 1
  PROVE  /\ StorageLive(l) \in StatementOf(n)
         /\ StorageDead(l) \in StatementOf(n)
         /\ Use(l, Move(r)) \in StatementOf(n)
         /\ Ref(l, r) \in StatementOf(n)
         /\ \A c \in Int : Use(l, Const(c)) \in StatementOf(n)
<1>1. << >> \in Seq(OperandOf(n))
  OBVIOUS
<1>2. /\ <<Move(r)>> \in Seq(OperandOf(n))
      /\ <<Borrow(r)>> \in Seq(OperandOf(n))
      /\ \A c \in Int : <<Const(c)>> \in Seq(OperandOf(n))
  <2>1. Move(r) \in OperandOf(n) /\ Borrow(r) \in OperandOf(n)
    BY DEF OperandOf, Move, Borrow
  <2>2. \A c \in Int : Const(c) \in OperandOf(n)
    BY DEF OperandOf, Const
  <2> QED BY <2>1, <2>2
<1> QED BY <1>1, <1>2 DEF StatementOf, StorageLive, StorageDead, Use, Ref

-----------------------------------------------------------------------------
(* Reading the stack, the environment and the syntax tree.                   *)

(* The innermost frame is well-typed.                                       *)
LEMMA TopType ==
  ASSUME NEW n \in Nat, frames \in Seq(FrameOf(n)), frames # << >>
  PROVE  Top \in FrameOf(n) /\ Popped \in Seq(FrameOf(n))
  BY DEF Top, Popped

(* Frames of the kind eval hold an expression and a destination.            *)
LEMMA EvalFrameType ==
  ASSUME NEW n \in Nat, NEW e \in Exprs, NEW d \in 0 .. n - 1
  PROVE  EvalFrame(e, d) \in FrameOf(n)
  BY DEF EvalFrame, FrameOf

(* Frames of the kind push hold two temporaries and a destination.          *)
LEMMA PushFrameType ==
  ASSUME NEW n \in Nat, NEW r \in 0 .. n - 1, NEW a \in 0 .. n - 1, NEW d \in 0 .. n - 1
  PROVE  PushFrame(r, a, d) \in FrameOf(n)
<1>1. PushFrame(r, a, d) \in [f : {"push"}, ref : 0 .. n - 1, arg : 0 .. n - 1, dest : 0 .. n - 1]
  BY DEF PushFrame
<1> QED BY <1>1 DEF FrameOf

(* Frames of the kind dead hold a temporary.                                *)
LEMMA DeadFrameType ==
  ASSUME NEW n \in Nat, NEW t \in 0 .. n - 1
  PROVE  DeadFrame(t) \in FrameOf(n)
<1>1. DeadFrame(t) \in [f : {"dead"}, tmp : 0 .. n - 1]
  BY DEF DeadFrame
<1> QED BY <1>1 DEF FrameOf

(* infer_ty yields a type wherever it does not panic.                       *)
LEMMA InferTyType ==
  ASSUME TypeOK, NEW e \in Exprs, Inferable(e)
  PROVE  InferTy(e) \in Types
<1>1. CASE e.k = "Var"
  <2>1. e.name \in Names
    BY <1>1, ExprsAssumption DEF IsExprUniverse
  <2>2. localMap[e.name] \in Locals
    BY <1>1, <2>1 DEF TypeOK, Inferable, Bound, Unbound, IsVecNew, IsPush, IsLen
  <2>3. TypeOf(localMap[e.name]) \in Types
    BY <2>2 DEF TypeOK, TypeOf, Locals
  <2> QED BY <1>1, <2>3 DEF InferTy, IsVecNew, IsPush, IsLen
<1>2. CASE e.k # "Var"
  BY <1>2 DEF InferTy, Inferable, IsVecNew, IsPush, IsLen, Types
<1> QED BY <1>1, <1>2

(* A bound variable is a local.                                             *)
LEMMA BoundVarIsLocal ==
  ASSUME TypeOK, NEW e \in Exprs, e.k = "Var", Bound(e.name)
  PROVE  localMap[e.name] \in Locals
<1>1. e.name \in Names
  BY ExprsAssumption DEF IsExprUniverse
<1> QED BY <1>1 DEF TypeOK, Bound, Unbound

(* A push that reaches its argument has one, in the universe of expressions. *)
LEMMA PushParts ==
  ASSUME TypeOK, NEW e \in Exprs, IsPush(e), ReceiverFound(e), e.args # << >>
  PROVE  /\ e.args[1] \in Exprs
         /\ localMap[e.receiver.name] \in Locals
<1>1. e.receiver \in Exprs /\ e.args \in Seq(Exprs)
  BY ExprsAssumption DEF IsExprUniverse, IsPush
<1>2. e.args[1] \in Exprs
  BY <1>1
<1>3. localMap[e.receiver.name] \in Locals
  BY <1>1, BoundVarIsLocal DEF ReceiverFound
<1> QED BY <1>2, <1>3

(* The statement that next points to is well-formed.                         *)
LEMMA StmtParts ==
  ASSUME TypeOK, next <= Len(fn.stmts)
  PROVE  /\ fn.stmts[next].expr \in Exprs
         /\ fn.stmts[next].k = "Let" => fn.stmts[next].name \in Names
<1>1. next \in 1 .. Len(fn.stmts)
  BY FunctionsAssumption DEF TypeOK
<1>2. IsStmt(fn.stmts[next], Exprs, Names)
  BY <1>1, FunctionsAssumption DEF TypeOK
<1> QED BY <1>2 DEF IsStmt

-----------------------------------------------------------------------------
(* What the prologue of build_body establishes: before the body the locals   *)
(* are _0 and the parameters handled so far and nothing is written; from     *)
(* then on _0 and the parameters are there.                                  *)
Prologue ==
  /\ phase \in {"resolve", "params"} =>
       blocks = << >> /\ current = << >> /\ frames = << >>
  /\ phase = "resolve" => locals = << >> /\ next = 1
  /\ phase = "params" => Len(locals) = next /\ next <= ArgPairs + 1
  /\ phase \in {"body", "done"} => Len(locals) >= ArgPairs + 1

(* Typing.                                                                   *)

(* The initial state is well-typed.                                         *)
LEMMA TypeOKInit == Init => TypeOK
<1> SUFFICES ASSUME Init PROVE TypeOK
  OBVIOUS
<1>1. /\ blocks = << >> /\ current = << >> /\ frames = << >> /\ locals = << >>
      /\ fn \in Functions /\ phase = "resolve" /\ next = 1
      /\ localMap \in [Names -> {Unbound}]
  BY DEF Init
<1>2. Len(locals) = 0
  BY <1>1
<1> QED BY <1>1, <1>2 DEF TypeOK, Locals

(* A step that only adds statements to the block in progress and replaces    *)
(* the stack keeps TypeOK; so does one that also adds locals.                *)
LEMMA KeepsTyping ==
  ASSUME TypeOK,
         NEW n \in Nat, n = Len(locals'),
         locals' \in Seq(Types),
         fn' = fn, next' \in Nat \ {0},
         phase' \in {"resolve", "params", "body", "done", "panicked"},
         localMap' \in [Names -> {Unbound} \cup 0 .. n - 1],
         blocks' \in Seq(BlockOf(n)), current' \in Seq(StatementOf(n)),
         frames' \in Seq(FrameOf(n))
  PROVE  TypeOK'
<1>1. Locals' = 0 .. n - 1
  BY DEF Locals
<1> QED BY <1>1 DEF TypeOK

(* Every step keeps the state well-typed.                                   *)
LEMMA TypeOKNext == TypeOK /\ Prologue /\ [Next]_vars => TypeOK'
<1> SUFFICES ASSUME TypeOK, Prologue, [Next]_vars
             PROVE  TypeOK'
  OBVIOUS
<1> DEFINE n == Len(locals)
<1>n. n \in Nat /\ n + 1 \in Nat /\ n + 2 \in Nat /\ Fresh = n
  BY DEF TypeOK, Fresh
<1>t. /\ next \in Nat \ {0} /\ locals \in Seq(Types) /\ TypeOK
      /\ phase \in {"resolve", "params", "body", "done", "panicked"}
  BY DEF TypeOK
<1>m0. /\ blocks \in Seq(BlockOf(n)) /\ current \in Seq(StatementOf(n))
       /\ frames \in Seq(FrameOf(n))
       /\ localMap \in [Names -> {Unbound} \cup 0 .. n - 1]
  BY DEF TypeOK, Locals
<1>m1. /\ blocks \in Seq(BlockOf(n + 1)) /\ current \in Seq(StatementOf(n + 1))
       /\ frames \in Seq(FrameOf(n + 1))
       /\ localMap \in [Names -> {Unbound} \cup 0 .. n]
  <2>1. Mentions(n) /\ n <= n + 1
    BY <1>n, <1>m0 DEF Mentions
  <2>2. Mentions(n + 1)
    BY <1>n, <2>1, MentionsMonotone
  <2> HIDE DEF n
  <2>3. localMap \in [Names -> {Unbound} \cup 0 .. n]
    BY <1>n, <1>m0
  <2> QED BY <2>2, <2>3 DEF Mentions
<1>a. \A t \in Types : Append(locals, t) \in Seq(Types) /\ Len(Append(locals, t)) = n + 1
  BY DEF TypeOK
<1>0. phase = "body" => n >= 1
  BY FunctionsAssumption DEF Prologue, TypeOK, ArgPairs
<1>s. locals' = locals => locals' \in Seq(Types) /\ n = Len(locals')
  BY DEF TypeOK
<1> HIDE DEF n
<1>top. frames # << >> => /\ Top \in FrameOf(n) /\ Popped \in Seq(FrameOf(n))
                          /\ Top \in FrameOf(n + 1) /\ Popped \in Seq(FrameOf(n + 1))
  BY <1>n, <1>m0, <1>m1, TopType
<1>1. CASE Resolve
  <2>1. fn.output \in Types
    BY FunctionsAssumption DEF TypeOK
  <2>2. locals' \in Seq(Types) /\ n + 1 = Len(locals')
    BY <1>1, <1>a, <2>1 DEF Resolve
  <2> QED BY <1>1, <1>n, <1>t, <1>m1, <2>2, KeepsTyping DEF Resolve
<1>2. CASE BindParam
  <2>1. fn.inputs[next] \in Types /\ fn.params[next] \in Names
    <3>1. fn.inputs \in Seq(Types) /\ fn.params \in Seq(Names) /\ next \in Nat \ {0}
      BY FunctionsAssumption DEF TypeOK
    <3>2. next \in 1 .. Len(fn.inputs) /\ next \in 1 .. Len(fn.params)
      BY <1>2, <3>1 DEF BindParam, ArgPairs
    <3> QED BY <3>1, <3>2
  <2>2. locals' \in Seq(Types) /\ n + 1 = Len(locals')
    BY <1>2, <1>a, <2>1 DEF BindParam
  <2>3. localMap' \in [Names -> {Unbound} \cup 0 .. n]
    BY <1>2, <1>n, <1>m1, <2>1 DEF BindParam
  <2> QED BY <1>2, <1>n, <1>t, <1>m1, <2>2, <2>3, KeepsTyping DEF BindParam
<1>3. CASE StartBody
  BY <1>3, <1>n, <1>t, <1>s, <1>m0, KeepsTyping DEF StartBody
<1>4. CASE LowerLet
  <2> DEFINE s == fn.stmts[next]
  <2>1. s.expr \in Exprs /\ s.name \in Names /\ Inferable(s.expr)
    BY <1>4, StmtParts DEF LowerLet
  <2>2. locals' \in Seq(Types) /\ n + 1 = Len(locals')
    BY <1>4, <1>a, <2>1, InferTyType DEF LowerLet
  <2>3. StorageLive(Fresh) \in StatementOf(n + 1) /\ EvalFrame(s.expr, Fresh) \in FrameOf(n + 1)
    BY <1>n, <2>1, InstructionTypes, EvalFrameType
  <2>4. /\ current' \in Seq(StatementOf(n + 1))
        /\ frames' \in Seq(FrameOf(n + 1))
    BY <1>4, <1>m1, <2>3 DEF LowerLet
  <2>5. localMap' \in [Names -> {Unbound} \cup 0 .. n]
    BY <1>4, <1>n, <1>m1, <2>1 DEF LowerLet
  <2>6. /\ fn' = fn /\ next' \in Nat \ {0} /\ phase' = phase
        /\ blocks' \in Seq(BlockOf(n + 1))
    BY <1>4, <1>t, <1>m1 DEF LowerLet
  <2>7. localMap' \in [Names -> {Unbound} \cup 0 .. n + 1 - 1]
    BY <1>n, <2>5
  <2> QED BY <1>n, <1>t, <2>2, <2>4, <2>6, <2>7, KeepsTyping
<1>5. CASE LowerExprStmt
  <2> DEFINE s == fn.stmts[next]
  <2>1. s.expr \in Exprs /\ Inferable(s.expr)
    BY <1>5, StmtParts DEF LowerExprStmt
  <2>2. locals' \in Seq(Types) /\ n + 1 = Len(locals')
    BY <1>5, <1>a, <2>1, InferTyType DEF LowerExprStmt
  <2>3. /\ StorageLive(Fresh) \in StatementOf(n + 1)
        /\ EvalFrame(s.expr, Fresh) \in FrameOf(n + 1)
        /\ DeadFrame(Fresh) \in FrameOf(n + 1)
    <3>1. Fresh \in 0 .. n + 1 - 1
      BY <1>n
    <3>2. DeadFrame(Fresh) \in FrameOf(n + 1)
      BY <1>n, <3>1, DeadFrameType
    <3> QED BY <1>n, <2>1, <3>1, <3>2, InstructionTypes, EvalFrameType
  <2>4. /\ current' \in Seq(StatementOf(n + 1))
        /\ frames' \in Seq(FrameOf(n + 1))
    BY <1>5, <1>m1, <2>3 DEF LowerExprStmt
  <2>5. /\ fn' = fn /\ next' \in Nat \ {0} /\ phase' = phase
        /\ blocks' \in Seq(BlockOf(n + 1))
    BY <1>5, <1>t, <1>m1 DEF LowerExprStmt
  <2>6. localMap' \in [Names -> {Unbound} \cup 0 .. n + 1 - 1]
    BY <1>5, <1>n, <1>m1 DEF LowerExprStmt
  <2> QED BY <1>n, <1>t, <2>2, <2>4, <2>5, <2>6, KeepsTyping
<1>6. CASE EndExprStmt
  <2>1. Top.tmp \in 0 .. n - 1
    BY <1>6, <1>top DEF EndExprStmt, Active, FrameOf
  <2>2. StorageDead(Top.tmp) \in StatementOf(n)
    BY <1>n, <2>1, InstructionTypes
  <2>3. current' \in Seq(StatementOf(n)) /\ frames' \in Seq(FrameOf(n))
    BY <1>6, <1>m0, <1>top, <2>2 DEF EndExprStmt, Active
  <2> QED BY <1>6, <1>n, <1>t, <1>s, <1>m0, <2>3, KeepsTyping DEF EndExprStmt
<1>e. Active("eval") => Top.expr \in Exprs /\ Top.dest \in 0 .. n - 1
  BY <1>top DEF Active, FrameOf
<1>7. CASE LowerIntLit
  <2>1. AsI32(Top.expr.n) \in Int
    BY <1>7, <1>e, ExprsAssumption, I32CardAssumption DEF LowerIntLit, IsExprUniverse, AsI32
  <2>2. Use(Top.dest, Const(AsI32(Top.expr.n))) \in StatementOf(n)
    BY <1>7, <1>n, <1>e, <2>1, InstructionTypes DEF LowerIntLit
  <2>3. current' \in Seq(StatementOf(n)) /\ frames' \in Seq(FrameOf(n))
    BY <1>7, <1>m0, <1>top, <2>2 DEF LowerIntLit, Active
  <2> QED BY <1>7, <1>n, <1>t, <1>s, <1>m0, <2>3, KeepsTyping DEF LowerIntLit
<1>8. CASE LowerVar
  <2>1. localMap[Top.expr.name] \in 0 .. n - 1
    BY <1>8, <1>e, BoundVarIsLocal DEF LowerVar, Locals, n
  <2>2. Use(Top.dest, Move(localMap[Top.expr.name])) \in StatementOf(n)
    BY <1>8, <1>n, <1>e, <2>1, InstructionTypes DEF LowerVar
  <2>3. current' \in Seq(StatementOf(n)) /\ frames' \in Seq(FrameOf(n))
    BY <1>8, <1>m0, <1>top, <2>2 DEF LowerVar, Active
  <2> QED BY <1>8, <1>n, <1>t, <1>s, <1>m0, <2>3, KeepsTyping DEF LowerVar
<1>9. CASE BeginStruct
  <2>1. FieldsFrame(0, << >>, Top.expr, Top.dest) \in FrameOf(n)
    BY <1>9, <1>e DEF BeginStruct, FieldsFrame, FrameOf, StructLits
  <2>2. frames' \in Seq(FrameOf(n))
    BY <1>9, <1>top, <2>1 DEF BeginStruct, Active
  <2> QED BY <1>9, <1>n, <1>t, <1>s, <1>m0, <2>2, KeepsTyping DEF BeginStruct
<1>f. Active("fields") => /\ Top.expr \in StructLits /\ Top.dest \in 0 .. n - 1
                          /\ Top.tmps \in Seq(0 .. n - 1) /\ Top.done \in Nat
  BY <1>top DEF Active, FrameOf
<1>10. CASE LowerField
  <2> DEFINE e == Top.expr.fields[Top.done + 1].expr
  <2>1. e \in Exprs /\ Inferable(e)
    <3>1. Top.done \in Nat /\ Top.done < Len(Top.expr.fields)
      BY <1>10, <1>f DEF LowerField
    <3>2. Top.done + 1 \in 1 .. Len(Top.expr.fields)
      BY <3>1, <1>10, <1>f, ExprsAssumption DEF StructLits, IsExprUniverse, LowerField
    <3> QED BY <1>10, <1>f, <3>2, ExprsAssumption DEF StructLits, IsExprUniverse, LowerField
  <2>2. locals' \in Seq(Types) /\ n + 1 = Len(locals')
    BY <1>10, <1>a, <2>1, InferTyType DEF LowerField
  <2>3. StorageLive(Fresh) \in StatementOf(n + 1) /\ EvalFrame(e, Fresh) \in FrameOf(n + 1)
    BY <1>n, <2>1, InstructionTypes, EvalFrameType
  <2>4. FieldsFrame(Top.done + 1, Append(Top.tmps, Fresh), Top.expr, Top.dest) \in FrameOf(n + 1)
    <3>1. Append(Top.tmps, Fresh) \in Seq(0 .. n)
      BY <1>10, <1>n, <1>f DEF LowerField
    <3>2. Top.dest \in 0 .. n /\ Top.done + 1 \in Nat
      BY <1>10, <1>n, <1>f DEF LowerField
    <3> QED BY <1>10, <1>n, <1>f, <3>1, <3>2 DEF FieldsFrame, FrameOf, LowerField
  <2>5. /\ current' \in Seq(StatementOf(n + 1))
        /\ frames' \in Seq(FrameOf(n + 1))
    BY <1>10, <1>m1, <1>top, <2>3, <2>4 DEF LowerField, Active
  <2> QED BY <1>10, <1>n, <1>t, <1>m1, <2>2, <2>5, KeepsTyping DEF LowerField
<1>11. CASE FinishStruct
  <2> DEFINE ts == Top.tmps
             ms == [i \in 1 .. Len(ts) |-> Move(ts[i])]
             ds == [i \in 1 .. Len(ts) |-> StorageDead(ts[i])]
  <2>1. ts \in Seq(0 .. n - 1) /\ Top.dest \in 0 .. n - 1
    BY <1>11, <1>f DEF FinishStruct
  <2>2. Aggregate(Top.dest, ms) \in StatementOf(n)
    <3>1. \A l \in 0 .. n - 1 : Move(l) \in OperandOf(n)
      BY DEF Move, OperandOf
    <3>2. \A i \in 1 .. Len(ts) : ts[i] \in 0 .. n - 1
      BY <2>1, ElementType
    <3>3. Len(ts) \in Nat
      BY <2>1, ElementType
    <3>4. ms \in Seq(OperandOf(n))
      BY <3>1, <3>2, <3>3
    <3> QED BY <2>1, <3>4 DEF Aggregate, StatementOf
  <2>3. ds \in Seq(StatementOf(n))
    <3>1. \A i \in 1 .. Len(ts) : ts[i] \in 0 .. n - 1
      BY <2>1, ElementType
    <3>2. \A l \in 0 .. n - 1 : StorageDead(l) \in StatementOf(n)
      BY <1>n, InstructionTypes
    <3>3. Len(ts) \in Nat
      BY <2>1, ElementType
    <3> QED BY <3>1, <3>2, <3>3
  <2>4. current' = current \o <<Aggregate(Top.dest, ms)>> \o ds
    BY <1>11 DEF FinishStruct
  <2> HIDE DEF ms, ds
  <2>5. <<Aggregate(Top.dest, ms)>> \in Seq(StatementOf(n))
    BY <2>2
  <2>6. current' \in Seq(StatementOf(n))
    BY <1>m0, <2>3, <2>4, <2>5
  <2>7. frames' \in Seq(FrameOf(n))
    BY <1>11, <1>top DEF FinishStruct, Active
  <2> QED BY <1>11, <1>n, <1>t, <1>s, <1>m0, <2>6, <2>7, KeepsTyping DEF FinishStruct
<1>b. \A t \in TerminatorOf(n) : Append(blocks, BasicBlock(current, t)) \in Seq(BlockOf(n))
  <2>1. \A t \in TerminatorOf(n) : BasicBlock(current, t) \in BlockOf(n)
    BY <1>m0 DEF BasicBlock, BlockOf
  <2> QED BY <1>m0, <2>1
<1>nb. NextBlock \in Nat
  BY <1>m0 DEF NextBlock
<1>12. CASE LowerVecNew
  <2>1. Call("new", << >>, Top.dest, NextBlock) \in TerminatorOf(n)
    BY <1>12, <1>e, <1>nb DEF LowerVecNew, Call, TerminatorOf
  <2>2. /\ blocks' \in Seq(BlockOf(n)) /\ current' \in Seq(StatementOf(n))
        /\ frames' \in Seq(FrameOf(n))
    BY <1>12, <1>b, <1>top, <2>1 DEF LowerVecNew, Finalize, Active
  <2> QED BY <1>12, <1>n, <1>t, <1>s, <1>m0, <2>2, KeepsTyping DEF LowerVecNew
<1>13. CASE BeginPush
  <2> DEFINE e == Top.expr
             arg == Top.expr.args[1]
  <2>1. e \in Exprs /\ Top.dest \in 0 .. n - 1 /\ arg \in Exprs
    BY <1>13, <1>e, PushParts DEF BeginPush
  <2>2. localMap[e.receiver.name] \in 0 .. n - 1
    BY <1>13, <1>e, PushParts DEF BeginPush, Locals, n
  <2>3. InferTy(arg) \in Types
    BY <1>13, <2>1, InferTyType DEF BeginPush
  <2>4. locals' \in Seq(Types) /\ n + 2 = Len(locals')
    <3> DEFINE ls == Append(locals, "&mutVec")
    <3>1. locals' = Append(ls, InferTy(arg))
      BY <1>13 DEF BeginPush
    <3>2. ls \in Seq(Types) /\ Len(ls) = n + 1
      BY <1>a DEF Types
    <3> HIDE DEF ls
    <3>3. /\ Append(ls, InferTy(arg)) \in Seq(Types)
          /\ Len(Append(ls, InferTy(arg))) = Len(ls) + 1
      BY <2>3, <3>2, AppendType
    <3> QED BY <1>n, <3>1, <3>2, <3>3
  <2>5. Mentions(n + 2) /\ localMap' \in [Names -> {Unbound} \cup 0 .. n + 1]
    <3>1. Mentions(n) /\ n <= n + 2
      BY <1>n, <1>m0 DEF Mentions
    <3>2. Mentions(n + 2)
      BY <1>n, <3>1, MentionsMonotone
    <3>3. 0 .. n - 1 \subseteq 0 .. n + 1
      BY <1>n
    <3>4. localMap \in [Names -> {Unbound} \cup 0 .. n + 1]
      BY <1>m0, <3>3
    <3> QED BY <1>13, <3>2, <3>4 DEF BeginPush
  <2>6. Popped \in Seq(FrameOf(n + 2))
    BY <1>13, <1>n, <2>5, TopType DEF BeginPush, Active, Mentions
  <2>7. /\ StorageLive(Fresh) \in StatementOf(n + 2)
        /\ StorageLive(Fresh + 1) \in StatementOf(n + 2)
        /\ Ref(Fresh, localMap[e.receiver.name]) \in StatementOf(n + 2)
    <3>1. Fresh \in 0 .. n + 2 - 1 /\ Fresh + 1 \in 0 .. n + 2 - 1
          /\ localMap[e.receiver.name] \in 0 .. n + 2 - 1
      BY <1>n, <2>2
    <3> QED BY <1>n, <3>1, InstructionTypes
  <2>8. /\ PushFrame(Fresh, Fresh + 1, Top.dest) \in FrameOf(n + 2)
        /\ EvalFrame(arg, Fresh + 1) \in FrameOf(n + 2)
    <3>1. Fresh \in 0 .. n + 2 - 1 /\ Fresh + 1 \in 0 .. n + 2 - 1 /\ Top.dest \in 0 .. n + 2 - 1
      BY <1>n, <2>1
    <3>2. PushFrame(Fresh, Fresh + 1, Top.dest) \in FrameOf(n + 2)
      BY <1>n, <3>1, PushFrameType
    <3> QED BY <1>n, <2>1, <3>1, <3>2, EvalFrameType
  <2>9. current' \in Seq(StatementOf(n + 2))
    <3> DEFINE c1 == Append(current, StorageLive(Fresh))
               c2 == Append(c1, Ref(Fresh, localMap[e.receiver.name]))
    <3>1. current' = Append(c2, StorageLive(Fresh + 1))
      BY <1>13 DEF BeginPush
    <3>2. c1 \in Seq(StatementOf(n + 2))
      BY <2>5, <2>7, AppendType DEF Mentions
    <3> HIDE DEF c1
    <3>3. c2 \in Seq(StatementOf(n + 2))
      BY <2>7, <3>2, AppendType
    <3> HIDE DEF c2
    <3> QED BY <2>7, <3>1, <3>3, AppendType
  <2>10. frames' \in Seq(FrameOf(n + 2))
    <3> DEFINE f1 == Append(Popped, PushFrame(Fresh, Fresh + 1, Top.dest))
    <3>1. frames' = Append(f1, EvalFrame(arg, Fresh + 1))
      BY <1>13 DEF BeginPush
    <3>2. f1 \in Seq(FrameOf(n + 2))
      BY <2>6, <2>8, AppendType
    <3> HIDE DEF f1
    <3> QED BY <2>8, <3>1, <3>2, AppendType
  <2>11. blocks' \in Seq(BlockOf(n + 2))
    BY <1>13, <2>5 DEF BeginPush, Mentions
  <2>12. fn' = fn /\ next' \in Nat \ {0} /\ phase' = phase
    BY <1>13, <1>t DEF BeginPush
  <2>13. localMap' \in [Names -> {Unbound} \cup 0 .. n + 2 - 1]
    BY <1>n, <2>5
  <2> QED BY <1>n, <1>t, <2>4, <2>9, <2>10, <2>11, <2>12, <2>13, KeepsTyping
<1>14. CASE FinishPush
  <2>1. Top.ref \in 0 .. n - 1 /\ Top.arg \in 0 .. n - 1 /\ Top.dest \in 0 .. n - 1
    BY <1>14, <1>top DEF FinishPush, Active, FrameOf
  <2>2. <<Move(Top.ref), Move(Top.arg)>> \in Seq(OperandOf(n))
    BY <2>1 DEF Move, OperandOf
  <2>3. Call("push", <<Move(Top.ref), Move(Top.arg)>>, Top.dest, NextBlock) \in TerminatorOf(n)
    BY <1>nb, <2>1, <2>2 DEF Call, TerminatorOf
  <2>4. StorageDead(Top.arg) \in StatementOf(n) /\ StorageDead(Top.ref) \in StatementOf(n)
    BY <1>n, <2>1, InstructionTypes
  <2>5. /\ blocks' \in Seq(BlockOf(n)) /\ current' \in Seq(StatementOf(n))
        /\ frames' \in Seq(FrameOf(n))
    BY <1>14, <1>b, <1>top, <2>3, <2>4 DEF FinishPush, Finalize, Active
  <2> QED BY <1>14, <1>n, <1>t, <1>s, <1>m0, <2>5, KeepsTyping DEF FinishPush
<1>15. CASE LowerLen
  <2>1. localMap[Top.expr.receiver.name] \in 0 .. n - 1
    <3>1. Top.expr.receiver \in Exprs
      BY <1>15, <1>e, ExprsAssumption DEF LowerLen, IsExprUniverse, IsLen
    <3> QED BY <1>15, <3>1, BoundVarIsLocal DEF LowerLen, ReceiverFound, Locals, n
  <2>2. <<Copy(localMap[Top.expr.receiver.name])>> \in Seq(OperandOf(n))
    BY <2>1 DEF Copy, OperandOf
  <2>3. Call("len", <<Copy(localMap[Top.expr.receiver.name])>>, Top.dest, NextBlock)
          \in TerminatorOf(n)
    BY <1>15, <1>e, <1>nb, <2>2 DEF LowerLen, Call, TerminatorOf
  <2>4. /\ blocks' \in Seq(BlockOf(n)) /\ current' \in Seq(StatementOf(n))
        /\ frames' \in Seq(FrameOf(n))
    BY <1>15, <1>b, <1>top, <2>3 DEF LowerLen, Finalize, Active
  <2> QED BY <1>15, <1>n, <1>t, <1>s, <1>m0, <2>4, KeepsTyping DEF LowerLen
<1>16. CASE LowerRet
  <2>1. fn.ret # << >> => EvalFrame(fn.ret[1], 0) \in FrameOf(n)
    <3>1. fn.ret \in Seq(Exprs)
      BY FunctionsAssumption DEF TypeOK
    <3>2. fn.ret # << >> => fn.ret[1] \in Exprs
      BY <3>1
    <3>3. 0 \in 0 .. n - 1
      BY <1>16, <1>n, <1>0 DEF LowerRet, Idle
    <3> QED BY <1>n, <3>2, <3>3, EvalFrameType
  <2>2. frames' \in Seq(FrameOf(n))
    BY <1>16, <2>1 DEF LowerRet
  <2>3. fn' = fn /\ next' \in Nat \ {0} /\ phase' = phase /\ locals' = locals
    BY <1>16, <1>t DEF LowerRet
  <2>4. blocks' = blocks /\ current' = current /\ localMap' = localMap
    BY <1>16 DEF LowerRet
  <2> QED BY <1>n, <1>t, <1>s, <1>m0, <2>2, <2>3, <2>4, KeepsTyping
<1>17. CASE EmitReturn
  <2>1. Return \in TerminatorOf(n)
    BY <1>17, <1>n, <1>0 DEF EmitReturn, Idle, Return, TerminatorOf
  <2>2. blocks' \in Seq(BlockOf(n)) /\ current' \in Seq(StatementOf(n))
    BY <1>17, <1>b, <2>1 DEF EmitReturn, Finalize
  <2> QED BY <1>17, <1>n, <1>t, <1>s, <1>m0, <2>2, KeepsTyping DEF EmitReturn
<1>18. CASE Panic
  BY <1>18, <1>n, <1>t, <1>s, <1>m0, KeepsTyping DEF Panic
<1>19. CASE UNCHANGED vars
  BY <1>19 DEF vars, TypeOK, Locals
<1> QED
  BY <1>1, <1>2, <1>3, <1>4, <1>5, <1>6, <1>7, <1>8, <1>9, <1>10, <1>11, <1>12,
     <1>13, <1>14, <1>15, <1>16, <1>17, <1>18, <1>19 DEF Next

(* Every step keeps the argument locals in front.                           *)
LEMMA PrologueNext == TypeOK /\ Prologue /\ [Next]_vars => Prologue'
<1> SUFFICES ASSUME TypeOK, Prologue, [Next]_vars
             PROVE  Prologue'
  OBVIOUS
<1>t. next \in Nat \ {0} /\ locals \in Seq(Types) /\ Len(locals) \in Nat
  BY DEF TypeOK
<1>p. ArgPairs \in Nat
  BY FunctionsAssumption DEF ArgPairs, TypeOK
<1>f. fn' = fn => ArgPairs' = ArgPairs
  BY DEF ArgPairs
<1>a. \A t : Len(Append(locals, t)) = Len(locals) + 1
  BY <1>t
<1>1. CASE Resolve
  BY <1>1, <1>t, <1>p, <1>f, <1>a DEF Resolve, Prologue
<1>2. CASE BindParam
  BY <1>2, <1>t, <1>p, <1>f, <1>a DEF BindParam, Prologue
<1>3. CASE StartBody
  BY <1>3, <1>t, <1>p, <1>f DEF StartBody, Prologue
<1>4. ASSUME phase = "body", phase' \in {"body", "done", "panicked"}, fn' = fn,
             Len(locals') >= Len(locals), Len(locals') \in Nat
      PROVE  Prologue'
  BY <1>4, <1>t, <1>p, <1>f DEF Prologue
<1>5. CASE LowerLet \/ LowerExprStmt \/ LowerField
  <2>1. /\ phase = "body" /\ phase' = phase /\ fn' = fn
        /\ \E t : locals' = Append(locals, t)
    BY <1>5 DEF LowerLet, LowerExprStmt, LowerField, Idle, Active
  <2>2. Len(locals') = Len(locals) + 1
    BY <1>a, <2>1
  <2> QED BY <1>t, <1>4, <2>1, <2>2
<1>6. CASE BeginPush
  <2> DEFINE ls == Append(locals, "&mutVec")
  <2>1. /\ phase = "body" /\ phase' = phase /\ fn' = fn
        /\ locals' = Append(ls, InferTy(Top.expr.args[1]))
    BY <1>6 DEF BeginPush, Active
  <2>2. ls \in Seq(Types) /\ Len(ls) = Len(locals) + 1
    <3>1. "&mutVec" \in Types
      BY DEF Types
    <3> QED BY <1>t, <3>1, AppendType
  <2> HIDE DEF ls
  <2>3. \A t : Len(Append(ls, t)) = Len(ls) + 1
    BY <2>2
  <2>4. Len(locals') = Len(locals) + 1 + 1
    BY <2>1, <2>2, <2>3
  <2> QED BY <1>t, <1>4, <2>1, <2>4
<1>7. CASE \/ EndExprStmt \/ LowerIntLit \/ LowerVar \/ BeginStruct \/ FinishStruct
           \/ LowerVecNew \/ FinishPush \/ LowerLen \/ LowerRet \/ EmitReturn
  <2>1. phase = "body" /\ phase' \in {"body", "done"} /\ fn' = fn /\ locals' = locals
    BY <1>7 DEF EndExprStmt, LowerIntLit, LowerVar, BeginStruct, FinishStruct,
       LowerVecNew, FinishPush, LowerLen, LowerRet, EmitReturn, Idle, Active
  <2> QED BY <1>t, <1>4, <2>1
<1>8. CASE Panic
  BY <1>8 DEF Panic, Prologue
<1>9. CASE UNCHANGED vars
  BY <1>9, <1>f DEF vars, Prologue
<1> QED
  BY <1>1, <1>2, <1>3, <1>5, <1>6, <1>7, <1>8, <1>9 DEF Next

(* The lowerer never mentions a local it has not allocated, whatever program *)
(* it is given (lower.rs: every index comes from alloc_local or local_map).  *)
THEOREM TypeCorrect == Spec => [](TypeOK /\ Prologue)
<1>1. Init => TypeOK /\ Prologue
  BY TypeOKInit DEF Init, Prologue
<1>2. TypeOK /\ Prologue /\ [Next]_vars => TypeOK' /\ Prologue'
  BY TypeOKNext, PrologueNext
<1> QED BY <1>1, <1>2, PTL DEF Spec

-----------------------------------------------------------------------------
(* The control-flow graph.                                                   *)

\* Closing a block with a call to the block after it keeps the chain.
LEMMA CallKeepsChain ==
  ASSUME TypeOK, BlocksChained, phase = "body", phase' = "body",
         NEW f, NEW STATE os, NEW STATE l, NEW STATE ss, Finalize(Call(f, os, l, NextBlock), ss)
  PROVE  BlocksChained'
<1> DEFINE t == Call(f, os, l, NextBlock)
<1>1. blocks \in Seq(BlockOf(Len(locals)))
  BY DEF TypeOK
<1>2. /\ blocks' = Append(blocks, BasicBlock(current, t))
      /\ Len(blocks) \in Nat
  BY <1>1 DEF Finalize
<1>3. /\ DOMAIN blocks' = 1 .. Len(blocks) + 1
      /\ DOMAIN blocks = 1 .. Len(blocks)
      /\ \A i \in 1 .. Len(blocks) : blocks'[i] = blocks[i]
      /\ blocks'[Len(blocks) + 1] = BasicBlock(current, t)
  BY <1>1, <1>2
<1>4. t.op = "Call" /\ t.target = Len(blocks) + 1
  BY DEF Call, NextBlock
<1>5. BasicBlock(current, t).terminator = t
  BY DEF BasicBlock
<1> QED BY <1>2, <1>3, <1>4, <1>5 DEF BlocksChained

(* Every step keeps the chain of blocks.                                    *)
LEMMA BlocksChainedNext ==
  TypeOK /\ BlocksChained /\ [Next]_vars => BlocksChained'
<1> SUFFICES ASSUME TypeOK, BlocksChained, [Next]_vars
             PROVE  BlocksChained'
  OBVIOUS
<1>1. CASE LowerVecNew
  BY <1>1, CallKeepsChain DEF LowerVecNew, Active
<1>2. CASE FinishPush
  BY <1>2, CallKeepsChain DEF FinishPush, Active
<1>3. CASE LowerLen
  BY <1>3, CallKeepsChain DEF LowerLen, Active
<1>4. CASE EmitReturn
  <2>1. blocks \in Seq(BlockOf(Len(locals)))
    BY DEF TypeOK
  <2>2. /\ blocks' = Append(blocks, BasicBlock(current, Return))
        /\ phase = "body" /\ phase' = "done" /\ Len(blocks) \in Nat
    BY <1>4, <2>1 DEF EmitReturn, Finalize, Idle
  <2>3. /\ DOMAIN blocks' = 1 .. Len(blocks) + 1
        /\ Len(blocks') = Len(blocks) + 1
        /\ DOMAIN blocks = 1 .. Len(blocks)
        /\ \A i \in 1 .. Len(blocks) : blocks'[i] = blocks[i]
        /\ blocks'[Len(blocks) + 1] = BasicBlock(current, Return)
    BY <2>1, <2>2
  <2>4. BasicBlock(current, Return).terminator.op = "Return"
    BY DEF BasicBlock, Return
  <2> QED BY <2>2, <2>3, <2>4 DEF BlocksChained
<1>5. ASSUME blocks' = blocks, phase # "done", phase' # "done"
      PROVE  BlocksChained'
  BY <1>5 DEF BlocksChained
<1>6. CASE \/ Resolve \/ BindParam \/ StartBody \/ LowerLet \/ LowerExprStmt
           \/ EndExprStmt \/ LowerIntLit \/ LowerVar \/ BeginStruct \/ LowerField
           \/ FinishStruct \/ BeginPush \/ LowerRet
  <2>1. blocks' = blocks /\ phase # "done" /\ phase' # "done"
    BY <1>6 DEF Resolve, BindParam, StartBody, LowerLet, LowerExprStmt, EndExprStmt,
       LowerIntLit, LowerVar, BeginStruct, LowerField, FinishStruct, BeginPush,
       LowerRet, Idle, Active
  <2> QED BY <1>5, <2>1
<1>7. CASE Panic
  <2>1. blocks' = blocks /\ phase # "done" /\ phase' # "done"
    BY <1>7 DEF Panic, Idle, Active
  <2> QED BY <1>5, <2>1
<1>8. CASE UNCHANGED vars
  BY <1>8 DEF vars, BlocksChained
<1> QED
  BY <1>1, <1>2, <1>3, <1>4, <1>6, <1>7, <1>8 DEF Next

(* Every branch target of a body exists: the blocks form a chain that ends   *)
(* in the one Return (lower.rs:182, 241, 287 against finalize_block).         *)
THEOREM ChainCorrect == Spec => []BlocksChained
<1>1. Init => BlocksChained
  BY DEF Init, BlocksChained
<1>2. TypeOK /\ BlocksChained /\ [Next]_vars => BlocksChained'
  BY BlocksChainedNext
<1> QED BY <1>1, <1>2, TypeCorrect, PTL DEF Spec

-----------------------------------------------------------------------------
(* Storage.                                                                  *)

\* A live site is a place of the text that holds the StorageLive.
LEMMA LiveSite ==
  ASSUME NEW l
  PROVE  \A p : p \in LiveSites(l) <=>
           \E b \in 1 .. InProgress : \E i \in 1 .. Len(Text(b)) :
             p = <<b, i>> /\ Text(b)[i] = StorageLive(l)
<1>1. \A p : p \in StatementSites <=>
         \E b \in 1 .. InProgress : \E i \in 1 .. Len(Text(b)) : p = <<b, i>>
  BY DEF StatementSites
<1>2. \A p : p \in LiveSites(l) <=> p \in StatementSites /\ At(p) = StorageLive(l)
  BY DEF LiveSites
<1>3. \A b, i : <<b, i>> \in StatementSites => At(<<b, i>>) = Text(b)[i]
  BY DEF At
<1> QED BY <1>1, <1>2, <1>3

\* Statements before the end of the block in progress stay where they are.
LEMMA Extended ==
  ASSUME TypeOK, blocks' = blocks, Len(current') \in Nat, Len(current) <= Len(current'),
         \A i \in 1 .. Len(current) : current'[i] = current[i], NEW l
  PROVE  \A p : p \in LiveSites(l)' <=>
           \/ p \in LiveSites(l)
           \/ \E j \in Len(current) + 1 .. Len(current') :
                p = <<InProgress, j>> /\ current'[j] = StorageLive(l)
<1>1. /\ Len(blocks) \in Nat /\ DOMAIN blocks = 1 .. Len(blocks) /\ Len(current) \in Nat
  BY DEF TypeOK
<1>2. /\ InProgress' = InProgress /\ InProgress = Len(blocks) + 1
      /\ \A b \in 1 .. Len(blocks) : Text(b) = blocks[b].statements /\ Text(b)' = Text(b)
      /\ Text(InProgress) = current /\ Text(InProgress)' = current'
  BY <1>1 DEF InProgress, Text
<1>3. \A p : p \in LiveSites(l)' <=>
        \E b \in 1 .. InProgress : \E i \in 1 .. Len(Text(b)') :
          p = <<b, i>> /\ Text(b)'[i] = StorageLive(l)
  <2>1. \A p : p \in StatementSites' <=>
           \E b \in 1 .. InProgress' : \E i \in 1 .. Len(Text(b)') : p = <<b, i>>
    BY DEF StatementSites
  <2>2. \A p : p \in LiveSites(l)' <=> p \in StatementSites' /\ At(p)' = StorageLive(l)
    BY DEF LiveSites, StorageLive
  <2>3. \A b, i : <<b, i>> \in StatementSites' => At(<<b, i>>)' = Text(b)'[i]
    BY DEF At
  <2>4. \A p : p \in StatementSites' <=>
           \E b \in 1 .. InProgress : \E i \in 1 .. Len(Text(b)') : p = <<b, i>>
    BY <1>2, <2>1
  <2>5. ASSUME NEW p, p \in LiveSites(l)'
        PROVE  \E b \in 1 .. InProgress : \E i \in 1 .. Len(Text(b)') :
                 p = <<b, i>> /\ Text(b)'[i] = StorageLive(l)
    <3>1. p \in StatementSites' /\ At(p)' = StorageLive(l)
      BY <2>2, <2>5
    <3>2. PICK b \in 1 .. InProgress : \E i \in 1 .. Len(Text(b)') : p = <<b, i>>
      BY <2>4, <3>1
    <3>3. PICK i \in 1 .. Len(Text(b)') : p = <<b, i>>
      BY <3>2
    <3>4. Text(b)'[i] = StorageLive(l)
      BY <2>3, <3>1, <3>3
    <3> QED BY <3>3, <3>4
  <2>6. ASSUME NEW b \in 1 .. InProgress, NEW i \in 1 .. Len(Text(b)'),
               Text(b)'[i] = StorageLive(l)
        PROVE  <<b, i>> \in LiveSites(l)'
    <3>1. <<b, i>> \in StatementSites'
      BY <2>4
    <3>2. At(<<b, i>>)' = StorageLive(l)
      BY <2>3, <2>6, <3>1
    <3> QED BY <2>2, <3>1, <3>2
  <2> QED BY <2>5, <2>6
<1>4. PICK k \in Nat : k = Len(blocks)
  BY <1>1
<1>5. InProgress = k + 1 /\ \A b \in 1 .. k + 1 : b \in 1 .. k \/ b = k + 1
  BY <1>2, <1>4
<1> DEFINE Earlier(p) == \E b \in 1 .. k : \E i \in 1 .. Len(Text(b)) :
             p = <<b, i>> /\ Text(b)[i] = StorageLive(l)
<1>6. \A p : p \in LiveSites(l) <=>
        \/ Earlier(p)
        \/ \E i \in 1 .. Len(current) : p = <<k + 1, i>> /\ current[i] = StorageLive(l)
  <2>1. \A p : p \in LiveSites(l) <=>
          \E b \in 1 .. k + 1 : \E i \in 1 .. Len(Text(b)) :
            p = <<b, i>> /\ Text(b)[i] = StorageLive(l)
    BY <1>5, LiveSite
  <2>2. Text(k + 1) = current /\ k + 1 \in 1 .. k + 1 /\ \A b \in 1 .. k : b \in 1 .. k + 1
    BY <1>2, <1>4, <1>5
  <2> QED BY <1>5, <2>1, <2>2
<1>7. \A p : p \in LiveSites(l)' <=>
        \/ Earlier(p)
        \/ \E i \in 1 .. Len(current') : p = <<k + 1, i>> /\ current'[i] = StorageLive(l)
  <2>1. \A p : p \in LiveSites(l)' <=>
          \E b \in 1 .. k + 1 : \E i \in 1 .. Len(Text(b)') :
            p = <<b, i>> /\ Text(b)'[i] = StorageLive(l)
    BY <1>3, <1>5
  <2>2. /\ Text(k + 1)' = current' /\ k + 1 \in 1 .. k + 1
        /\ \A b \in 1 .. k : b \in 1 .. k + 1 /\ Text(b)' = Text(b)
    BY <1>2, <1>4, <1>5
  <2> QED BY <1>5, <2>1, <2>2
<1>8. \A i : i \in 1 .. Len(current') <=>
        i \in 1 .. Len(current) \/ i \in Len(current) + 1 .. Len(current')
  BY <1>1
<1>9. \A p : (\E i \in 1 .. Len(current') : p = <<k + 1, i>> /\ current'[i] = StorageLive(l)) <=>
        \/ \E i \in 1 .. Len(current) : p = <<k + 1, i>> /\ current[i] = StorageLive(l)
        \/ \E j \in Len(current) + 1 .. Len(current') :
             p = <<k + 1, j>> /\ current'[j] = StorageLive(l)
  BY <1>8
<1> HIDE DEF Earlier
<1> QED BY <1>5, <1>6, <1>7, <1>9

\* Closing the block in progress keeps the sites, if the next one starts
\* without a StorageLive.
LEMMA Closed ==
  ASSUME TypeOK, NEW STATE t, Finalize(t, current'), Len(current') \in Nat, NEW l,
         \A i \in 1 .. Len(current') : current'[i] # StorageLive(l)
  PROVE  \A p : p \in LiveSites(l)' <=> p \in LiveSites(l)
<1>k. PICK k \in Nat : k = Len(blocks)
  BY DEF TypeOK
<1>1. /\ DOMAIN blocks = 1 .. k /\ Len(current) \in Nat
      /\ blocks' = Append(blocks, BasicBlock(current, t))
      /\ DOMAIN blocks' = 1 .. k + 1 /\ Len(blocks') = k + 1
      /\ \A b \in 1 .. k : blocks'[b] = blocks[b]
      /\ blocks'[k + 1] = BasicBlock(current, t)
  BY <1>k DEF TypeOK, Finalize
<1>2. InProgress = k + 1 /\ InProgress' = k + 2
  BY <1>k, <1>1 DEF InProgress
<1>3. \A b \in 1 .. k + 1 : Text(b)' = Text(b)
  <2>1. \A b \in 1 .. k : Text(b)' = Text(b)
    BY <1>k, <1>1 DEF Text
  <2>2. Text(k + 1) = current
    BY <1>k, <1>1 DEF Text
  <2>3. Text(k + 1)' = current
    <3>1. k + 1 \in DOMAIN blocks'
      BY <1>k, <1>1
    <3>2. blocks'[k + 1].statements = current
      BY <1>1 DEF BasicBlock
    <3> QED BY <3>1, <3>2 DEF Text
  <2>4. \A b \in 1 .. k + 1 : b \in 1 .. k \/ b = k + 1
    BY <1>k
  <2> QED BY <2>1, <2>2, <2>3, <2>4
<1>4. Text(k + 2)' = current'
  BY <1>k, <1>1 DEF Text
<1>5. \A p : p \in LiveSites(l)' <=>
        \E b \in 1 .. k + 2 : \E i \in 1 .. Len(Text(b)') :
          p = <<b, i>> /\ Text(b)'[i] = StorageLive(l)
  <2>1. \A p : p \in StatementSites' <=>
           \E b \in 1 .. InProgress' : \E i \in 1 .. Len(Text(b)') : p = <<b, i>>
    BY DEF StatementSites
  <2>2. \A p : p \in LiveSites(l)' <=> p \in StatementSites' /\ At(p)' = StorageLive(l)
    BY DEF LiveSites, StorageLive
  <2>3. \A b, i : <<b, i>> \in StatementSites' => At(<<b, i>>)' = Text(b)'[i]
    BY DEF At
  <2> QED BY <1>2, <2>1, <2>2, <2>3
<1>6. \A b \in 1 .. k + 2 : b \in 1 .. k + 1 \/ b = k + 2
  BY <1>k
<1>7. \A b \in 1 .. k + 1 : b \in 1 .. k + 2
  BY <1>k
<1>8. \A i \in 1 .. Len(Text(k + 2)') : Text(k + 2)'[i] # StorageLive(l)
  BY <1>4
<1>9. \A p : p \in LiveSites(l) <=>
        \E b \in 1 .. k + 1 : \E i \in 1 .. Len(Text(b)) :
          p = <<b, i>> /\ Text(b)[i] = StorageLive(l)
  BY <1>2, LiveSite
<1> QED BY <1>3, <1>5, <1>6, <1>7, <1>8, <1>9

\* A local that has not been allocated has no StorageLive.
LEMMA FreshHasNoSite ==
  ASSUME TypeOK, NEW l \in Nat, l >= Len(locals)
  PROVE  LiveSites(l) = {}
<1> DEFINE n == Len(locals)
<1>1. /\ n \in Nat /\ l \notin 0 .. n - 1
      /\ blocks \in Seq(BlockOf(n)) /\ current \in Seq(StatementOf(n))
  BY DEF TypeOK
<1> HIDE DEF n
<1>2. \A b \in 1 .. InProgress : Text(b) \in Seq(StatementOf(n))
  <2>1. \A b \in DOMAIN blocks : blocks[b] \in BlockOf(n)
    BY <1>1
  <2>2. \A b \in DOMAIN blocks : blocks[b].statements \in Seq(StatementOf(n))
    BY <2>1 DEF BlockOf
  <2> QED BY <1>1, <2>2 DEF Text
<1>3. \A s \in StatementOf(n) : s # StorageLive(l)
  BY <1>1 DEF StatementOf, StorageLive
<1>4. \A b \in 1 .. InProgress : \A i \in 1 .. Len(Text(b)) : Text(b)[i] # StorageLive(l)
  BY <1>2, <1>3, ElementType
<1> QED BY <1>4, LiveSite

\* Adding statements none of which is a StorageLive.
LEMMA QuietStep ==
  ASSUME TypeOK, StorageLiveOnce, locals' = locals, fn' = fn,
         blocks' = blocks, Len(current') \in Nat, Len(current) <= Len(current'),
         \A i \in 1 .. Len(current) : current'[i] = current[i],
         \A i \in Len(current) + 1 .. Len(current') : current'[i].op # "StorageLive"
  PROVE  StorageLiveOnce'
<1>1. ASSUME NEW l PROVE LiveSites(l)' = LiveSites(l)
  <2>1. \A i \in Len(current) + 1 .. Len(current') : current'[i] # StorageLive(l)
    BY DEF StorageLive
  <2>2. \A p : p \in LiveSites(l)' <=> p \in LiveSites(l)
    BY <2>1, Extended
  <2> QED BY <2>2 DEF LiveSites
<1>2. Locals' = Locals /\ Allocated' = Allocated
  BY DEF Locals, Allocated, ArgPairs
<1> QED BY <1>1, <1>2 DEF StorageLiveOnce

\* A call: the block in progress is closed, and the next starts with the
\* StorageDead of the call's temporaries, if any.
LEMMA CallStep ==
  ASSUME TypeOK, StorageLiveOnce, locals' = locals, fn' = fn,
         NEW STATE t, Finalize(t, current'), Len(current') \in Nat,
         \A i \in 1 .. Len(current') : current'[i].op # "StorageLive"
  PROVE  StorageLiveOnce'
<1>1. ASSUME NEW l PROVE LiveSites(l)' = LiveSites(l)
  <2>1. \A i \in 1 .. Len(current') : current'[i] # StorageLive(l)
    BY DEF StorageLive
  <2>2. \A p : p \in LiveSites(l)' <=> p \in LiveSites(l)
    BY <2>1, Closed
  <2> QED BY <2>2 DEF LiveSites
<1>2. Locals' = Locals /\ Allocated' = Allocated
  BY DEF Locals, Allocated, ArgPairs
<1> QED BY <1>1, <1>2 DEF StorageLiveOnce

\* The statements a step adds, from c + 1 to d, hold no or one StorageLive(l).
AddsNone(l, c, d) == \A i \in c + 1 .. d : current'[i] # StorageLive(l)
AddsOne(l, c, d)  == \E j \in c + 1 .. d : \A i \in c + 1 .. d :
                       current'[i] = StorageLive(l) <=> i = j

\* Allocating locals and adding one StorageLive for each.
LEMMA AllocStep ==
  ASSUME TypeOK, Prologue, StorageLiveOnce, phase = "body", fn' = fn, blocks' = blocks,
         NEW n \in Nat, n = Len(locals), NEW m \in Nat, m = Len(locals'), n <= m,
         NEW c \in Nat, c = Len(current), NEW d \in Nat, d = Len(current'), c <= d,
         \A i \in 1 .. c : current'[i] = current[i],
         \A l \in 0 .. n - 1 : AddsNone(l, c, d),
         \A l \in n .. m - 1 : AddsOne(l, c, d)
  PROVE  StorageLiveOnce'
<1>1. ArgPairs' = ArgPairs /\ ArgPairs \in Nat
  BY FunctionsAssumption DEF ArgPairs, TypeOK
<1>2. n >= ArgPairs + 1
  BY DEF Prologue
<1>3. /\ Locals = 0 .. n - 1 /\ Locals' = 0 .. m - 1
      /\ \A l : l \in Allocated <=> l \in 0 .. n - 1 /\ l > ArgPairs
      /\ \A l : l \in Allocated' <=> l \in 0 .. m - 1 /\ l > ArgPairs
  BY <1>1 DEF Locals, Allocated
<1>4. SUFFICES ASSUME NEW l \in 0 .. m - 1
               PROVE  IF l \in Allocated'
                        THEN \E p \in LiveSites(l)' : LiveSites(l)' = {p}
                        ELSE LiveSites(l)' = {}
  BY <1>3 DEF StorageLiveOnce
<1>5. \A p : p \in LiveSites(l)' <=>
        \/ p \in LiveSites(l)
        \/ \E j \in c + 1 .. d : p = <<InProgress, j>> /\ current'[j] = StorageLive(l)
  BY Extended
<1>6. CASE l \in 0 .. n - 1
  <2>1. \A p : p \in LiveSites(l)' <=> p \in LiveSites(l)
    BY <1>5, <1>6 DEF AddsNone
  <2>2. LiveSites(l)' = LiveSites(l)
    BY <2>1 DEF LiveSites
  <2>3. l \in Allocated' <=> l \in Allocated
    BY <1>3, <1>6
  <2> QED BY <1>3, <1>6, <2>2, <2>3 DEF StorageLiveOnce
<1>7. CASE l \in n .. m - 1
  <2>1. l \in Allocated'
    <3>1. l \in 0 .. m - 1 /\ l > ArgPairs
      BY <1>1, <1>2, <1>7
    <3> QED BY <1>3, <3>1
  <2>2. LiveSites(l) = {}
    BY <1>7, FreshHasNoSite
  <2>3. PICK j \in c + 1 .. d : \A i \in c + 1 .. d : current'[i] = StorageLive(l) <=> i = j
    BY <1>7 DEF AddsOne
  <2>4. \A p : p \in LiveSites(l)' <=> p = <<InProgress, j>>
    BY <1>5, <2>2, <2>3
  <2>5. LiveSites(l)' = {<<InProgress, j>>}
    BY <2>4 DEF LiveSites
  <2> QED BY <2>1, <2>5
<1> QED BY <1>6, <1>7

\* The common case: one local and one statement.
LEMMA AllocOneStep ==
  ASSUME TypeOK, Prologue, StorageLiveOnce, phase = "body", fn' = fn, blocks' = blocks,
         NEW STATE t, locals' = Append(locals, t), current' = Append(current, StorageLive(Fresh))
  PROVE  StorageLiveOnce'
<1>n. PICK n \in Nat : n = Len(locals)
  BY DEF TypeOK
<1>m. PICK m \in Nat : m = n + 1
  BY <1>n
<1>c. PICK c \in Nat : c = Len(current)
  BY DEF TypeOK
<1>d. PICK d \in Nat : d = c + 1
  BY <1>c
<1>1. m = Len(locals') /\ n <= m
  BY <1>n, <1>m DEF TypeOK
<1>2. d = Len(current') /\ c <= d
  BY <1>c, <1>d DEF TypeOK
<1>3. \A i \in 1 .. c : current'[i] = current[i]
  BY <1>c DEF TypeOK
<1>4. current'[d] = StorageLive(n)
  BY <1>n, <1>c, <1>d DEF TypeOK, Fresh
<1>5. \A i \in c + 1 .. d : i = d
  BY <1>c, <1>d
<1>6. \A l \in 0 .. n - 1 : AddsNone(l, c, d)
  <2>1. \A l \in 0 .. n - 1 : StorageLive(l) # StorageLive(n)
    BY DEF StorageLive
  <2> QED BY <1>4, <1>5, <2>1 DEF AddsNone
<1>7. \A l \in n .. m - 1 : AddsOne(l, c, d)
  <2>1. \A l \in n .. m - 1 : l = n
    BY <1>m
  <2>2. d \in c + 1 .. d
    BY <1>d
  <2> QED BY <1>4, <1>5, <2>1, <2>2 DEF AddsOne
<1> QED BY <1>n, <1>c, <1>1, <1>2, <1>3, <1>6, <1>7, AllocStep

\* push allocates two locals and adds three statements.
LEMMA BeginPushStep ==
  ASSUME TypeOK, Prologue, StorageLiveOnce, BeginPush
  PROVE  StorageLiveOnce'
<1> DEFINE borrow == Ref(Fresh, localMap[Top.expr.receiver.name])
           ls     == Append(locals, "&mutVec")
<1>0. /\ phase = "body" /\ fn' = fn /\ blocks' = blocks
      /\ locals' = Append(ls, InferTy(Top.expr.args[1]))
      /\ current' = Append(Append(Append(current, StorageLive(Fresh)), borrow),
                           StorageLive(Fresh + 1))
  BY DEF BeginPush, Active
<1>n. PICK n \in Nat : n = Len(locals)
  BY DEF TypeOK
<1>m. PICK m \in Nat : m = n + 2
  BY <1>n
<1>c. PICK c \in Nat : c = Len(current)
  BY DEF TypeOK
<1>d. PICK d \in Nat : d = c + 3
  BY <1>c
<1>1. m = Len(locals') /\ n <= m
  <2>1. ls \in Seq(Types \cup {"&mutVec"}) /\ Len(ls) = n + 1
    BY <1>n, AppendOne DEF TypeOK
  <2> HIDE DEF ls
  <2>2. Len(locals') = Len(ls) + 1
    BY <1>0, <2>1, AppendOne
  <2>3. Len(locals') = n + 1 + 1
    BY <2>1, <2>2
  <2> QED BY <1>n, <1>m, <2>3
<1> HIDE DEF borrow, ls
<1>2. /\ Len(current') = c + 3
      /\ \A i \in 1 .. c : current'[i] = current[i]
      /\ current'[c + 1] = StorageLive(n)
      /\ current'[c + 2] = borrow
      /\ current'[c + 3] = StorageLive(n + 1)
  <2>1. current \in Seq(StatementOf(Len(locals))) /\ Fresh = n
    BY <1>n DEF TypeOK, Fresh
  <2> QED BY <1>0, <1>c, <2>1, AppendThree
<1>3. d = Len(current') /\ c <= d
  BY <1>c, <1>d, <1>2
<1>4. \A l : StorageLive(l) # borrow
  BY DEF borrow, Ref, StorageLive
<1>5. \A k, l : StorageLive(k) = StorageLive(l) => k = l
  BY DEF StorageLive
<1>6. \A i \in c + 1 .. d : i \in {c + 1, c + 2, c + 3}
  BY <1>c, <1>d
<1>7. \A l \in 0 .. n - 1 : l # n /\ l # n + 1
  BY <1>n
<1>8. \A l \in 0 .. n - 1 : AddsNone(l, c, d)
  BY <1>2, <1>4, <1>5, <1>6, <1>7 DEF AddsNone
<1>9. \A l \in n .. m - 1 : AddsOne(l, c, d)
  <2>1. c + 1 \in c + 1 .. d /\ c + 3 \in c + 1 .. d /\ c + 1 # c + 3 /\ c + 2 # c + 3
        /\ c + 1 # c + 2 /\ n # n + 1
    BY <1>n, <1>c, <1>d
  <2>2. AddsOne(n, c, d)
    <3>1. \A i \in c + 1 .. d : current'[i] = StorageLive(n) <=> i = c + 1
      BY <1>2, <1>4, <1>5, <1>6, <2>1
    <3> QED BY <2>1, <3>1 DEF AddsOne
  <2>3. AddsOne(n + 1, c, d)
    <3>1. \A i \in c + 1 .. d : current'[i] = StorageLive(n + 1) <=> i = c + 3
      BY <1>2, <1>4, <1>5, <1>6, <2>1
    <3> QED BY <2>1, <3>1 DEF AddsOne
  <2>4. \A l \in n .. m - 1 : l = n \/ l = n + 1
    BY <1>n, <1>m
  <2> QED BY <2>2, <2>3, <2>4
<1> QED BY <1>0, <1>n, <1>1, <1>c, <1>2, <1>3, <1>8, <1>9, AllocStep

(* Every step keeps StorageLive unique.                                     *)
LEMMA StorageLiveOnceNext ==
  TypeOK /\ Prologue /\ StorageLiveOnce /\ [Next]_vars => StorageLiveOnce'
<1> SUFFICES ASSUME TypeOK, Prologue, StorageLiveOnce, [Next]_vars
             PROVE  StorageLiveOnce'
  OBVIOUS
<1>c. current \in Seq(StatementOf(Len(locals))) /\ Len(current) \in Nat
  BY DEF TypeOK
\* Before the body nothing is written and nothing is Allocated.
<1>1. CASE Resolve \/ BindParam
  <2>1. /\ blocks' = << >> /\ current' = << >> /\ fn' = fn
        /\ \E t : locals' = Append(locals, t)
        /\ \/ phase = "resolve"
           \/ phase = "params" /\ next <= ArgPairs
    BY <1>1 DEF Resolve, BindParam, Prologue
  <2>2. /\ ArgPairs' = ArgPairs /\ ArgPairs \in Nat
        /\ Len(locals) \in Nat /\ next \in Nat
        /\ \A t : Len(Append(locals, t)) = Len(locals) + 1
    BY <2>1, FunctionsAssumption DEF ArgPairs, TypeOK
  <2>3. Len(locals) <= ArgPairs
    BY <2>1, <2>2 DEF Prologue
  <2>4. Len(locals') <= ArgPairs + 1 /\ Len(locals') \in Nat
    BY <2>1, <2>2, <2>3
  <2>5. Allocated' = {}
    BY <2>2, <2>4 DEF Allocated, Locals
  <2>6. ASSUME NEW l PROVE LiveSites(l)' = {}
    <3>1. StatementSites' = {}
      BY <2>1 DEF StatementSites, InProgress, Text
    <3> QED BY <3>1 DEF LiveSites
  <2> QED BY <2>5, <2>6 DEF StorageLiveOnce
<1>2. CASE LowerLet \/ LowerExprStmt \/ LowerField
  <2>1. /\ phase = "body" /\ fn' = fn /\ blocks' = blocks
        /\ current' = Append(current, StorageLive(Fresh))
    BY <1>2 DEF LowerLet, LowerExprStmt, LowerField, Idle, Active
  <2>2. \/ locals' = Append(locals, InferTy(fn.stmts[next].expr))
        \/ locals' = Append(locals, InferTy(Top.expr.fields[Top.done + 1].expr))
    BY <1>2 DEF LowerLet, LowerExprStmt, LowerField
  <2> QED BY <2>1, <2>2, AllocOneStep
<1>3. CASE BeginPush
  BY <1>3, BeginPushStep
<1>4. CASE EndExprStmt \/ LowerIntLit \/ LowerVar
  <2>1. /\ locals' = locals /\ fn' = fn /\ blocks' = blocks
        /\ \/ current' = Append(current, StorageDead(Top.tmp))
           \/ current' = Append(current, Use(Top.dest, Const(AsI32(Top.expr.n))))
           \/ current' = Append(current, Use(Top.dest, Move(localMap[Top.expr.name])))
    BY <1>4 DEF EndExprStmt, LowerIntLit, LowerVar
  <2>2. \A l, o : StorageDead(l).op # "StorageLive" /\ Use(l, o).op # "StorageLive"
    BY DEF StorageDead, Use
  <2>s. \E s : current' = Append(current, s) /\ s.op # "StorageLive"
    BY <2>1, <2>2
  <2>t. PICK s : current' = Append(current, s) /\ s.op # "StorageLive"
    BY <2>s
  <2>3. /\ Len(current') = Len(current) + 1
        /\ \A i \in 1 .. Len(current) : current'[i] = current[i]
        /\ current'[Len(current) + 1].op # "StorageLive"
    BY <1>c, <2>t, AppendOne
  <2>4. /\ Len(current') \in Nat /\ Len(current) <= Len(current')
        /\ \A i \in Len(current) + 1 .. Len(current') : i = Len(current) + 1
    BY <1>c, <2>3
  <2> QED BY <2>1, <2>3, <2>4, QuietStep
<1>5. CASE StartBody \/ BeginStruct \/ LowerRet \/ Panic \/ UNCHANGED vars
  <2>1. locals' = locals /\ fn' = fn /\ blocks' = blocks /\ current' = current
    BY <1>5 DEF StartBody, BeginStruct, LowerRet, Panic, vars
  <2>2. \A i \in Len(current) + 1 .. Len(current') : FALSE
    BY <1>c, <2>1
  <2> QED BY <1>c, <2>1, <2>2, QuietStep
<1>6. CASE FinishStruct
  <2> DEFINE ts == Top.tmps
             ms == [i \in 1 .. Len(ts) |-> Move(ts[i])]
             ds == [i \in 1 .. Len(ts) |-> StorageDead(ts[i])]
             agg == Aggregate(Top.dest, ms)
             S == StatementOf(Len(locals)) \cup {agg} \cup {ds[i] : i \in DOMAIN ds}
             c1 == Append(current, agg)
  <2>1. /\ locals' = locals /\ fn' = fn /\ blocks' = blocks
        /\ current' = current \o <<agg>> \o ds
    BY <1>6 DEF FinishStruct
  <2>2. Len(ts) \in Nat
    <3>1. frames \in Seq(FrameOf(Len(locals))) /\ frames # << >>
      BY <1>6 DEF FinishStruct, Active, TypeOK
    <3>2. Top \in FrameOf(Len(locals)) /\ Top.f = "fields"
      BY <1>6, <3>1, TopType DEF FinishStruct, Active, TypeOK
    <3> QED BY <3>2 DEF FrameOf
  <2>3. /\ ds \in Seq(S) /\ Len(ds) = Len(ts)
        /\ \A i \in 1 .. Len(ds) : ds[i].op # "StorageLive"
    <3>1. DOMAIN ds = 1 .. Len(ts) /\ \A i \in 1 .. Len(ts) : ds[i] = StorageDead(ts[i])
      OBVIOUS
    <3>2. \A i \in 1 .. Len(ts) : ds[i] \in S
      OBVIOUS
    <3>3. \A l : StorageDead(l).op # "StorageLive"
      BY DEF StorageDead
    <3>4. ds \in [1 .. Len(ts) -> S]
      BY <3>2
    <3> HIDE DEF ds, S
    <3>5. ds \in Seq(S) /\ Len(ds) = Len(ts)
      BY <2>2, <3>1, <3>4
    <3> QED BY <3>1, <3>3, <3>5
  <2>4. agg.op # "StorageLive" /\ agg \in S /\ current \in Seq(S)
    BY <1>c DEF Aggregate
  <2> HIDE DEF ds, S, agg
  <2>5. /\ c1 \in Seq(S) /\ Len(c1) = Len(current) + 1
        /\ \A i \in 1 .. Len(current) : c1[i] = current[i]
        /\ c1[Len(current) + 1] = agg
    BY <2>4, AppendType, AppendOne
  <2>6. current' = c1 \o ds
    BY <2>1, <2>4
  <2> HIDE DEF c1
  <2>7. /\ Len(current') = Len(c1) + Len(ds)
        /\ \A i \in 1 .. Len(c1) : current'[i] = c1[i]
        /\ \A i \in Len(c1) + 1 .. Len(c1) + Len(ds) : current'[i] = ds[i - Len(c1)]
    <3>1. c1 \in Seq(S) /\ ds \in Seq(S)
      BY <2>3, <2>5
    <3> QED BY <2>6, <3>1, ConcatParts
  <2>8. Len(c1) \in Nat /\ Len(ds) \in Nat
    BY <2>3, <2>5, ElementType
  <2>9. /\ Len(current') \in Nat /\ Len(current) <= Len(current')
        /\ \A i \in 1 .. Len(current) : current'[i] = current[i]
    BY <1>c, <2>5, <2>7, <2>8
  <2>10. ASSUME NEW i \in Len(current) + 1 .. Len(current')
         PROVE  current'[i].op # "StorageLive"
    <3>1. CASE i = Len(current) + 1
      BY <1>c, <2>4, <2>5, <2>7, <3>1
    <3>2. CASE i # Len(current) + 1
      <4>1. i \in Len(c1) + 1 .. Len(c1) + Len(ds) /\ i - Len(c1) \in 1 .. Len(ds)
        BY <1>c, <2>5, <2>7, <2>8, <2>10, <3>2
      <4> QED BY <2>3, <2>7, <4>1
    <3> QED BY <3>1, <3>2
  <2> QED BY <2>1, <2>9, <2>10, QuietStep
<1>7. CASE LowerVecNew \/ LowerLen \/ EmitReturn
  <2>1. /\ locals' = locals /\ fn' = fn /\ current' = << >>
        /\ \/ Finalize(Call("new", << >>, Top.dest, NextBlock), current')
           \/ Finalize(Call("len", <<Copy(localMap[Top.expr.receiver.name])>>,
                            Top.dest, NextBlock), current')
           \/ Finalize(Return, current')
    BY <1>7 DEF LowerVecNew, LowerLen, EmitReturn, Finalize
  <2>2. Len(current') \in Nat /\ \A i \in 1 .. Len(current') : FALSE
    BY <2>1
  <2> QED BY <2>1, <2>2, CallStep
<1>8. CASE FinishPush
  <2>1. /\ locals' = locals /\ fn' = fn
        /\ current' = <<StorageDead(Top.arg), StorageDead(Top.ref)>>
        /\ Finalize(Call("push", <<Move(Top.ref), Move(Top.arg)>>, Top.dest, NextBlock),
                    current')
    BY <1>8 DEF FinishPush, Finalize
  <2>2. Len(current') = 2 /\ current'[1] = StorageDead(Top.arg)
                          /\ current'[2] = StorageDead(Top.ref)
    BY <2>1
  <2>3. \A l : StorageDead(l).op # "StorageLive"
    BY DEF StorageDead
  <2>4. Len(current') \in Nat /\ \A i \in 1 .. Len(current') : i = 1 \/ i = 2
    BY <2>2
  <2> QED BY <2>1, <2>2, <2>3, <2>4, CallStep
<1> QED
  BY <1>1, <1>2, <1>3, <1>4, <1>5, <1>6, <1>7, <1>8 DEF Next

(* Rule 1 of the validity rules, first half: every local that alloc_local    *)
(* hands out has exactly one StorageLive, and _0 and the parameters none.    *)
THEOREM StorageCorrect == Spec => []StorageLiveOnce
<1>1. Init => StorageLiveOnce
  BY DEF Init, StorageLiveOnce, Locals
<1>2. TypeOK /\ Prologue /\ StorageLiveOnce /\ [Next]_vars => StorageLiveOnce'
  BY StorageLiveOnceNext
<1> QED BY <1>1, <1>2, TypeCorrect, PTL DEF Spec

-----------------------------------------------------------------------------
(* The text written so far, by block and index.                              *)

\* <<b, i>> is a site of the blocks bs followed by the block in progress cur.
IsSite(bs, cur, b, i) ==
  \/ b \in 1 .. Len(bs) /\ i \in 1 .. Len(bs[b].statements) + 1
  \/ b = Len(bs) + 1 /\ i \in 1 .. Len(cur)

Instruction(bs, cur, b, i) ==
  IF b = Len(bs) + 1 THEN cur[i]
  ELSE IF i \in 1 .. Len(bs[b].statements) THEN bs[b].statements[i]
  ELSE bs[b].terminator

SitesView ==
  /\ \A p : p \in Sites <=> \E b, i : p = <<b, i>> /\ IsSite(blocks, current, b, i)
  /\ \A b, i : IsSite(blocks, current, b, i) =>
       At(<<b, i>>) = Instruction(blocks, current, b, i)
  /\ \A l, p : p \in LiveSites(l) <=> p \in Sites /\ At(p) = StorageLive(l)
  /\ \A l, p : p \in DeadSites(l) <=> p \in Sites /\ At(p) = StorageDead(l)
  /\ \A l, p : p \in UseSites(l) <=> p \in Sites /\ l \in UsedBy(At(p))

\* The sites are what IsSite and Instruction say.
LEMMA SitesViewHolds == TypeOK => SitesView
<1> SUFFICES ASSUME TypeOK PROVE SitesView
  OBVIOUS
<1>n. PICK n \in Nat : n = Len(locals)
  BY DEF TypeOK
<1>k. PICK k \in Nat : k = Len(blocks)
  BY DEF TypeOK
<1>1. /\ DOMAIN blocks = 1 .. k /\ InProgress = k + 1
      /\ Len(current) \in Nat
      /\ \A b \in 1 .. k : /\ Text(b) = blocks[b].statements
                           /\ Len(blocks[b].statements) \in Nat
                           /\ blocks[b].terminator \in TerminatorOf(n)
      /\ Text(k + 1) = current
  <2>1. blocks \in Seq(BlockOf(n)) /\ current \in Seq(StatementOf(n))
    BY <1>n DEF TypeOK
  <2>2. \A b \in 1 .. k : blocks[b] \in BlockOf(n)
    BY <1>k, <2>1
  <2>3. \A b \in 1 .. k : blocks[b].statements \in Seq(StatementOf(n))
                          /\ blocks[b].terminator \in TerminatorOf(n)
    BY <2>2 DEF BlockOf
  <2>4. DOMAIN blocks = 1 .. k /\ k + 1 \notin 1 .. k
    BY <1>k, <2>1
  <2>5. InProgress = k + 1
    BY <1>k DEF InProgress
  <2> QED BY <2>1, <2>3, <2>4, <2>5 DEF Text
<1>2. \A p : p \in StatementSites <=>
        \/ \E b \in 1 .. k : \E i \in 1 .. Len(blocks[b].statements) : p = <<b, i>>
        \/ \E i \in 1 .. Len(current) : p = <<k + 1, i>>
  <2>1. \A p : p \in StatementSites <=>
          \E b \in 1 .. k + 1 : \E i \in 1 .. Len(Text(b)) : p = <<b, i>>
    BY <1>1 DEF StatementSites
  <2>2. \A b : b \in 1 .. k + 1 <=> b \in 1 .. k \/ b = k + 1
    BY <1>k
  <2> QED BY <1>1, <2>1, <2>2
<1>3. \A p : p \in TerminatorSites <=>
        \E b \in 1 .. k : p = <<b, Len(blocks[b].statements) + 1>>
  BY <1>1 DEF TerminatorSites
<1>4. \A b \in 1 .. k : \A i : i \in 1 .. Len(blocks[b].statements) + 1 <=>
        i \in 1 .. Len(blocks[b].statements) \/ i = Len(blocks[b].statements) + 1
  BY <1>1
<1>5. \A p : p \in Sites <=> \E b, i : p = <<b, i>> /\ IsSite(blocks, current, b, i)
  BY <1>2, <1>3, <1>4, <1>k DEF Sites, IsSite
<1>6. \A b \in 1 .. k : b # k + 1
  BY <1>k
<1>7. ASSUME NEW b, NEW i, IsSite(blocks, current, b, i)
      PROVE  At(<<b, i>>) = Instruction(blocks, current, b, i)
  <2>1. CASE b \in 1 .. k /\ i \in 1 .. Len(blocks[b].statements)
    <3>1. <<b, i>> \in StatementSites
      BY <1>2, <2>1
    <3> QED BY <1>k, <1>1, <1>6, <2>1, <3>1 DEF At, Instruction
  <2>2. CASE b \in 1 .. k /\ i = Len(blocks[b].statements) + 1
    <3>1. i \notin 1 .. Len(blocks[b].statements)
      BY <1>1, <2>2
    <3>2. <<b, i>> \notin StatementSites
      BY <1>2, <1>6, <2>2, <3>1
    <3> QED BY <1>k, <1>6, <2>2, <3>1, <3>2 DEF At, Instruction
  <2>3. CASE b = k + 1 /\ i \in 1 .. Len(current)
    <3>1. <<b, i>> \in StatementSites
      BY <1>2, <2>3
    <3> QED BY <1>k, <1>1, <2>3, <3>1 DEF At, Instruction
  <2> QED BY <1>4, <1>7, <1>k, <2>1, <2>2, <2>3 DEF IsSite
<1>8. ASSUME NEW p \in Sites, p \notin StatementSites
      PROVE  At(p).op \in {"Call", "Return"}
  <2>1. PICK b \in 1 .. k : p = <<b, Len(blocks[b].statements) + 1>>
    BY <1>3, <1>8 DEF Sites
  <2>2. At(p) = blocks[b].terminator
    BY <1>8, <2>1 DEF At
  <2> QED BY <1>1, <2>2 DEF TerminatorOf
<1>9. \A l : StorageLive(l).op \notin {"Call", "Return"} /\ StorageDead(l).op \notin {"Call", "Return"}
  BY DEF StorageLive, StorageDead
<1>10. \A l, p : p \in LiveSites(l) <=> p \in Sites /\ At(p) = StorageLive(l)
  BY <1>8, <1>9 DEF LiveSites, Sites
<1>11. \A l, p : p \in DeadSites(l) <=> p \in Sites /\ At(p) = StorageDead(l)
  BY <1>8, <1>9 DEF DeadSites, Sites
<1>12. \A l, p : p \in UseSites(l) <=> p \in Sites /\ l \in UsedBy(At(p))
  BY DEF UseSites, Sites
<1> QED BY <1>5, <1>7, <1>10, <1>11, <1>12 DEF SitesView

LEMMA SitesViewNext == TypeOK' => SitesView'
BY SitesViewHolds, PTL

\* The text and its blocks have lengths.
TextTyped ==
  /\ Len(locals) \in Nat /\ Len(blocks) \in Nat /\ Len(current) \in Nat
  /\ blocks \in Seq(BlockOf(Len(locals)))
  /\ current \in Seq(StatementOf(Len(locals)))
LEMMA TextTypedHolds == TypeOK => TextTyped
BY DEF TypeOK, TextTyped
LEMMA TextTypedNext == TypeOK' => TextTyped'
BY TextTypedHolds, PTL

-----------------------------------------------------------------------------
(* How a step extends the text.                                              *)

\* The sites that were there before a step are there after it, unchanged, and
\* new ones come after them.
Extends ==
  /\ \A p \in Sites : p \in Sites' /\ At(p)' = At(p)
  /\ \A p \in Sites, q \in Sites' : q \in Sites \/ Precedes(p, q)

\* What a step adds: the statements after the first c of the block in progress.
AddsStatements ==
  \A q \in Sites' :
    \/ q \in Sites
    \/ \E j \in Len(current) + 1 .. Len(current') :
         q = <<InProgress, j>> /\ At(q)' = current'[j]

\* What closing a block adds: the terminator t, then the next block's statements.
AddsBlock(t) ==
  \A q \in Sites' :
    \/ q \in Sites
    \/ q = <<InProgress, Len(current) + 1>> /\ At(q)' = t
    \/ \E j \in 1 .. Len(current') : q = <<InProgress + 1, j>> /\ At(q)' = current'[j]

\* Adding statements to the block in progress.
LEMMA ExtendStep ==
  ASSUME TypeOK, TypeOK', blocks' = blocks, Len(current) <= Len(current'),
         \A i \in 1 .. Len(current) : current'[i] = current[i]
  PROVE  /\ Extends /\ AddsStatements
         /\ \A j \in Len(current) + 1 .. Len(current') :
              \E q \in Sites' : q = <<InProgress, j>> /\ At(q)' = current'[j]
<1>k. PICK k \in Nat : k = Len(blocks)
  BY TextTypedHolds DEF TextTyped
<1>c. PICK c \in Nat : c = Len(current)
  BY TextTypedHolds DEF TextTyped
<1>d. PICK d \in Nat : d = Len(current')
  BY TextTypedNext DEF TextTyped
<1>1. InProgress = k + 1 /\ c <= d /\ Len(blocks') = k
  BY <1>k, <1>c, <1>d DEF InProgress
<1>2. SitesView /\ SitesView'
  BY SitesViewHolds, SitesViewNext
<1>3. \A p : p \in Sites <=> \E b, i : p = <<b, i>> /\ IsSite(blocks, current, b, i)
  BY <1>2 DEF SitesView
<1>4. \A p : p \in Sites' <=> \E b, i : p = <<b, i>> /\ IsSite(blocks, current', b, i)
  BY <1>2 DEF SitesView
<1>5. \A b, i : IsSite(blocks, current, b, i) => At(<<b, i>>) = Instruction(blocks, current, b, i)
  BY <1>2 DEF SitesView
<1>6. \A b, i : IsSite(blocks, current', b, i) =>
        At(<<b, i>>)' = Instruction(blocks, current', b, i)
  BY <1>2 DEF SitesView
<1>7. \A b, i : IsSite(blocks, current, b, i) =>
        /\ IsSite(blocks, current', b, i)
        /\ Instruction(blocks, current', b, i) = Instruction(blocks, current, b, i)
  BY <1>k, <1>c, <1>d, <1>1 DEF IsSite, Instruction
<1>8. \A b, i : IsSite(blocks, current', b, i) =>
        \/ IsSite(blocks, current, b, i)
        \/ b = k + 1 /\ i \in c + 1 .. d /\ Instruction(blocks, current', b, i) = current'[i]
  BY <1>k, <1>c, <1>d, <1>1 DEF IsSite, Instruction
<1>9. \A j \in c + 1 .. d : IsSite(blocks, current', k + 1, j)
                            /\ Instruction(blocks, current', k + 1, j) = current'[j]
  BY <1>k, <1>c, <1>d, <1>1 DEF IsSite, Instruction
<1>10. \A p \in Sites : p \in Sites' /\ At(p)' = At(p)
  BY <1>3, <1>4, <1>5, <1>6, <1>7
<1>11. \A q \in Sites' : \/ q \in Sites
                         \/ \E j \in c + 1 .. d : q = <<k + 1, j>> /\ At(q)' = current'[j]
  BY <1>3, <1>4, <1>6, <1>8
<1>12. \A b, i : IsSite(blocks, current, b, i) =>
         \A j \in c + 1 .. d : Precedes(<<b, i>>, <<k + 1, j>>)
  BY <1>k, <1>c, <1>d DEF IsSite, Precedes
<1>13. \A p \in Sites, q \in Sites' : q \in Sites \/ Precedes(p, q)
  BY <1>3, <1>11, <1>12
<1>14. Extends
  BY <1>10, <1>13 DEF Extends
<1>15. AddsStatements
  BY <1>1, <1>c, <1>d, <1>11 DEF AddsStatements
<1>16. \A j \in c + 1 .. d : \E q \in Sites' : q = <<k + 1, j>> /\ At(q)' = current'[j]
  BY <1>4, <1>6, <1>9
<1> QED BY <1>1, <1>c, <1>d, <1>14, <1>15, <1>16

\* Closing the block in progress.
LEMMA CloseStep ==
  ASSUME TypeOK, TypeOK', NEW STATE t, Finalize(t, current')
  PROVE  /\ Extends /\ AddsBlock(t)
         /\ \A j \in 1 .. Len(current') :
              \E q \in Sites' : q = <<InProgress + 1, j>> /\ At(q)' = current'[j]
<1>k. PICK k \in Nat : k = Len(blocks)
  BY TextTypedHolds DEF TextTyped
<1>c. PICK c \in Nat : c = Len(current)
  BY TextTypedHolds DEF TextTyped
<1>d. PICK d \in Nat : d = Len(current')
  BY TextTypedNext DEF TextTyped
<1>u. PICK u : u = t
  OBVIOUS
<1>bs. PICK bs : bs = blocks'
  OBVIOUS
<1>1. /\ InProgress = k + 1 /\ Len(bs) = k + 1
      /\ \A b \in 1 .. k : bs[b] = blocks[b]
      /\ bs[k + 1] = BasicBlock(current, u)
      /\ \A b \in 1 .. k : Len(blocks[b].statements) \in Nat
  <2>1. blocks' = Append(blocks, BasicBlock(current, t))
    BY DEF Finalize
  <2>2. blocks \in Seq(BlockOf(Len(locals)))
    BY TextTypedHolds DEF TextTyped
  <2>3. \A b \in 1 .. k : blocks[b] \in BlockOf(Len(locals))
    BY <1>k, <2>2
  <2>4. \A b \in 1 .. k : blocks[b].statements \in Seq(StatementOf(Len(locals)))
    BY <2>3 DEF BlockOf
  <2>5. \A b \in 1 .. k : Len(blocks[b].statements) \in Nat
    BY <2>4
  <2>6. Len(Append(blocks, BasicBlock(current, t))) = k + 1
        /\ (\A b \in 1 .. k : Append(blocks, BasicBlock(current, t))[b] = blocks[b])
        /\ Append(blocks, BasicBlock(current, t))[k + 1] = BasicBlock(current, t)
    BY <1>k, <2>2, AppendOne
  <2> QED BY <1>k, <1>u, <1>bs, <2>1, <2>5, <2>6 DEF InProgress
<1>s. bs[k + 1].statements = current /\ bs[k + 1].terminator = u
  BY <1>1 DEF BasicBlock
<1>2. SitesView /\ SitesView'
  BY SitesViewHolds, SitesViewNext
<1>3. \A p : p \in Sites <=> \E b, i : p = <<b, i>> /\ IsSite(blocks, current, b, i)
  BY <1>2 DEF SitesView
<1>4. \A p : p \in Sites' <=> \E b, i : p = <<b, i>> /\ IsSite(bs, current', b, i)
  BY <1>2, <1>bs DEF SitesView
<1>5. \A b, i : IsSite(blocks, current, b, i) => At(<<b, i>>) = Instruction(blocks, current, b, i)
  BY <1>2 DEF SitesView
<1>6. \A b, i : IsSite(bs, current', b, i) =>
        At(<<b, i>>)' = Instruction(bs, current', b, i)
  BY <1>2, <1>bs DEF SitesView
<1>7. ASSUME NEW b, NEW i, IsSite(blocks, current, b, i)
      PROVE  /\ IsSite(bs, current', b, i)
             /\ Instruction(bs, current', b, i) = Instruction(blocks, current, b, i)
  <2>1. CASE b \in 1 .. k /\ i \in 1 .. Len(blocks[b].statements) + 1
    <3>1. b \in 1 .. k + 1 /\ b # k + 1 /\ b # k + 1 + 1 /\ bs[b] = blocks[b]
      BY <1>1, <2>1
    <3> QED BY <1>k, <1>1, <2>1, <3>1 DEF IsSite, Instruction
  <2>2. CASE b = k + 1 /\ i \in 1 .. c
    <3>1. b \in 1 .. k + 1 /\ b # k + 1 + 1 /\ i \in 1 .. c + 1
      BY <1>c, <2>2
    <3> QED BY <1>k, <1>c, <1>1, <1>s, <2>2, <3>1 DEF IsSite, Instruction
  <2> QED BY <1>7, <1>k, <1>c, <2>1, <2>2 DEF IsSite
<1>8. ASSUME NEW b, NEW i, IsSite(bs, current', b, i)
      PROVE  \/ IsSite(blocks, current, b, i)
             \/ b = k + 1 /\ i = c + 1 /\ Instruction(bs, current', b, i) = u
             \/ b = k + 2 /\ i \in 1 .. d /\ Instruction(bs, current', b, i) = current'[i]
  <2>1. CASE b \in 1 .. k
    <3>1. b \in 1 .. k + 1 /\ b # k + 1 + 1 /\ bs[b] = blocks[b]
      BY <1>1, <2>1
    <3> QED BY <1>8, <1>k, <1>1, <2>1, <3>1 DEF IsSite
  <2>2. CASE b = k + 1
    <3>1. b # k + 1 + 1 /\ i \in 1 .. c + 1
      BY <1>8, <1>1, <1>s, <1>c, <2>2 DEF IsSite
    <3>2. i \in 1 .. c \/ i = c + 1
      BY <3>1
    <3>3. i = c + 1 => i \notin 1 .. c
      OBVIOUS
    <3> QED BY <1>k, <1>c, <1>1, <1>s, <2>2, <3>1, <3>2, <3>3 DEF IsSite, Instruction
  <2>3. CASE b = k + 1 + 1 /\ i \in 1 .. d
    BY <1>1, <1>d, <2>3 DEF Instruction
  <2>4. b \in 1 .. k \/ b = k + 1 \/ (b = k + 1 + 1 /\ i \in 1 .. d)
    BY <1>8, <1>1, <1>d DEF IsSite
  <2> QED BY <2>1, <2>2, <2>3, <2>4
<1>9. \A j \in 1 .. d : IsSite(bs, current', k + 2, j)
                        /\ Instruction(bs, current', k + 2, j) = current'[j]
  BY <1>k, <1>d, <1>1 DEF IsSite, Instruction
<1>10. \A p \in Sites : p \in Sites' /\ At(p)' = At(p)
  BY <1>3, <1>4, <1>5, <1>6, <1>7
<1>11. \A q \in Sites' : \/ q \in Sites
                         \/ q = <<k + 1, c + 1>> /\ At(q)' = u
                         \/ \E j \in 1 .. d : q = <<k + 2, j>> /\ At(q)' = current'[j]
  BY <1>3, <1>4, <1>6, <1>8
<1>12. \A b, i : IsSite(blocks, current, b, i) =>
         /\ Precedes(<<b, i>>, <<k + 1, c + 1>>)
         /\ \A j : Precedes(<<b, i>>, <<k + 2, j>>)
  BY <1>k, <1>c DEF IsSite, Precedes
<1>13. \A p \in Sites, q \in Sites' : q \in Sites \/ Precedes(p, q)
  BY <1>3, <1>11, <1>12
<1>14. \A q \in Sites' : \/ q \in Sites
                         \/ q = <<k + 1, c + 1>> /\ At(q)' = t
                         \/ \E j \in 1 .. d : q = <<k + 2, j>> /\ At(q)' = current'[j]
  BY <1>11, <1>u
<1>15. InProgress + 1 = k + 2
  BY <1>1
<1>16. Extends
  BY <1>10, <1>13 DEF Extends
<1>17. AddsBlock(t)
  BY <1>1, <1>15, <1>c, <1>d, <1>14 DEF AddsBlock
<1>18. \A j \in 1 .. d : \E q \in Sites' : q = <<k + 2, j>> /\ At(q)' = current'[j]
  BY <1>4, <1>6, <1>9
<1> QED BY <1>15, <1>d, <1>16, <1>17, <1>18

-----------------------------------------------------------------------------
(* What an instruction uses.                                                 *)

\* The locals each of the written instructions touches.
LEMMA UsedByWritten ==
  /\ \A l : UsedBy(StorageLive(l)) = {} /\ UsedBy(StorageDead(l)) = {}
  /\ UsedBy(Return) \subseteq {0}
  /\ \A l, c : UsedBy(Use(l, Const(c))) \subseteq {l}
  /\ \A l, r : UsedBy(Use(l, Move(r))) \subseteq {l, r}
  /\ \A l, r : UsedBy(Ref(l, r)) \subseteq {l, r}
  /\ \A f, l, t : UsedBy(Call(f, << >>, l, t)) \subseteq {l}
  /\ \A f, r, l, t : UsedBy(Call(f, <<Copy(r)>>, l, t)) \subseteq {l, r}
  /\ \A f, r, x, l, t : UsedBy(Call(f, <<Move(r), Move(x)>>, l, t)) \subseteq {l, r, x}
<1>1. /\ \A l : UsedBy(StorageLive(l)) = {} /\ UsedBy(StorageDead(l)) = {}
      /\ UsedBy(Return) \subseteq {0}
  BY DEF UsedBy, Storage, StorageLive, StorageDead, Return
<1>2. \A s : s.op \in {"Use", "Ref", "Call"} => UsedBy(s) = {s.place} \cup ReadBy(s)
  BY DEF UsedBy, Storage
<1>3. \A s, o : s.operands = <<o>> => ReadBy(s) \subseteq {o.arg}
  <2> SUFFICES ASSUME NEW s, NEW o, s.operands = <<o>>
               PROVE  ReadBy(s) \subseteq {o.arg}
    OBVIOUS
  <2>1. \A i \in DOMAIN s.operands : s.operands[i] = o
    OBVIOUS
  <2> QED BY <2>1 DEF ReadBy
<1>4. \A s, o, p : s.operands = <<o, p>> => ReadBy(s) \subseteq {o.arg, p.arg}
  <2> SUFFICES ASSUME NEW s, NEW o, NEW p, s.operands = <<o, p>>
               PROVE  ReadBy(s) \subseteq {o.arg, p.arg}
    OBVIOUS
  <2>1. \A i \in DOMAIN s.operands : s.operands[i] = o \/ s.operands[i] = p
    OBVIOUS
  <2> QED BY <2>1 DEF ReadBy
<1>5. \A s : s.operands = << >> => ReadBy(s) = {}
  <2> SUFFICES ASSUME NEW s, s.operands = << >>
               PROVE  ReadBy(s) = {}
    OBVIOUS
  <2>1. DOMAIN s.operands = {}
    OBVIOUS
  <2> QED BY <2>1 DEF ReadBy
<1>c. \A s, c : s.operands = <<Const(c)>> => ReadBy(s) = {}
  <2> SUFFICES ASSUME NEW s, NEW c, s.operands = <<Const(c)>>
               PROVE  ReadBy(s) = {}
    OBVIOUS
  <2>1. \A i \in DOMAIN s.operands : s.operands[i] = Const(c)
    OBVIOUS
  <2> QED BY <2>1 DEF ReadBy, Const
<1>6. \A r : Move(r).arg = r /\ Copy(r).arg = r /\ Borrow(r).arg = r
  BY DEF Move, Copy, Borrow
<1>7. ASSUME NEW l, NEW c
      PROVE  UsedBy(Use(l, Const(c))) \subseteq {l}
  <2>1. Use(l, Const(c)).operands = <<Const(c)>> /\ Use(l, Const(c)).op = "Use"
        /\ Use(l, Const(c)).place = l
    BY DEF Use
  <2> QED BY <1>2, <1>c, <2>1
<1>8. ASSUME NEW l, NEW r
      PROVE  UsedBy(Use(l, Move(r))) \subseteq {l, r}
  <2>1. Use(l, Move(r)).operands = <<Move(r)>> /\ Use(l, Move(r)).op = "Use"
        /\ Use(l, Move(r)).place = l
    BY DEF Use
  <2> QED BY <1>2, <1>3, <1>6, <2>1
<1>9. ASSUME NEW l, NEW r
      PROVE  UsedBy(Ref(l, r)) \subseteq {l, r}
  <2>1. Ref(l, r).operands = <<Borrow(r)>> /\ Ref(l, r).op = "Ref" /\ Ref(l, r).place = l
    BY DEF Ref
  <2> QED BY <1>2, <1>3, <1>6, <2>1
<1>10. ASSUME NEW f, NEW l, NEW t
      PROVE  UsedBy(Call(f, << >>, l, t)) \subseteq {l}
  <2>1. Call(f, << >>, l, t).operands = << >> /\ Call(f, << >>, l, t).op = "Call"
        /\ Call(f, << >>, l, t).place = l
    BY DEF Call
  <2> QED BY <1>2, <1>5, <2>1
<1>11. ASSUME NEW f, NEW r, NEW l, NEW t
      PROVE  UsedBy(Call(f, <<Copy(r)>>, l, t)) \subseteq {l, r}
  <2> DEFINE s == Call(f, <<Copy(r)>>, l, t)
  <2>1. s.operands = <<Copy(r)>> /\ s.op = "Call" /\ s.place = l
    BY DEF Call
  <2> HIDE DEF s
  <2>2. UsedBy(s) \subseteq {l, r}
    BY <1>2, <1>3, <1>6, <2>1
  <2> QED BY <2>2 DEF s
<1>12. ASSUME NEW f, NEW r, NEW x, NEW l, NEW t
      PROVE  UsedBy(Call(f, <<Move(r), Move(x)>>, l, t)) \subseteq {l, r, x}
  <2> DEFINE s == Call(f, <<Move(r), Move(x)>>, l, t)
  <2>1. s.operands = <<Move(r), Move(x)>> /\ s.op = "Call" /\ s.place = l
    BY DEF Call
  <2> HIDE DEF s
  <2>2. UsedBy(s) \subseteq {l, r, x}
    BY <1>2, <1>4, <1>6, <2>1
  <2> QED BY <2>2 DEF s
<1> QED BY <1>1, <1>7, <1>8, <1>9, <1>10, <1>11, <1>12

\* The aggregate of a struct literal touches its destination and the fields.
LEMMA UsedByAggregate ==
  ASSUME NEW d, NEW ts, NEW l \in UsedBy(Aggregate(d, [i \in 1 .. Len(ts) |-> Move(ts[i])]))
  PROVE  l = d \/ \E i \in 1 .. Len(ts) : l = ts[i]
<1> DEFINE os == [i \in 1 .. Len(ts) |-> Move(ts[i])]
           s  == Aggregate(d, os)
<1>1. s.op = "Aggregate" /\ s.place = d /\ s.operands = os
  BY DEF Aggregate
<1>2. DOMAIN os = 1 .. Len(ts) /\ \A i \in 1 .. Len(ts) : os[i].arg = ts[i]
  BY DEF Move
<1> HIDE DEF os, s
<1>3. UsedBy(s) = {d} \cup ReadBy(s)
  BY <1>1 DEF UsedBy, Storage
<1>4. \A r \in ReadBy(s) : \E i \in 1 .. Len(ts) : r = ts[i]
  BY <1>1, <1>2 DEF ReadBy
<1>5. l \in UsedBy(s)
  BY DEF s, os
<1> QED BY <1>3, <1>4, <1>5

\* An instruction of the text is a statement or a terminator over the locals.
LEMMA SiteTyped ==
  ASSUME TypeOK, NEW p \in Sites
  PROVE  At(p) \in StatementOf(Len(locals)) \cup TerminatorOf(Len(locals))
<1>n. PICK n \in Nat : n = Len(locals)
  BY TextTypedHolds DEF TextTyped
<1>1. PICK b, i : p = <<b, i>> /\ IsSite(blocks, current, b, i)
                  /\ At(p) = Instruction(blocks, current, b, i)
  BY SitesViewHolds DEF SitesView
<1>2. CASE b = Len(blocks) + 1
  <2>1. i \in 1 .. Len(current)
    BY <1>1, <1>2, TextTypedHolds DEF IsSite, TextTyped
  <2>2. current[i] \in StatementOf(n)
    BY <1>n, <2>1, TextTypedHolds DEF TextTyped
  <2> QED BY <1>1, <1>2, <1>n, <2>2 DEF Instruction
<1>3. CASE b # Len(blocks) + 1
  <2>1. b \in 1 .. Len(blocks)
    BY <1>1, <1>3 DEF IsSite
  <2>2. blocks[b] \in BlockOf(n)
    BY <1>n, <2>1, TextTypedHolds DEF TextTyped
  <2>3. blocks[b].statements \in Seq(StatementOf(n)) /\ blocks[b].terminator \in TerminatorOf(n)
    BY <2>2 DEF BlockOf
  <2>4. i \in 1 .. Len(blocks[b].statements) => blocks[b].statements[i] \in StatementOf(n)
    BY <2>3
  <2> QED BY <1>1, <1>3, <1>n, <2>3, <2>4 DEF Instruction
<1> QED BY <1>2, <1>3, <1>n

\* What an instruction uses has been allocated.
LEMMA UsedIsLocal == TypeOK => \A p \in Sites : UsedBy(At(p)) \subseteq Locals \cup {0}
<1> SUFFICES ASSUME TypeOK, NEW p \in Sites PROVE UsedBy(At(p)) \subseteq Locals \cup {0}
  OBVIOUS
<1>n. PICK n \in Nat : n = Len(locals)
  BY TextTypedHolds DEF TextTyped
<1>1. \A s : s \in StatementOf(n) \cup TerminatorOf(n) => UsedBy(s) \subseteq 0 .. n - 1 \cup {0}
  <2> SUFFICES ASSUME NEW s \in StatementOf(n) \cup TerminatorOf(n)
               PROVE  UsedBy(s) \subseteq 0 .. n - 1 \cup {0}
    OBVIOUS
  <2>1. s.place \in 0 .. n - 1 /\ s.operands \in Seq(OperandOf(n))
    BY DEF StatementOf, TerminatorOf
  <2>2. \A j \in DOMAIN s.operands : s.operands[j] \in OperandOf(n)
    BY <2>1
  <2>3. ReadBy(s) \subseteq 0 .. n - 1
    BY <2>2 DEF ReadBy, OperandOf
  <2> QED BY <2>1, <2>3 DEF UsedBy
<1>2. At(p) \in StatementOf(n) \cup TerminatorOf(n)
  BY <1>n, SiteTyped
<1> QED BY <1>n, <1>1, <1>2 DEF Locals

\* A local that is not allocated yet has no StorageDead.
LEMMA FreshNotDead == TypeOK => \A l \in Nat : l >= Len(locals) => DeadSites(l) = {}
<1> SUFFICES ASSUME TypeOK, NEW l \in Nat, l >= Len(locals) PROVE DeadSites(l) = {}
  OBVIOUS
<1>n. PICK n \in Nat : n = Len(locals)
  BY TextTypedHolds DEF TextTyped
<1>1. /\ DOMAIN blocks = 1 .. Len(blocks) /\ Len(blocks) \in Nat
      /\ blocks \in Seq(BlockOf(n)) /\ current \in Seq(StatementOf(n))
  BY <1>n, TextTypedHolds DEF TextTyped
<1>2. \A b \in 1 .. InProgress : Text(b) \in Seq(StatementOf(n))
  <2>1. \A b \in DOMAIN blocks : blocks[b] \in BlockOf(n)
    BY <1>1
  <2>2. \A b \in DOMAIN blocks : blocks[b].statements \in Seq(StatementOf(n))
    BY <2>1 DEF BlockOf
  <2> QED BY <1>1, <2>2 DEF Text
<1>3. \A s \in StatementOf(n) : s # StorageDead(l)
  <2>1. l \notin 0 .. n - 1
    BY <1>n
  <2> QED BY <2>1 DEF StatementOf, StorageDead
<1>4. \A b \in 1 .. InProgress : \A i \in 1 .. Len(Text(b)) : Text(b)[i] # StorageDead(l)
  BY <1>2, <1>3, ElementType
<1>5. \A p \in StatementSites : \E b \in 1 .. InProgress : \E i \in 1 .. Len(Text(b)) :
        p = <<b, i>> /\ At(p) = Text(b)[i]
  BY DEF StatementSites, At
<1>6. \A p \in StatementSites : At(p) # StorageDead(l)
  BY <1>4, <1>5
<1> QED BY <1>6 DEF DeadSites

-----------------------------------------------------------------------------
(* The temporaries of the active calls.                                      *)

\* The temporaries a pending call will declare dead, and where it writes.
Owned(f) == CASE f.f = "fields" -> {f.tmps[i] : i \in 1 .. Len(f.tmps)}
              [] f.f = "push"   -> {f.ref, f.arg}
              [] f.f = "dead"   -> {f.tmp}
              [] f.f = "eval"   -> {}
Dest(f) == IF f.f = "dead" THEN {} ELSE {f.dest}
Mentioned(f) == Owned(f) \cup Dest(f)

OwnedBy(fs)     == UNION {Owned(fs[i]) : i \in 1 .. Len(fs)}
MentionedBy(fs) == UNION {Mentioned(fs[i]) : i \in 1 .. Len(fs)}

\* Locals are allocated in the order of the calls: the temporaries of a call
\* come after all that the calls around it mention.
Within(f) ==
  /\ \A l \in Owned(f), d \in Dest(f) : d < l
  /\ f.f = "fields" => \A i, j \in 1 .. Len(f.tmps) : i < j => f.tmps[i] < f.tmps[j]
  /\ f.f = "push" => f.ref < f.arg
Ordered(fs) ==
  /\ \A i \in 1 .. Len(fs) : Within(fs[i])
  /\ \A i, j \in 1 .. Len(fs) : i < j =>
       \A l \in Owned(fs[j]), m \in Mentioned(fs[i]) : m < l

LEMMA FrameParts ==
  /\ \A e, d : /\ Owned(EvalFrame(e, d)) = {} /\ Dest(EvalFrame(e, d)) = {d}
               /\ Within(EvalFrame(e, d))
  /\ \A i, ts, e, d : /\ Owned(FieldsFrame(i, ts, e, d)) = {ts[j] : j \in 1 .. Len(ts)}
                      /\ Dest(FieldsFrame(i, ts, e, d)) = {d}
  /\ \A r, a, d : Owned(PushFrame(r, a, d)) = {r, a} /\ Dest(PushFrame(r, a, d)) = {d}
  /\ \A t : Owned(DeadFrame(t)) = {t} /\ Dest(DeadFrame(t)) = {} /\ Within(DeadFrame(t))
BY DEF Owned, Dest, Within, EvalFrame, FieldsFrame, PushFrame, DeadFrame

LEMMA EmptyStack ==
  Ordered(<< >>) /\ OwnedBy(<< >>) = {} /\ MentionedBy(<< >>) = {}
BY DEF Ordered, OwnedBy, MentionedBy

\* A call is entered.
LEMMA PushStack ==
  ASSUME NEW F, NEW ps \in Seq(F), NEW f, Ordered(ps), Within(f),
         \A l \in Owned(f), m \in MentionedBy(ps) : m < l
  PROVE  /\ Ordered(Append(ps, f))
         /\ OwnedBy(Append(ps, f)) = OwnedBy(ps) \cup Owned(f)
         /\ MentionedBy(Append(ps, f)) = MentionedBy(ps) \cup Owned(f) \cup Dest(f)
<1>k. PICK k \in Nat : k = Len(ps)
  OBVIOUS
<1>q. PICK q : q = Append(ps, f)
  OBVIOUS
<1>1. Len(q) = k + 1 /\ q[k + 1] = f /\ \A i \in 1 .. k : q[i] = ps[i]
  BY <1>k, <1>q, AppendOne
<1>2. \A i : i \in 1 .. k + 1 <=> i \in 1 .. k \/ i = k + 1
  BY <1>k
<1>3. OwnedBy(q) = OwnedBy(ps) \cup Owned(f)
  BY <1>k, <1>1, <1>2 DEF OwnedBy
<1>4. MentionedBy(q) = MentionedBy(ps) \cup Owned(f) \cup Dest(f)
  <2>1. \A m : m \in MentionedBy(q) <=> \E i \in 1 .. k + 1 : m \in Mentioned(q[i])
    BY <1>1 DEF MentionedBy
  <2>2. \A m : m \in MentionedBy(ps) <=> \E i \in 1 .. k : m \in Mentioned(ps[i])
    BY <1>k DEF MentionedBy
  <2>3. \A m : m \in MentionedBy(q) <=> m \in MentionedBy(ps) \/ m \in Mentioned(f)
    BY <1>1, <1>2, <2>1, <2>2
  <2> QED BY <2>3 DEF Mentioned
<1>5. Ordered(q)
  <2>1. \A i \in 1 .. k + 1 : Within(q[i])
    BY <1>k, <1>1, <1>2 DEF Ordered
  <2>2. ASSUME NEW i \in 1 .. k + 1, NEW j \in 1 .. k + 1, i < j,
               NEW l \in Owned(q[j]), NEW m \in Mentioned(q[i])
        PROVE  m < l
    <3>1. i \in 1 .. k
      BY <1>k, <2>2
    <3>2. CASE j \in 1 .. k
      BY <1>k, <1>1, <2>2, <3>1, <3>2 DEF Ordered
    <3>3. CASE j = k + 1
      <4>1. m \in MentionedBy(ps)
        BY <1>k, <1>1, <2>2, <3>1 DEF MentionedBy
      <4> QED BY <1>1, <2>2, <3>3, <4>1
    <3> QED BY <1>2, <3>2, <3>3
  <2> QED BY <1>1, <2>1, <2>2 DEF Ordered
<1> QED BY <1>q, <1>3, <1>4, <1>5

Innermost(fs) == fs[Len(fs)]
Outer(fs) == SubSeq(fs, 1, Len(fs) - 1)

\* A call is left.
LEMMA PopStack ==
  ASSUME NEW F, NEW fs \in Seq(F), fs # << >>, Ordered(fs)
  PROVE  /\ Outer(fs) \in Seq(F) /\ Ordered(Outer(fs)) /\ Within(Innermost(fs))
         /\ OwnedBy(fs) = OwnedBy(Outer(fs)) \cup Owned(Innermost(fs))
         /\ MentionedBy(fs) = MentionedBy(Outer(fs)) \cup Owned(Innermost(fs)) \cup Dest(Innermost(fs))
         /\ \A l \in Owned(Innermost(fs)), m \in MentionedBy(Outer(fs)) : m < l
<1>ps. PICK ps, top : ps = Outer(fs) /\ top = Innermost(fs)
  OBVIOUS
<1>k. PICK k \in Nat : Len(fs) = k + 1
  <2>1. Len(fs) \in Nat \ {0}
    OBVIOUS
  <2>2. Len(fs) - 1 \in Nat /\ Len(fs) = Len(fs) - 1 + 1
    BY <2>1
  <2> QED BY <2>2
<1>1. ps \in Seq(F) /\ Len(ps) = k /\ \A i \in 1 .. k : ps[i] = fs[i]
  BY <1>k, <1>ps DEF Outer
<1>t. top = fs[k + 1]
  BY <1>k, <1>ps DEF Innermost
<1>2. \A i : i \in 1 .. k + 1 <=> i \in 1 .. k \/ i = k + 1
  BY <1>k
<1>3. OwnedBy(fs) = OwnedBy(ps) \cup Owned(top)
  BY <1>k, <1>t, <1>1, <1>2 DEF OwnedBy
<1>4. MentionedBy(fs) = MentionedBy(ps) \cup Owned(top) \cup Dest(top)
  <2>1. \A m : m \in MentionedBy(fs) <=> \E i \in 1 .. k + 1 : m \in Mentioned(fs[i])
    BY <1>k DEF MentionedBy
  <2>2. \A m : m \in MentionedBy(ps) <=> \E i \in 1 .. k : m \in Mentioned(ps[i])
    BY <1>1 DEF MentionedBy
  <2>3. \A m : m \in MentionedBy(fs) <=> m \in MentionedBy(ps) \/ m \in Mentioned(top)
    BY <1>k, <1>t, <1>1, <1>2, <2>1, <2>2
  <2> QED BY <2>3 DEF Mentioned
<1>5. Ordered(ps) /\ Within(top)
  BY <1>k, <1>t, <1>1, <1>2 DEF Ordered
<1>6. ASSUME NEW l \in Owned(top), NEW m \in MentionedBy(ps) PROVE m < l
  <2>1. PICK i \in 1 .. k : m \in Mentioned(ps[i])
    BY <1>1 DEF MentionedBy
  <2>2. i < k + 1 /\ i \in 1 .. k + 1 /\ k + 1 \in 1 .. k + 1 /\ ps[i] = fs[i]
    BY <1>k, <1>1, <2>1
  <2> QED BY <1>k, <1>t, <1>6, <2>1, <2>2 DEF Ordered
<1> QED BY <1>ps, <1>1, <1>3, <1>4, <1>5, <1>6

\* What the pending calls mention is allocated.
LEMMA MentionedIsLocal ==
  ASSUME NEW n \in Nat, NEW fs \in Seq(FrameOf(n))
  PROVE  MentionedBy(fs) \subseteq 0 .. n - 1 /\ OwnedBy(fs) \subseteq MentionedBy(fs)
<1>1. \A f \in FrameOf(n) : Mentioned(f) \subseteq 0 .. n - 1
  <2> SUFFICES ASSUME NEW f \in FrameOf(n) PROVE Mentioned(f) \subseteq 0 .. n - 1
    OBVIOUS
  <2>1. CASE f.f = "fields"
    <3>1. f.tmps \in Seq(0 .. n - 1) /\ f.dest \in 0 .. n - 1
      BY <2>1 DEF FrameOf
    <3>2. \A i \in 1 .. Len(f.tmps) : f.tmps[i] \in 0 .. n - 1
      BY <3>1
    <3> QED BY <2>1, <3>1, <3>2 DEF Mentioned, Owned, Dest
  <2>2. CASE f.f = "push"
    BY <2>2 DEF FrameOf, Mentioned, Owned, Dest
  <2>3. CASE f.f = "dead"
    BY <2>3 DEF FrameOf, Mentioned, Owned, Dest
  <2>4. CASE f.f = "eval"
    BY <2>4 DEF FrameOf, Mentioned, Owned, Dest
  <2> QED BY <2>1, <2>2, <2>3, <2>4 DEF FrameOf
<1>2. \A i \in 1 .. Len(fs) : fs[i] \in FrameOf(n)
  OBVIOUS
<1>3. \A m \in MentionedBy(fs) : \E i \in 1 .. Len(fs) : m \in Mentioned(fs[i])
  BY DEF MentionedBy
<1>4. OwnedBy(fs) \subseteq MentionedBy(fs)
  BY DEF OwnedBy, MentionedBy, Mentioned
<1> QED BY <1>1, <1>2, <1>3, <1>4

-----------------------------------------------------------------------------
(* The invariant: what may still be used has not been declared dead.         *)

InUse == MentionedBy(frames) \cup {localMap[x] : x \in Names} \cup {0}

StorageInv ==
  /\ UsedWhileStored
  /\ Ordered(frames)
  /\ \A l \in OwnedBy(frames) : l > ArgPairs /\ \A x \in Names : localMap[x] < l
  /\ \A l \in InUse : DeadSites(l) = {}
  /\ \A l : \A p, q \in DeadSites(l) : p = q

\* A step declares the locals of S dead, each in one place, and no others.
Kills(S) == \A l : IF l \in S THEN \E q : DeadSites(l)' = {q}
                              ELSE DeadSites(l)' = DeadSites(l)

\* Each new use is of a local that is stored and not dead.
UsesStored ==
  \A q \in Sites' : \/ q \in Sites
                    \/ \A l \in UsedBy(At(q)') \cap Allocated' :
                         /\ DeadSites(l) = {}
                         /\ l \in Allocated \/ \E r \in LiveSites(l)' : Precedes(r, q)

\* A local that a step both uses and declares dead is used first.
UsesBeforeDead ==
  \A q, r \in Sites' : \/ q \in Sites \/ r \in Sites
                       \/ \A l \in UsedBy(At(q)') : At(r)' = StorageDead(l) => Precedes(q, r)

\* The locals that no pending call will declare dead, and that are not dead.
Kept == {l \in Allocated : DeadSites(l) = {}} \ OwnedBy(frames)

LEMMA KeptNext ==
  \A l : l \in Kept' <=> l \in Allocated' /\ DeadSites(l)' = {} /\ l \notin OwnedBy(frames')
<1>1. OwnedBy(frames)' = OwnedBy(frames')
  BY DEF OwnedBy, Owned
<1> QED BY <1>1 DEF Kept

\* A step that declares dead, or hands on, what the pending calls own.
LEMMA KeptStep ==
  ASSUME TypeOK, NEW S, Kills(S), Allocated \subseteq Allocated',
         \A l \in Allocated' : l \in Allocated \/ l \in OwnedBy(frames'),
         \A l \in OwnedBy(frames) : l \in S \/ l \in OwnedBy(frames'),
         \A l \in OwnedBy(frames') \cup S : l \in OwnedBy(frames) \/ l \notin Allocated
  PROVE  Kept' = Kept
<1>1. \A l \in S : DeadSites(l)' # {}
  BY DEF Kills
<1>2. \A l : l \notin S => DeadSites(l)' = DeadSites(l)
  BY DEF Kills
<1>3. \A l : l \in Kept' <=> l \in Kept
  BY <1>1, <1>2, KeptNext DEF Kept
<1> QED BY <1>3 DEF Kept

\* A step that writes no StorageDead.
LEMMA KillsNone ==
  ASSUME TypeOK, TypeOK', Extends,
         \A q \in Sites' : q \in Sites \/ \A l : At(q)' # StorageDead(l)
  PROVE  Kills({}) /\ UsesBeforeDead
<1>1. SitesView /\ SitesView'
  BY SitesViewHolds, SitesViewNext
<1>2. \A l, p : p \in DeadSites(l) <=> p \in Sites /\ At(p) = StorageDead(l)
  BY <1>1 DEF SitesView
<1>3. \A l, p : p \in DeadSites(l)' <=> p \in Sites' /\ At(p)' = StorageDead(l)
  BY <1>1 DEF SitesView, StorageDead
<1>4. \A l, p : p \in DeadSites(l)' <=> p \in DeadSites(l)
  BY <1>2, <1>3 DEF Extends
<1>5. ASSUME NEW l PROVE DeadSites(l)' = DeadSites(l)
  <2>1. \A p : p \in DeadSites(l)' <=> p \in DeadSites(l)
    BY <1>4
  <2> QED BY <2>1 DEF DeadSites
<1> QED BY <1>5 DEF Kills, UsesBeforeDead

\* A step that declares the locals of S dead.
LEMMA KillsSome ==
  ASSUME TypeOK, TypeOK', Extends, NEW S,
         \A l \in S : /\ DeadSites(l) = {}
                      /\ \E r \in Sites' : \A q \in Sites' :
                           q \in Sites \/ (At(q)' = StorageDead(l) <=> q = r),
         \A l \in S : \E r \in Sites' : At(r)' = StorageDead(l),
         \A q \in Sites' : q \in Sites \/ \A l : At(q)' = StorageDead(l) => l \in S
  PROVE  Kills(S)
<1>1. SitesView /\ SitesView'
  BY SitesViewHolds, SitesViewNext
<1>2. \A l, p : p \in DeadSites(l) <=> p \in Sites /\ At(p) = StorageDead(l)
  BY <1>1 DEF SitesView
<1>3. \A l, p : p \in DeadSites(l)' <=> p \in Sites' /\ At(p)' = StorageDead(l)
  BY <1>1 DEF SitesView, StorageDead
<1>4. ASSUME NEW l, l \notin S PROVE DeadSites(l)' = DeadSites(l)
  <2>1. \A p : p \in DeadSites(l)' <=> p \in DeadSites(l)
    BY <1>2, <1>3, <1>4 DEF Extends
  <2> QED BY <2>1 DEF DeadSites
<1>5. ASSUME NEW l \in S PROVE \E q : DeadSites(l)' = {q}
  <2>1. PICK r \in Sites' : \A q \in Sites' : q \in Sites \/ (At(q)' = StorageDead(l) <=> q = r)
    OBVIOUS
  <2>2. \A q \in Sites : At(q)' # StorageDead(l)
    BY <1>2 DEF Extends
  <2>3. \A q \in DeadSites(l)' : q = r
    BY <1>3, <2>1, <2>2
  <2>4. \E q : q \in DeadSites(l)'
    BY <1>3
  <2>5. \A q : q \in DeadSites(l)' <=> q = r
    BY <2>3, <2>4
  <2>6. DeadSites(l)' = {r}
    BY <2>5 DEF DeadSites
  <2> QED BY <2>6
<1> QED BY <1>4, <1>5 DEF Kills

\* The invariant is kept by any step that uses only what is stored, and kills
\* only what is no longer in use.
LEMMA KeepsStorage ==
  ASSUME TypeOK, TypeOK', StorageLiveOnce, StorageInv, fn' = fn,
         Len(locals) <= Len(locals'), Extends, UsesStored, UsesBeforeDead,
         NEW S, Kills(S), Ordered(frames'),
         \A l \in OwnedBy(frames') : l > ArgPairs /\ \A x \in Names : localMap'[x] < l,
         \A l \in InUse' : l \notin S /\ DeadSites(l) = {},
         \A l \in S : DeadSites(l) = {}
  PROVE  StorageInv'
<1>1. SitesView /\ SitesView'
  BY SitesViewHolds, SitesViewNext
<1>2. /\ \A l, p : p \in DeadSites(l) <=> p \in Sites /\ At(p) = StorageDead(l)
      /\ \A l, p : p \in LiveSites(l) <=> p \in Sites /\ At(p) = StorageLive(l)
      /\ \A l, p : p \in UseSites(l) <=> p \in Sites /\ l \in UsedBy(At(p))
  BY <1>1 DEF SitesView
<1>3. /\ \A l, p : p \in DeadSites(l)' <=> p \in Sites' /\ At(p)' = StorageDead(l)
      /\ \A l, p : p \in LiveSites(l)' <=> p \in Sites' /\ At(p)' = StorageLive(l)
      /\ \A l, p : p \in UseSites(l)' <=> p \in Sites' /\ l \in UsedBy(At(p)')
  <2>1. \A l, p : p \in UseSites(l)' <=> p \in Sites' /\ l \in UsedBy(At(p))'
    BY <1>1 DEF SitesView
  <2>2. \A p : UsedBy(At(p))' = UsedBy(At(p)')
    BY DEF UsedBy, ReadBy, Return, Storage
  <2>3. /\ \A l, p : p \in DeadSites(l)' <=> p \in Sites' /\ At(p)' = StorageDead(l)
        /\ \A l, p : p \in LiveSites(l)' <=> p \in Sites' /\ At(p)' = StorageLive(l)
    BY <1>1 DEF SitesView, StorageDead, StorageLive
  <2> QED BY <2>1, <2>2, <2>3
<1>4. ArgPairs' = ArgPairs /\ ArgPairs \in Nat
  BY FunctionsAssumption DEF ArgPairs, TypeOK
<1>5. \A l \in Allocated : LiveSites(l) # {}
  BY DEF StorageLiveOnce, Allocated
<1>6. \A p \in Sites : UsedBy(At(p)) \subseteq Locals \cup {0}
  BY UsedIsLocal
<1>7. \A l \in Allocated' : l \in Locals => l \in Allocated
  BY <1>4 DEF Allocated
<1>8. \A l \in Allocated' : l # 0
  BY <1>4 DEF Allocated, Locals
<1>9. ASSUME NEW l \in Allocated', NEW p \in UseSites(l)'
      PROVE  /\ \E q \in LiveSites(l)' : Precedes(q, p)
             /\ \A q \in DeadSites(l)' : Precedes(p, q)
  <2>1. CASE p \in Sites
    <3>1. p \in UseSites(l)
      BY <1>2, <1>3, <1>9, <2>1 DEF Extends
    <3>2. l \in Allocated
      BY <1>2, <1>6, <1>7, <1>8, <3>1
    <3>3. /\ \E q \in LiveSites(l) : Precedes(q, p)
          /\ \A q \in DeadSites(l) : Precedes(p, q)
      BY <3>1, <3>2 DEF StorageInv, UsedWhileStored
    <3>4. \A q \in LiveSites(l) : q \in LiveSites(l)'
      BY <1>2, <1>3 DEF Extends
    <3>5. \A q \in DeadSites(l)' : q \in DeadSites(l) \/ Precedes(p, q)
      BY <1>2, <1>3, <2>1 DEF Extends
    <3> QED BY <3>3, <3>4, <3>5
  <2>2. CASE p \notin Sites
    <3>1. l \in UsedBy(At(p)') /\ p \in Sites'
      BY <1>3, <1>9
    <3>2. /\ DeadSites(l) = {}
          /\ l \in Allocated \/ \E r \in LiveSites(l)' : Precedes(r, p)
      BY <2>2, <3>1 DEF UsesStored
    <3>3. l \in Allocated => \E r \in LiveSites(l)' : Precedes(r, p)
      <4> SUFFICES ASSUME l \in Allocated PROVE \E r \in LiveSites(l)' : Precedes(r, p)
        OBVIOUS
      <4>1. PICK r : r \in LiveSites(l)
        BY <1>5
      <4>2. r \in LiveSites(l)' /\ r \in Sites
        BY <1>2, <1>3, <4>1 DEF Extends
      <4> QED BY <2>2, <3>1, <4>2 DEF Extends
    <3>4. ASSUME NEW q \in DeadSites(l)' PROVE Precedes(p, q)
      <4>1. q \in Sites' /\ At(q)' = StorageDead(l)
        BY <1>3, <3>4
      <4>2. q \notin Sites
        BY <1>2, <3>2, <4>1 DEF Extends
      <4> QED BY <2>2, <3>1, <4>1, <4>2 DEF UsesBeforeDead
    <3> QED BY <3>2, <3>3, <3>4
  <2> QED BY <2>1, <2>2
<1>10. UsedWhileStored'
  BY <1>9 DEF UsedWhileStored
<1>11. \A l \in InUse' : DeadSites(l)' = {}
  BY DEF Kills
<1>12. ASSUME NEW l, NEW p \in DeadSites(l)', NEW q \in DeadSites(l)' PROVE p = q
  BY <1>12 DEF Kills, StorageInv
<1>13. \A l \in OwnedBy(frames') : l > ArgPairs' /\ \A x \in Names : localMap'[x] < l
  BY <1>4
<1>14. OwnedBy(frames)' = OwnedBy(frames') /\ Ordered(frames)'
  BY DEF OwnedBy, Owned, Ordered, Within, Mentioned, Dest
<1> QED BY <1>10, <1>11, <1>12, <1>13, <1>14 DEF StorageInv

-----------------------------------------------------------------------------
(* The text after each kind of step.                                         *)

LEMMA TextSame ==
  ASSUME TypeOK, TypeOK', blocks' = blocks, current' = current
  PROVE  Extends /\ \A q \in Sites' : q \in Sites
<1>c. PICK c \in Nat : c = Len(current)
  BY TextTypedHolds DEF TextTyped
<1>1. Len(current) <= Len(current') /\ \A j \in Len(current) + 1 .. Len(current') : FALSE
  BY <1>c
<1>2. \A i \in 1 .. Len(current) : current'[i] = current[i]
  OBVIOUS
<1>3. Extends /\ AddsStatements
  BY <1>1, <1>2, ExtendStep
<1> QED BY <1>1, <1>3 DEF AddsStatements

LEMMA TextOne ==
  ASSUME TypeOK, TypeOK', blocks' = blocks, NEW STATE s, current' = Append(current, s)
  PROVE  /\ Extends
         /\ \E r \in Sites' : /\ At(r)' = s
                              /\ \A q \in Sites' : q \in Sites \/ q = r
<1>c. PICK c \in Nat : c = Len(current)
  BY TextTypedHolds DEF TextTyped
<1>1. /\ Len(current') = c + 1 /\ current'[c + 1] = s
      /\ \A i \in 1 .. c : current'[i] = current[i]
  BY <1>c, AppendOne, TextTypedHolds DEF TextTyped
<1>2. /\ Len(current) <= Len(current') /\ \A j \in Len(current) + 1 .. Len(current') : j = c + 1
      /\ c + 1 \in Len(current) + 1 .. Len(current')
  BY <1>c, <1>1
<1>3. /\ Extends /\ AddsStatements
      /\ \E r \in Sites' : r = <<InProgress, c + 1>> /\ At(r)' = current'[c + 1]
  BY <1>1, <1>2, <1>c, ExtendStep
<1> QED BY <1>1, <1>2, <1>3 DEF AddsStatements

LEMMA TextClosed ==
  ASSUME TypeOK, TypeOK', NEW STATE t, Finalize(t, << >>)
  PROVE  Extends /\ \A q \in Sites' : q \in Sites \/ At(q)' = t
<1>1. current' = << >> /\ Finalize(t, current')
  BY DEF Finalize
<1>2. Extends /\ AddsBlock(t)
  BY <1>1, CloseStep
<1>3. \A j \in 1 .. Len(current') : FALSE
  BY <1>1
<1> QED BY <1>2, <1>3 DEF AddsBlock

\* Numbers that the invariant speaks of.
LEMMA Numbers ==
  ASSUME TypeOK
  PROVE  /\ ArgPairs \in Nat /\ Len(locals) \in Nat
         /\ MentionedBy(frames) \subseteq 0 .. Len(locals) - 1
         /\ OwnedBy(frames) \subseteq MentionedBy(frames)
         /\ \A x \in Names : localMap[x] \in Int /\ localMap[x] < Len(locals)
         /\ frames \in Seq(FrameOf(Len(locals)))
<1>1. ArgPairs \in Nat
  BY FunctionsAssumption DEF ArgPairs, TypeOK
<1>2. Len(locals) \in Nat /\ frames \in Seq(FrameOf(Len(locals)))
  BY DEF TypeOK
<1>3. localMap \in [Names -> {-1} \cup 0 .. Len(locals) - 1]
  BY DEF TypeOK, Locals, Unbound
<1> QED BY <1>1, <1>2, <1>3, MentionedIsLocal

\* Steps that use only locals in use.
LEMMA UsesInUse ==
  ASSUME TypeOK, StorageInv, locals' = locals, fn' = fn,
         \A q \in Sites' : q \in Sites \/ UsedBy(At(q)') \subseteq InUse
  PROVE  UsesStored
<1>1. Allocated' = Allocated
  BY DEF Allocated, Locals, ArgPairs
<1> QED BY <1>1 DEF UsesStored, StorageInv

\* What is left in use when the innermost call ends.
LEMMA PopKeeps ==
  ASSUME TypeOK, StorageInv, frames # << >>, frames' = Popped, localMap' = localMap
  PROVE  /\ Ordered(frames')
         /\ \A l \in OwnedBy(frames') : l > ArgPairs /\ \A x \in Names : localMap'[x] < l
         /\ \A l \in InUse' : l \notin Owned(Top) /\ DeadSites(l) = {}
         /\ \A l \in Owned(Top) : DeadSites(l) = {}
         /\ Mentioned(Top) \subseteq InUse /\ Within(Top)
         /\ OwnedBy(frames) = OwnedBy(frames') \cup Owned(Top)
<1>1. /\ Ordered(Popped) /\ Within(Top)
      /\ OwnedBy(frames) = OwnedBy(Popped) \cup Owned(Top)
      /\ MentionedBy(frames) = MentionedBy(Popped) \cup Owned(Top) \cup Dest(Top)
      /\ \A l \in Owned(Top), m \in MentionedBy(Popped) : m < l
  <2>1. frames \in Seq(FrameOf(Len(locals))) /\ Ordered(frames)
    BY DEF TypeOK, StorageInv
  <2>2. Top = Innermost(frames) /\ Popped = Outer(frames)
    BY DEF Top, Popped, Innermost, Outer
  <2> QED BY <2>1, <2>2, PopStack
<1>2. InUse' = MentionedBy(Popped) \cup {localMap[x] : x \in Names} \cup {0}
  BY DEF InUse, MentionedBy, Mentioned, Owned, Dest
<1>3. \A l \in Owned(Top) : l \in Int /\ l > ArgPairs /\ l # 0 /\ \A x \in Names : localMap[x] # l
  BY <1>1, Numbers DEF StorageInv
<1>4. \A l \in InUse' : l \notin Owned(Top)
  <2>1. ASSUME NEW l \in MentionedBy(Popped), l \in Owned(Top) PROVE FALSE
    BY <1>1, <1>3, <2>1
  <2> QED BY <1>2, <1>3, <2>1
<1>5. \A l \in InUse' : l \in InUse
  BY <1>1, <1>2 DEF InUse
<1>6. Mentioned(Top) \subseteq InUse
  BY <1>1 DEF InUse, Mentioned
<1> QED BY <1>1, <1>4, <1>5, <1>6 DEF StorageInv, Mentioned

\* Steps that write nothing.
LEMMA QuietStorage ==
  ASSUME TypeOK, TypeOK', StorageLiveOnce, StorageInv, fn' = fn,
         Len(locals) <= Len(locals'), blocks' = blocks, current' = current,
         Ordered(frames'), OwnedBy(frames') \subseteq OwnedBy(frames),
         localMap' = localMap \/ OwnedBy(frames') = {},
         \A l \in InUse' : l \in InUse \/ l = Len(locals)
  PROVE  /\ StorageInv'
         /\ locals' = locals /\ OwnedBy(frames') = OwnedBy(frames) => Kept' = Kept
<1>1. Extends /\ \A q \in Sites' : q \in Sites
  BY TextSame
<1>2. Kills({}) /\ UsesBeforeDead
  BY <1>1, KillsNone
<1>3. UsesStored
  BY <1>1 DEF UsesStored
<1>4. \A l \in InUse' : DeadSites(l) = {}
  BY FreshNotDead, Numbers DEF StorageInv
<1>5. \A l \in OwnedBy(frames') : l > ArgPairs /\ \A x \in Names : localMap'[x] < l
  BY DEF StorageInv
<1>6. locals' = locals /\ OwnedBy(frames') = OwnedBy(frames) => Kept' = Kept
  <2>1. locals' = locals => Allocated' = Allocated
    BY DEF Allocated, Locals, ArgPairs
  <2> QED BY <1>2, <2>1, KeptStep
<1>7. StorageInv'
  BY <1>1, <1>2, <1>3, <1>4, <1>5, KeepsStorage
<1> QED BY <1>6, <1>7

\* One statement or call that uses what the innermost call mentions or a
\* variable names, after which that call ends.
LEMMA UseStorage ==
  ASSUME TypeOK, TypeOK', StorageLiveOnce, StorageInv, fn' = fn, locals' = locals,
         localMap' = localMap, Active("eval"), frames' = Popped, Extends,
         \A q \in Sites' : \/ q \in Sites
                           \/ /\ UsedBy(At(q)') \subseteq InUse
                              /\ At(q)'.op # "StorageDead"
  PROVE  StorageInv' /\ Kept' = Kept
<1>1. Owned(Top) = {} /\ frames # << >>
  BY DEF Active, Owned
<1>2. \A l : StorageDead(l).op = "StorageDead"
  BY DEF StorageDead
<1>3. Kills({}) /\ UsesBeforeDead
  BY <1>2, KillsNone
<1>4. UsesStored
  BY UsesInUse
<1>5. /\ Ordered(frames')
      /\ \A l \in OwnedBy(frames') : l > ArgPairs /\ \A x \in Names : localMap'[x] < l
      /\ \A l \in InUse' : DeadSites(l) = {}
  BY <1>1, PopKeeps
<1>6. Len(locals) <= Len(locals')
  BY Numbers
<1>7. Kept' = Kept
  <2>1. OwnedBy(frames') = OwnedBy(frames)
    BY <1>1, PopKeeps
  <2>2. Allocated' = Allocated
    BY DEF Allocated, Locals, ArgPairs
  <2> QED BY <1>3, <2>1, <2>2, KeptStep
<1>8. StorageInv'
  BY <1>3, <1>4, <1>5, <1>6, KeepsStorage
<1> QED BY <1>7, <1>8

-----------------------------------------------------------------------------
(* The invariant under each action.                                          *)

\* The innermost call, when it lowers an expression.
LEMMA EvalTop ==
  ASSUME TypeOK, StorageInv, Active("eval")
  PROVE  /\ Top.expr \in Exprs /\ Top.dest \in InUse /\ frames # << >>
         /\ \A e \in Exprs : e.k = "Var" => localMap[e.name] \in InUse
<1>1. Top \in FrameOf(Len(locals)) /\ frames # << >>
  BY TopType, Numbers DEF Active
<1>2. Top.expr \in Exprs
  BY <1>1 DEF Active, FrameOf
<1>3. Top.dest \in Mentioned(Top)
  BY <1>1 DEF Active, Mentioned, Dest
<1>4. Mentioned(Top) \subseteq InUse
  <2>1. Top = Innermost(frames) /\ Popped = Outer(frames)
    BY DEF Top, Popped, Innermost, Outer
  <2>2. MentionedBy(frames) = MentionedBy(Popped) \cup Owned(Top) \cup Dest(Top)
    BY <1>1, <2>1, Numbers, PopStack DEF StorageInv
  <2> QED BY <2>2 DEF InUse, Mentioned
<1>5. \A e \in Exprs : e.k = "Var" => e.name \in Names
  BY ExprsAssumption DEF IsExprUniverse
<1> QED BY <1>1, <1>2, <1>3, <1>4, <1>5 DEF InUse

LEMMA LowerIntLitStorage ==
  ASSUME TypeOK, TypeOK', StorageLiveOnce, StorageInv, LowerIntLit
  PROVE  StorageInv' /\ Kept' = Kept
<1> DEFINE s == Use(Top.dest, Const(AsI32(Top.expr.n)))
<1>1. /\ Active("eval") /\ frames' = Popped /\ locals' = locals /\ localMap' = localMap
      /\ fn' = fn /\ blocks' = blocks /\ current' = Append(current, s)
  BY DEF LowerIntLit
<1>2. UsedBy(s) \subseteq InUse /\ s.op # "StorageDead"
  <2>1. s.op = "Use"
    BY DEF Use
  <2> QED BY <1>1, <2>1, EvalTop, UsedByWritten
<1> HIDE DEF s
<1>3. Extends /\ \A q \in Sites' : q \in Sites \/ At(q)' = s
  BY <1>1, TextOne
<1> QED BY <1>1, <1>2, <1>3, UseStorage

LEMMA LowerVarStorage ==
  ASSUME TypeOK, TypeOK', StorageLiveOnce, StorageInv, LowerVar
  PROVE  StorageInv' /\ Kept' = Kept
<1> DEFINE s == Use(Top.dest, Move(localMap[Top.expr.name]))
<1>1. /\ Active("eval") /\ frames' = Popped /\ locals' = locals /\ localMap' = localMap
      /\ fn' = fn /\ blocks' = blocks /\ current' = Append(current, s)
      /\ Top.expr.k = "Var"
  BY DEF LowerVar
<1>2. UsedBy(s) \subseteq InUse /\ s.op # "StorageDead"
  <2>1. s.op = "Use"
    BY DEF Use
  <2> QED BY <1>1, <2>1, EvalTop, UsedByWritten
<1> HIDE DEF s
<1>3. Extends /\ \A q \in Sites' : q \in Sites \/ At(q)' = s
  BY <1>1, TextOne
<1> QED BY <1>1, <1>2, <1>3, UseStorage

LEMMA LowerVecNewStorage ==
  ASSUME TypeOK, TypeOK', StorageLiveOnce, StorageInv, LowerVecNew
  PROVE  StorageInv' /\ Kept' = Kept
<1> DEFINE t == Call("new", << >>, Top.dest, NextBlock)
<1>1. /\ Active("eval") /\ frames' = Popped /\ locals' = locals /\ localMap' = localMap
      /\ fn' = fn /\ Finalize(t, << >>)
  BY DEF LowerVecNew
<1>2. UsedBy(t) \subseteq InUse /\ t.op # "StorageDead"
  <2>1. t.op = "Call"
    BY DEF Call
  <2> QED BY <1>1, <2>1, EvalTop, UsedByWritten
<1> HIDE DEF t
<1>3. Extends /\ \A q \in Sites' : q \in Sites \/ At(q)' = t
  BY <1>1, TextClosed
<1> QED BY <1>1, <1>2, <1>3, UseStorage

LEMMA LowerLenStorage ==
  ASSUME TypeOK, TypeOK', StorageLiveOnce, StorageInv, LowerLen
  PROVE  StorageInv' /\ Kept' = Kept
<1> DEFINE t == Call("len", <<Copy(localMap[Top.expr.receiver.name])>>, Top.dest, NextBlock)
<1>1. /\ Active("eval") /\ frames' = Popped /\ locals' = locals /\ localMap' = localMap
      /\ fn' = fn /\ Finalize(t, << >>) /\ IsLen(Top.expr) /\ ReceiverFound(Top.expr)
  BY DEF LowerLen
<1>2. UsedBy(t) \subseteq InUse /\ t.op # "StorageDead"
  <2>1. t.op = "Call"
    BY DEF Call
  <2>2. Top.expr.receiver \in Exprs /\ Top.expr.receiver.k = "Var"
    BY <1>1, EvalTop, ExprsAssumption DEF IsExprUniverse, IsLen, ReceiverFound
  <2> QED BY <1>1, <2>1, <2>2, EvalTop, UsedByWritten
<1> HIDE DEF t
<1>3. Extends /\ \A q \in Sites' : q \in Sites \/ At(q)' = t
  BY <1>1, TextClosed
<1> QED BY <1>1, <1>2, <1>3, UseStorage

LEMMA EmitReturnStorage ==
  ASSUME TypeOK, TypeOK', StorageLiveOnce, StorageInv, EmitReturn
  PROVE  StorageInv' /\ Kept' = Kept
<1>1. /\ frames' = frames /\ locals' = locals /\ localMap' = localMap
      /\ fn' = fn /\ Finalize(Return, << >>)
  BY DEF EmitReturn
<1>2. Extends /\ \A q \in Sites' : q \in Sites \/ At(q)' = Return
  BY <1>1, TextClosed
<1>3. Kills({}) /\ UsesBeforeDead
  <2>1. \A l : Return # StorageDead(l)
    BY DEF Return, StorageDead
  <2> QED BY <1>2, <2>1, KillsNone
<1>4. UsesStored
  BY <1>1, <1>2, UsesInUse, UsedByWritten DEF InUse
<1>5. InUse' = InUse /\ Ordered(frames') /\ Len(locals) <= Len(locals')
  <2>1. InUse' = InUse
    BY <1>1 DEF InUse, MentionedBy, Mentioned, Owned, Dest
  <2> QED BY <1>1, <2>1, Numbers DEF StorageInv
<1>6. \A l \in OwnedBy(frames') : l > ArgPairs /\ \A x \in Names : localMap'[x] < l
  BY <1>1 DEF StorageInv
<1>7. \A l \in InUse' : DeadSites(l) = {}
  BY <1>5 DEF StorageInv
<1>8. Kept' = Kept
  <2>1. Allocated' = Allocated
    BY <1>1 DEF Allocated, Locals, ArgPairs
  <2> QED BY <1>1, <1>3, <2>1, KeptStep
<1>9. StorageInv'
  BY <1>1, <1>2, <1>3, <1>4, <1>5, <1>6, <1>7, KeepsStorage
<1> QED BY <1>8, <1>9

\* The actions that write nothing.
LEMMA QuietActions ==
  ASSUME TypeOK, TypeOK', Prologue, StorageLiveOnce, StorageInv,
         \/ Resolve \/ BindParam \/ StartBody \/ BeginStruct \/ LowerRet \/ Panic
         \/ UNCHANGED vars
  PROVE  StorageInv' /\ (BeginStruct \/ LowerRet \/ UNCHANGED vars => Kept' = Kept)
<1>0. InUse' = MentionedBy(frames') \cup {localMap'[x] : x \in Names} \cup {0}
  BY DEF InUse, MentionedBy, Mentioned, Owned, Dest
<1>1. ASSUME Resolve \/ StartBody \/ Panic \/ UNCHANGED vars
      PROVE  StorageInv' /\ (UNCHANGED vars => Kept' = Kept)
  <2>1. /\ fn' = fn /\ blocks' = blocks /\ current' = current /\ frames' = frames
        /\ localMap' = localMap
        /\ locals' = locals \/ locals' = Append(locals, fn.output)
    BY <1>1 DEF Resolve, StartBody, Panic, vars
  <2>2. Len(locals) <= Len(locals')
    <3>1. locals \in Seq(Types) /\ Len(locals) \in Nat
      BY DEF TypeOK
    <3>2. Len(Append(locals, fn.output)) = Len(locals) + 1
      BY <3>1, AppendOne
    <3> QED BY <2>1, <3>1, <3>2
  <2>4. UNCHANGED vars => locals' = locals
    BY DEF vars
  <2>3. Ordered(frames') /\ \A l \in InUse' : l \in InUse
    BY <1>0, <2>1 DEF StorageInv, InUse
  <2> QED BY <2>1, <2>2, <2>3, <2>4, QuietStorage
<1>2. ASSUME BindParam PROVE StorageInv'
  <2>1. /\ fn' = fn /\ blocks' = blocks /\ current' = current /\ frames' = << >>
        /\ locals' = Append(locals, fn.inputs[next])
        /\ localMap' = [localMap EXCEPT ![fn.params[next]] = Len(locals)]
    BY <1>2 DEF BindParam, Prologue, Fresh
  <2>2. Len(locals) <= Len(locals')
    <3>1. locals \in Seq(Types) /\ Len(locals) \in Nat
      BY DEF TypeOK
    <3>2. Len(Append(locals, fn.inputs[next])) = Len(locals) + 1
      BY <3>1, AppendOne
    <3> QED BY <2>1, <3>1, <3>2
  <2>3. Ordered(frames') /\ OwnedBy(frames') = {} /\ MentionedBy(frames') = {}
    BY <2>1, EmptyStack
  <2>4. \A x \in Names : localMap'[x] = localMap[x] \/ localMap'[x] = Len(locals)
    BY <2>1 DEF TypeOK
  <2>5. \A l \in InUse' : l \in InUse \/ l = Len(locals)
    BY <1>0, <2>3, <2>4 DEF InUse
  <2> QED BY <2>1, <2>2, <2>3, <2>5, QuietStorage
<1>3. ASSUME BeginStruct PROVE StorageInv' /\ Kept' = Kept
  <2>1. /\ fn' = fn /\ blocks' = blocks /\ current' = current /\ locals' = locals
        /\ localMap' = localMap /\ frames # << >> /\ Top.f = "eval"
        /\ frames' = Append(Popped, FieldsFrame(0, << >>, Top.expr, Top.dest))
    BY <1>3 DEF BeginStruct, Active
  <2>2. /\ Popped \in Seq(FrameOf(Len(locals))) /\ Ordered(Popped)
        /\ OwnedBy(frames) = OwnedBy(Popped) \cup Owned(Top)
        /\ MentionedBy(frames) = MentionedBy(Popped) \cup Owned(Top) \cup Dest(Top)
    <3>1. Top = Innermost(frames) /\ Popped = Outer(frames)
      BY DEF Top, Popped, Innermost, Outer
    <3> QED BY <2>1, <3>1, Numbers, PopStack DEF StorageInv
  <2>3. PICK f : f = FieldsFrame(0, << >>, Top.expr, Top.dest)
    OBVIOUS
  <2>4. Owned(f) = {} /\ Dest(f) = {Top.dest} /\ Within(f) /\ Dest(Top) = {Top.dest}
    <3>1. Owned(f) = {} /\ Dest(f) = {Top.dest}
      BY <2>3 DEF FieldsFrame, Owned, Dest
    <3>2. f.f = "fields" /\ f.tmps = << >>
      BY <2>3 DEF FieldsFrame
    <3> QED BY <2>1, <3>1, <3>2 DEF Dest, Within
  <2>5. /\ Ordered(frames') /\ OwnedBy(frames') = OwnedBy(Popped) \cup Owned(f)
        /\ MentionedBy(frames') = MentionedBy(Popped) \cup Owned(f) \cup Dest(f)
    BY <2>1, <2>2, <2>3, <2>4, PushStack
  <2>6. OwnedBy(frames') = OwnedBy(frames) /\ \A l \in InUse' : l \in InUse
    <3>1. Owned(Top) = {}
      BY <2>1 DEF Owned
    <3> QED BY <1>0, <2>1, <2>2, <2>4, <2>5, <3>1 DEF InUse
  <2> QED BY <2>1, <2>5, <2>6, Numbers, QuietStorage
<1>4. ASSUME LowerRet PROVE StorageInv' /\ Kept' = Kept
  <2>1. /\ fn' = fn /\ blocks' = blocks /\ current' = current /\ locals' = locals
        /\ localMap' = localMap /\ frames = << >>
        /\ frames' = << >> \/ frames' = Append(<< >>, EvalFrame(fn.ret[1], 0))
    BY <1>4 DEF LowerRet, Idle
  <2>2. PICK f : f = EvalFrame(fn.ret[1], 0)
    OBVIOUS
  <2>3. Owned(f) = {} /\ Dest(f) = {0} /\ Within(f)
    BY <2>2, FrameParts
  <2>4. /\ Ordered(Append(<< >>, f)) /\ OwnedBy(Append(<< >>, f)) = {}
        /\ MentionedBy(Append(<< >>, f)) = {0}
    <3>1. PICK none : none = << >>
      OBVIOUS
    <3>2. none \in Seq({}) /\ Ordered(none) /\ OwnedBy(none) = {} /\ MentionedBy(none) = {}
      BY <3>1, EmptyStack
    <3>3. /\ Ordered(Append(none, f)) /\ OwnedBy(Append(none, f)) = OwnedBy(none) \cup Owned(f)
          /\ MentionedBy(Append(none, f)) = MentionedBy(none) \cup Owned(f) \cup Dest(f)
      BY <2>3, <3>2, PushStack
    <3> QED BY <2>3, <3>1, <3>2, <3>3
  <2>5. Ordered(frames') /\ OwnedBy(frames') = {} /\ MentionedBy(frames') \subseteq {0}
    BY <2>1, <2>2, <2>4, EmptyStack
  <2>6. OwnedBy(frames) = {} /\ \A l \in InUse' : l \in InUse
    BY <1>0, <2>1, <2>5, EmptyStack DEF InUse
  <2> QED BY <2>1, <2>5, <2>6, Numbers, QuietStorage
<1>5. BeginStruct \/ LowerRet \/ UNCHANGED vars => Kept' = Kept
  BY <1>1, <1>3, <1>4
<1> QED BY <1>1, <1>2, <1>3, <1>4, <1>5

\* A call of the lowerer that ends and declares its temporaries dead.
LEMMA KillStorage ==
  ASSUME TypeOK, TypeOK', StorageLiveOnce, StorageInv, fn' = fn, locals' = locals,
         localMap' = localMap, frames # << >>, frames' = Popped, Extends, UsesBeforeDead,
         \A q \in Sites' : q \in Sites \/ UsedBy(At(q)') \subseteq InUse,
         Kills(Owned(Top))
  PROVE  StorageInv' /\ Kept' = Kept
<1>1. UsesStored
  BY UsesInUse
<1>2. /\ Ordered(frames')
      /\ \A l \in OwnedBy(frames') : l > ArgPairs /\ \A x \in Names : localMap'[x] < l
      /\ \A l \in InUse' : l \notin Owned(Top) /\ DeadSites(l) = {}
      /\ \A l \in Owned(Top) : DeadSites(l) = {}
  BY PopKeeps
<1>3. Len(locals) <= Len(locals')
  BY Numbers
<1>4. Kept' = Kept
  <2>1. OwnedBy(frames) = OwnedBy(frames') \cup Owned(Top)
    BY PopKeeps
  <2>2. Allocated' = Allocated
    BY DEF Allocated, Locals, ArgPairs
  <2> QED BY <2>1, <2>2, KeptStep
<1>5. StorageInv'
  BY <1>1, <1>2, <1>3, KeepsStorage
<1> QED BY <1>4, <1>5

\* The end of a finished call: what it owns is in use and not dead.
LEMMA TopInUse ==
  ASSUME TypeOK, StorageInv, frames # << >>
  PROVE  /\ Mentioned(Top) \subseteq InUse /\ Within(Top)
         /\ \A l \in Owned(Top) : DeadSites(l) = {}
         /\ Top \in FrameOf(Len(locals))
<1>1. Top = Innermost(frames) /\ Popped = Outer(frames)
  BY DEF Top, Popped, Innermost, Outer
<1>2. /\ MentionedBy(frames) = MentionedBy(Popped) \cup Owned(Top) \cup Dest(Top)
      /\ Within(Top)
  BY <1>1, Numbers, PopStack DEF StorageInv
<1>3. Mentioned(Top) \subseteq InUse
  BY <1>2 DEF InUse, Mentioned
<1>4. Top \in FrameOf(Len(locals))
  BY TopType, Numbers
<1> QED BY <1>2, <1>3, <1>4 DEF StorageInv, Mentioned

LEMMA EndExprStmtStorage ==
  ASSUME TypeOK, TypeOK', StorageLiveOnce, StorageInv, EndExprStmt
  PROVE  StorageInv' /\ Kept' = Kept
<1>1. /\ frames # << >> /\ Top.f = "dead" /\ frames' = Popped /\ locals' = locals
      /\ localMap' = localMap /\ fn' = fn /\ blocks' = blocks
      /\ current' = Append(current, StorageDead(Top.tmp))
  BY DEF EndExprStmt, Active
<1>2. PICK t : t = Top.tmp
  OBVIOUS
<1>3. Owned(Top) = {t}
  BY <1>1, <1>2 DEF Owned
<1>4. /\ Extends
      /\ \E r \in Sites' : At(r)' = StorageDead(Top.tmp) /\ \A q \in Sites' : q \in Sites \/ q = r
  BY <1>1, TextOne
<1>5. PICK r \in Sites' : At(r)' = StorageDead(t) /\ \A q \in Sites' : q \in Sites \/ q = r
  BY <1>2, <1>4
<1>6. \A l : StorageDead(t) = StorageDead(l) => l = t
  BY DEF StorageDead
<1>7. DeadSites(t) = {}
  BY <1>1, <1>3, TopInUse
<1>8. Kills({t})
  <2>1. \A l \in {t} : /\ DeadSites(l) = {}
                       /\ \E p \in Sites' : \A q \in Sites' :
                            q \in Sites \/ (At(q)' = StorageDead(l) <=> q = p)
    BY <1>5, <1>7
  <2>2. \A l \in {t} : \E p \in Sites' : At(p)' = StorageDead(l)
    BY <1>5
  <2>3. \A q \in Sites' : q \in Sites \/ \A l : At(q)' = StorageDead(l) => l \in {t}
    BY <1>5, <1>6
  <2> QED BY <1>4, <2>1, <2>2, <2>3, KillsSome
<1>9. \A q \in Sites' : q \in Sites \/ UsedBy(At(q)') = {}
  BY <1>5, UsedByWritten
<1>10. UsesBeforeDead
  BY <1>9 DEF UsesBeforeDead
<1> QED BY <1>1, <1>3, <1>4, <1>8, <1>9, <1>10, KillStorage

LEMMA Tabulated == \A n \in Nat : \A S : \A u \in [1 .. n -> S] : u \in Seq(S) /\ Len(u) = n
OBVIOUS

LEMMA Shifted ==
  \A c, m \in Nat : \A i \in 1 .. m :
    \E j \in c + 1 + 1 .. c + 1 + m : j = c + 1 + i /\ j - (c + 1) = i
<1> SUFFICES ASSUME NEW c \in Nat, NEW m \in Nat, NEW i \in 1 .. m
             PROVE  \E j \in c + 1 + 1 .. c + 1 + m : j = c + 1 + i /\ j - (c + 1) = i
  OBVIOUS
<1>1. c + 1 + i \in c + 1 + 1 .. c + 1 + m /\ c + 1 + i - (c + 1) = i
  OBVIOUS
<1> QED BY <1>1

\* The text of a finished struct literal.
LEMMA StructText ==
  ASSUME TypeOK, FinishStruct, NEW c \in Nat, c = Len(current), NEW m \in Nat, m = Len(Top.tmps)
  PROVE  /\ Len(current') = c + 1 + m
         /\ \A i \in 1 .. c : current'[i] = current[i]
         /\ current'[c + 1] = Aggregate(Top.dest, [i \in 1 .. m |-> Move(Top.tmps[i])])
         /\ \A i \in 1 .. m : current'[c + 1 + i] = StorageDead(Top.tmps[i])
<1> DEFINE agg == Aggregate(Top.dest, [i \in 1 .. m |-> Move(Top.tmps[i])])
           ds == [i \in 1 .. m |-> StorageDead(Top.tmps[i])]
           S == StatementOf(Len(locals)) \cup {agg} \cup {ds[i] : i \in 1 .. m}
           c1 == Append(current, agg)
<1>1. current' = current \o <<agg>> \o ds
  BY DEF FinishStruct
<1>2. /\ ds \in Seq(S) /\ Len(ds) = m
      /\ \A i \in 1 .. m : ds[i] = StorageDead(Top.tmps[i])
  <2>1. ds \in [1 .. m -> S] /\ DOMAIN ds = 1 .. m
        /\ \A i \in 1 .. m : ds[i] = StorageDead(Top.tmps[i])
    OBVIOUS
  <2> HIDE DEF ds, S
  <2> QED BY <2>1, Tabulated
<1>3. agg \in S /\ current \in Seq(S)
  <2>1. current \in Seq(StatementOf(Len(locals)))
    BY TextTypedHolds DEF TextTyped
  <2>2. StatementOf(Len(locals)) \subseteq S /\ agg \in S
    OBVIOUS
  <2> HIDE DEF S, agg
  <2>3. current \in Seq(S)
    BY <2>1, <2>2
  <2> QED BY <2>2, <2>3
<1> HIDE DEF ds, S, agg
<1>4. /\ c1 \in Seq(S) /\ Len(c1) = c + 1
      /\ \A i \in 1 .. c : c1[i] = current[i]
      /\ c1[c + 1] = agg
  BY <1>3, AppendType, AppendOne
<1>5. current' = c1 \o ds
  BY <1>1, <1>3
<1> HIDE DEF c1
<1>6. /\ Len(current') = Len(c1) + Len(ds)
      /\ \A i \in 1 .. Len(c1) : current'[i] = c1[i]
      /\ \A i \in Len(c1) + 1 .. Len(c1) + Len(ds) : current'[i] = ds[i - Len(c1)]
  <2>1. c1 \in Seq(S) /\ ds \in Seq(S)
    BY <1>2, <1>4
  <2> QED BY <1>5, <2>1, ConcatParts
<1>7. \A i \in 1 .. m : current'[c + 1 + i] = ds[i]
  <2> SUFFICES ASSUME NEW i \in 1 .. m PROVE current'[c + 1 + i] = ds[i]
    OBVIOUS
  <2>1. PICK j \in c + 1 + 1 .. c + 1 + m : j = c + 1 + i /\ j - (c + 1) = i
    BY Shifted
  <2>2. \A k \in c + 1 + 1 .. c + 1 + m : current'[k] = ds[k - (c + 1)]
    BY <1>2, <1>4, <1>6
  <2>3. current'[j] = ds[j - (c + 1)]
    BY <2>2
  <2> QED BY <2>1, <2>3
<1>8. \A i \in 1 .. c : i \in 1 .. c + 1
  OBVIOUS
<1>9. c + 1 \in 1 .. c + 1
  OBVIOUS
<1> QED BY <1>2, <1>4, <1>6, <1>7, <1>8, <1>9 DEF agg

\* The sites that finish a struct literal: the aggregate, then its temporaries' ends.
LEMMA StructSites ==
  ASSUME TypeOK, TypeOK', FinishStruct, Len(Top.tmps) \in Nat
  PROVE  /\ Extends
         /\ \E b, c \in Nat :
              /\ \A q \in Sites' :
                   \/ q \in Sites
                   \/ /\ q = <<b, c + 1>>
                      /\ At(q)' = Aggregate(Top.dest, [i \in 1 .. Len(Top.tmps) |-> Move(Top.tmps[i])])
                   \/ \E i \in 1 .. Len(Top.tmps) :
                        q = <<b, c + 1 + i>> /\ At(q)' = StorageDead(Top.tmps[i])
              /\ \A i \in 1 .. Len(Top.tmps) :
                   \E q \in Sites' : q = <<b, c + 1 + i>> /\ At(q)' = StorageDead(Top.tmps[i])
<1>2. PICK ts, d : ts = Top.tmps /\ d = Top.dest
  OBVIOUS
<1>m. PICK m \in Nat : m = Len(ts)
  BY <1>2
<1>1. blocks' = blocks
  BY DEF FinishStruct
<1>3. PICK b \in Nat : b = InProgress
  BY TextTypedHolds DEF InProgress, TextTyped
<1>c. PICK c \in Nat : c = Len(current)
  BY TextTypedHolds DEF TextTyped
<1>4. /\ Len(current') = c + 1 + m
      /\ \A i \in 1 .. c : current'[i] = current[i]
      /\ current'[c + 1] = Aggregate(d, [i \in 1 .. Len(ts) |-> Move(ts[i])])
      /\ \A i \in 1 .. m : current'[c + 1 + i] = StorageDead(ts[i])
  <2>1. m = Len(Top.tmps)
    BY <1>2, <1>m
  <2>2. /\ Len(current') = c + 1 + m
        /\ \A i \in 1 .. c : current'[i] = current[i]
        /\ current'[c + 1] = Aggregate(Top.dest, [i \in 1 .. m |-> Move(Top.tmps[i])])
        /\ \A i \in 1 .. m : current'[c + 1 + i] = StorageDead(Top.tmps[i])
    BY <2>1, <1>c, StructText
  <2>3. [i \in 1 .. m |-> Move(Top.tmps[i])] = [i \in 1 .. Len(ts) |-> Move(ts[i])]
    BY <1>2, <1>m
  <2> QED BY <1>2, <2>2, <2>3
<1>6. /\ Extends
      /\ \A q \in Sites' : \/ q \in Sites
                           \/ \E j \in c + 1 .. c + 1 + m : q = <<b, j>> /\ At(q)' = current'[j]
      /\ \A j \in c + 1 .. c + 1 + m : \E q \in Sites' : q = <<b, j>> /\ At(q)' = current'[j]
  <2>1. Len(current) <= Len(current')
    BY <1>c, <1>4
  <2>2. Extends /\ AddsStatements
        /\ \A j \in Len(current) + 1 .. Len(current') :
             \E q \in Sites' : q = <<InProgress, j>> /\ At(q)' = current'[j]
    BY <1>1, <1>c, <1>4, <2>1, ExtendStep
  <2> QED BY <1>3, <1>c, <1>4, <2>2 DEF AddsStatements
<1>7. \A q \in Sites' :
        \/ q \in Sites
        \/ /\ q = <<b, c + 1>>
           /\ At(q)' = Aggregate(d, [i \in 1 .. Len(ts) |-> Move(ts[i])])
        \/ \E i \in 1 .. m : q = <<b, c + 1 + i>> /\ At(q)' = StorageDead(ts[i])
  <2>1. ASSUME NEW j \in c + 1 .. c + 1 + m
        PROVE  j = c + 1 \/ \E i \in 1 .. m : j = c + 1 + i
    <3>1. CASE j # c + 1
      <4>1. j - (c + 1) \in 1 .. m /\ j = c + 1 + (j - (c + 1))
        BY <3>1
      <4> QED BY <4>1
    <3> QED BY <3>1
  <2> SUFFICES ASSUME NEW q \in Sites', q \notin Sites
               PROVE  \/ /\ q = <<b, c + 1>>
                         /\ At(q)' = Aggregate(d, [i \in 1 .. Len(ts) |-> Move(ts[i])])
                      \/ \E i \in 1 .. m : q = <<b, c + 1 + i>> /\ At(q)' = StorageDead(ts[i])
    OBVIOUS
  <2>2. PICK j \in c + 1 .. c + 1 + m : q = <<b, j>> /\ At(q)' = current'[j]
    BY <1>6
  <2>3. CASE j = c + 1
    BY <1>4, <2>2, <2>3
  <2>4. CASE \E i \in 1 .. m : j = c + 1 + i
    <3>1. PICK i \in 1 .. m : j = c + 1 + i
      BY <2>4
    <3>2. At(q)' = StorageDead(ts[i])
      BY <1>4, <2>2, <3>1
    <3> QED BY <2>2, <3>1, <3>2
  <2> QED BY <2>1, <2>3, <2>4
<1>8. \A i \in 1 .. m : \E q \in Sites' : q = <<b, c + 1 + i>> /\ At(q)' = StorageDead(ts[i])
  <2>1. \A i \in 1 .. m : c + 1 + i \in c + 1 .. c + 1 + m
    OBVIOUS
  <2> QED BY <1>4, <1>6, <2>1
<1>9. m = Len(Top.tmps) /\ ts = Top.tmps /\ d = Top.dest
  BY <1>2, <1>m
<1>10. \A q \in Sites' :
         \/ q \in Sites
         \/ /\ q = <<b, c + 1>>
            /\ At(q)' = Aggregate(Top.dest, [i \in 1 .. Len(Top.tmps) |-> Move(Top.tmps[i])])
         \/ \E i \in 1 .. Len(Top.tmps) :
              q = <<b, c + 1 + i>> /\ At(q)' = StorageDead(Top.tmps[i])
  BY <1>7, <1>9
<1>11. \A i \in 1 .. Len(Top.tmps) :
         \E q \in Sites' : q = <<b, c + 1 + i>> /\ At(q)' = StorageDead(Top.tmps[i])
  BY <1>8, <1>9
<1> QED BY <1>6, <1>10, <1>11

LEMMA FinishStructStorage ==
  ASSUME TypeOK, TypeOK', StorageLiveOnce, StorageInv, FinishStruct
  PROVE  StorageInv' /\ Kept' = Kept
<1>1. /\ frames # << >> /\ Top.f = "fields" /\ frames' = Popped /\ locals' = locals
      /\ localMap' = localMap /\ fn' = fn /\ blocks' = blocks
  BY DEF FinishStruct, Active
<1>2. PICK ts, d : ts = Top.tmps /\ d = Top.dest
  OBVIOUS
<1>m. PICK m \in Nat : m = Len(ts)
  <2>1. ts \in Seq(0 .. Len(locals) - 1)
    BY <1>1, <1>2, TopInUse DEF FrameOf
  <2> QED BY <2>1
<1>5. /\ Owned(Top) = {ts[i] : i \in 1 .. m} /\ Dest(Top) = {d}
      /\ \A i, j \in 1 .. m : ts[i] = ts[j] => i = j
      /\ \A l \in Owned(Top) : DeadSites(l) = {}
      /\ Owned(Top) \subseteq InUse /\ d \in InUse
  <2>1. Owned(Top) = {ts[i] : i \in 1 .. m} /\ Dest(Top) = {d}
    BY <1>1, <1>2, <1>m DEF Owned, Dest
  <2>2. Within(Top) /\ Mentioned(Top) \subseteq InUse
        /\ \A l \in Owned(Top) : DeadSites(l) = {}
    BY <1>1, TopInUse
  <2>3. \A i, j \in 1 .. m : i < j => ts[i] < ts[j]
    BY <1>1, <1>2, <1>m, <2>2 DEF Within
  <2>4. \A i \in 1 .. m : ts[i] \in Int
    <3>1. ts \in Seq(0 .. Len(locals) - 1)
      BY <1>1, <1>2, TopInUse DEF FrameOf
    <3>2. \A i \in 1 .. m : ts[i] \in 0 .. Len(locals) - 1
      BY <1>m, <3>1
    <3> QED BY <3>2, Numbers
  <2>5. \A i, j \in 1 .. m : ts[i] = ts[j] => i = j
    BY <2>3, <2>4
  <2> QED BY <2>1, <2>2, <2>5 DEF Mentioned
<1>6. Len(Top.tmps) \in Nat
  BY <1>2, <1>m
<1>e. Extends
  BY <1>6, StructSites
<1>8. PICK b \in Nat, c \in Nat :
        /\ \A q \in Sites' :
             \/ q \in Sites
             \/ /\ q = <<b, c + 1>>
                /\ At(q)' = Aggregate(Top.dest, [i \in 1 .. Len(Top.tmps) |-> Move(Top.tmps[i])])
             \/ \E i \in 1 .. Len(Top.tmps) :
                  q = <<b, c + 1 + i>> /\ At(q)' = StorageDead(Top.tmps[i])
        /\ \A i \in 1 .. Len(Top.tmps) :
             \E q \in Sites' : q = <<b, c + 1 + i>> /\ At(q)' = StorageDead(Top.tmps[i])
  BY <1>6, StructSites
<1>7. /\ \A q \in Sites' :
           \/ q \in Sites
           \/ /\ q = <<b, c + 1>>
              /\ At(q)' = Aggregate(d, [i \in 1 .. Len(ts) |-> Move(ts[i])])
           \/ \E i \in 1 .. m :
                q = <<b, c + 1 + i>> /\ At(q)' = StorageDead(ts[i])
      /\ \A i \in 1 .. m :
           \E q \in Sites' : q = <<b, c + 1 + i>> /\ At(q)' = StorageDead(ts[i])
  BY <1>2, <1>m, <1>8
<1>9. /\ \A k, l : StorageDead(k) = StorageDead(l) => k = l
      /\ \A l, os : Aggregate(d, os) # StorageDead(l)
  BY DEF StorageDead, Aggregate
<1>10. Kills(Owned(Top))
  <2>1. ASSUME NEW l \in Owned(Top)
        PROVE  /\ DeadSites(l) = {}
               /\ \E r \in Sites' : \A q \in Sites' :
                    q \in Sites \/ (At(q)' = StorageDead(l) <=> q = r)
               /\ \E r \in Sites' : At(r)' = StorageDead(l)
    <3>1. PICK i \in 1 .. m : l = ts[i]
      BY <1>5
    <3>2. PICK r \in Sites' : r = <<b, c + 1 + i>> /\ At(r)' = StorageDead(l)
      BY <1>7, <3>1
    <3>3. ASSUME NEW q \in Sites', q \notin Sites, At(q)' = StorageDead(l) PROVE q = r
      BY <1>5, <1>7, <1>9, <3>1, <3>2, <3>3
    <3> QED BY <1>5, <3>2, <3>3
  <2>2. \A q \in Sites' : q \in Sites \/ \A l : At(q)' = StorageDead(l) => l \in Owned(Top)
    BY <1>5, <1>7, <1>9
  <2> QED BY <1>e, <2>1, <2>2, KillsSome
<1>11. \A q \in Sites' : \/ q \in Sites
                         \/ q = <<b, c + 1>> /\ UsedBy(At(q)') \subseteq InUse
                         \/ UsedBy(At(q)') = {}
  <2>1. \A l \in UsedBy(Aggregate(d, [i \in 1 .. Len(ts) |-> Move(ts[i])])) : l \in InUse
    BY <1>5, <1>m, UsedByAggregate
  <2> QED BY <1>7, <2>1, UsedByWritten
<1>12. \A q \in Sites' : q \in Sites \/ UsedBy(At(q)') \subseteq InUse
  BY <1>11
<1>13. UsesBeforeDead
  <2>1. \A i \in 1 .. m : Precedes(<<b, c + 1>>, <<b, c + 1 + i>>)
    BY DEF Precedes
  <2> SUFFICES ASSUME NEW q \in Sites', NEW r \in Sites', q \notin Sites, r \notin Sites,
                      NEW l \in UsedBy(At(q)'), At(r)' = StorageDead(l)
               PROVE  Precedes(q, r)
    BY DEF UsesBeforeDead
  <2>2. q = <<b, c + 1>>
    BY <1>11
  <2>3. PICK i \in 1 .. m : r = <<b, c + 1 + i>>
    BY <1>7, <1>9
  <2> QED BY <2>1, <2>2, <2>3
<1> QED BY <1>1, <1>e, <1>10, <1>12, <1>13, KillStorage

\* The sites that finish a push: the call, then the ends of its temporaries.
LEMMA PushSites ==
  ASSUME TypeOK, TypeOK', FinishPush, NEW a, a = Top.arg, NEW r, r = Top.ref,
         NEW d, d = Top.dest, NEW n, n = NextBlock
  PROVE  /\ Extends
         /\ \E b, c \in Nat :
              /\ \A q \in Sites' :
                         \/ q \in Sites
                         \/ q = <<b, c + 1>> /\ At(q)' = Call("push", <<Move(r), Move(a)>>, d, n)
                         \/ q = <<b + 1, 1>> /\ At(q)' = StorageDead(a)
                         \/ q = <<b + 1, 2>> /\ At(q)' = StorageDead(r)
              /\ \E q \in Sites' : q = <<b + 1, 1>> /\ At(q)' = StorageDead(a)
              /\ \E q \in Sites' : q = <<b + 1, 2>> /\ At(q)' = StorageDead(r)
<1> DEFINE t == Call("push", <<Move(Top.ref), Move(Top.arg)>>, Top.dest, NextBlock)
<1>1. Finalize(t, current') /\ current' = <<StorageDead(Top.arg), StorageDead(Top.ref)>>
  BY DEF FinishPush, Finalize
<1>3. PICK b, c \in Nat : b = InProgress /\ c = Len(current)
  BY TextTypedHolds DEF InProgress, TextTyped
<1>5. /\ Extends /\ AddsBlock(t)
      /\ \A j \in 1 .. Len(current') :
           \E q \in Sites' : q = <<InProgress + 1, j>> /\ At(q)' = current'[j]
  BY <1>1, CloseStep
<1>6. Len(current') = 2 /\ current'[1] = StorageDead(a) /\ current'[2] = StorageDead(r)
  BY <1>1
<1>7. \A q \in Sites' :
        \/ q \in Sites
        \/ q = <<b, c + 1>> /\ At(q)' = Call("push", <<Move(r), Move(a)>>, d, n)
        \/ q = <<b + 1, 1>> /\ At(q)' = StorageDead(a)
        \/ q = <<b + 1, 2>> /\ At(q)' = StorageDead(r)
  <2>1. \A j \in 1 .. Len(current') : j = 1 \/ j = 2
    BY <1>6
  <2> QED BY <1>3, <1>5, <1>6, <2>1 DEF AddsBlock
<1>8. /\ \E q \in Sites' : q = <<b + 1, 1>> /\ At(q)' = StorageDead(a)
      /\ \E q \in Sites' : q = <<b + 1, 2>> /\ At(q)' = StorageDead(r)
  BY <1>3, <1>5, <1>6
<1> QED BY <1>3, <1>5, <1>7, <1>8

LEMMA FinishPushStorage ==
  ASSUME TypeOK, TypeOK', StorageLiveOnce, StorageInv, FinishPush
  PROVE  StorageInv' /\ Kept' = Kept
<1>1. /\ frames # << >> /\ Top.f = "push" /\ frames' = Popped /\ locals' = locals
      /\ localMap' = localMap /\ fn' = fn
  BY DEF FinishPush, Active
<1>2. PICK a, r, d, n : a = Top.arg /\ r = Top.ref /\ d = Top.dest /\ n = NextBlock
  OBVIOUS
<1>4. /\ Owned(Top) = {a, r} /\ a # r
      /\ \A l \in Owned(Top) : DeadSites(l) = {}
      /\ {a, r, d} \subseteq InUse
  <2>1. Owned(Top) = {a, r} /\ Dest(Top) = {d}
    BY <1>1, <1>2 DEF Owned, Dest
  <2>2. /\ Within(Top) /\ Mentioned(Top) \subseteq InUse
        /\ \A l \in Owned(Top) : DeadSites(l) = {}
        /\ a \in Int /\ r \in Int
    BY <1>1, <1>2, TopInUse, Numbers DEF FrameOf
  <2>3. r < a
    BY <1>1, <1>2, <2>2 DEF Within
  <2> QED BY <2>1, <2>2, <2>3 DEF Mentioned
<1>5. /\ Extends
      /\ \E b, c \in Nat :
           /\ \A q \in Sites' :
                      \/ q \in Sites
                      \/ q = <<b, c + 1>> /\ At(q)' = Call("push", <<Move(r), Move(a)>>, d, n)
                      \/ q = <<b + 1, 1>> /\ At(q)' = StorageDead(a)
                      \/ q = <<b + 1, 2>> /\ At(q)' = StorageDead(r)
           /\ \E q \in Sites' : q = <<b + 1, 1>> /\ At(q)' = StorageDead(a)
           /\ \E q \in Sites' : q = <<b + 1, 2>> /\ At(q)' = StorageDead(r)
  BY <1>2, PushSites
<1>7. PICK b \in Nat, c \in Nat :
        /\ \A q \in Sites' :
                   \/ q \in Sites
                   \/ q = <<b, c + 1>> /\ At(q)' = Call("push", <<Move(r), Move(a)>>, d, n)
                   \/ q = <<b + 1, 1>> /\ At(q)' = StorageDead(a)
                   \/ q = <<b + 1, 2>> /\ At(q)' = StorageDead(r)
        /\ \E q \in Sites' : q = <<b + 1, 1>> /\ At(q)' = StorageDead(a)
        /\ \E q \in Sites' : q = <<b + 1, 2>> /\ At(q)' = StorageDead(r)
  BY <1>5
<1>9. /\ \A k, l : StorageDead(k) = StorageDead(l) => k = l
      /\ \A l : Call("push", <<Move(r), Move(a)>>, d, n) # StorageDead(l)
  BY DEF StorageDead, Call
<1>10. Kills(Owned(Top))
  <2>1. ASSUME NEW l \in Owned(Top)
        PROVE  /\ DeadSites(l) = {}
               /\ \E p \in Sites' : \A q \in Sites' :
                    q \in Sites \/ (At(q)' = StorageDead(l) <=> q = p)
               /\ \E p \in Sites' : At(p)' = StorageDead(l)
    <3>1. PICK p \in Sites' : /\ At(p)' = StorageDead(l)
                              /\ \/ l = a /\ p = <<b + 1, 1>>
                                 \/ l = r /\ p = <<b + 1, 2>>
      BY <1>4, <1>7
    <3>2. ASSUME NEW q \in Sites', q \notin Sites, At(q)' = StorageDead(l) PROVE q = p
      BY <1>4, <1>7, <1>9, <3>1, <3>2
    <3> QED BY <1>4, <3>1, <3>2
  <2>2. \A q \in Sites' : q \in Sites \/ \A l : At(q)' = StorageDead(l) => l \in Owned(Top)
    BY <1>4, <1>7, <1>9
  <2> QED BY <1>5, <2>1, <2>2, KillsSome
<1>11. \A q \in Sites' : \/ q \in Sites
                         \/ q = <<b, c + 1>> /\ UsedBy(At(q)') \subseteq InUse
                         \/ UsedBy(At(q)') = {}
  <2>1. UsedBy(Call("push", <<Move(r), Move(a)>>, d, n)) \subseteq InUse
    BY <1>4, UsedByWritten
  <2> QED BY <1>7, <2>1, UsedByWritten
<1>12. \A q \in Sites' : q \in Sites \/ UsedBy(At(q)') \subseteq InUse
  BY <1>11
<1>13. UsesBeforeDead
  <2>1. Precedes(<<b, c + 1>>, <<b + 1, 1>>) /\ Precedes(<<b, c + 1>>, <<b + 1, 2>>)
    BY DEF Precedes
  <2> QED BY <1>7, <1>9, <1>11, <2>1 DEF UsesBeforeDead
<1> QED BY <1>1, <1>5, <1>10, <1>12, <1>13, KillStorage

\* A stack of one or of two calls.
LEMMA OneCall ==
  ASSUME NEW f, Within(f)
  PROVE  /\ Ordered(<<f>>) /\ OwnedBy(<<f>>) = Owned(f)
         /\ MentionedBy(<<f>>) = Owned(f) \cup Dest(f)
<1>1. PICK none : none = << >>
  OBVIOUS
<1>2. none \in Seq({}) /\ Ordered(none) /\ OwnedBy(none) = {} /\ MentionedBy(none) = {}
  BY <1>1, EmptyStack
<1>3. /\ Ordered(Append(none, f)) /\ OwnedBy(Append(none, f)) = OwnedBy(none) \cup Owned(f)
      /\ MentionedBy(Append(none, f)) = MentionedBy(none) \cup Owned(f) \cup Dest(f)
  BY <1>2, PushStack
<1>4. Append(none, f) = <<f>>
  BY <1>1
<1> QED BY <1>2, <1>3, <1>4

LEMMA TwoCalls ==
  ASSUME NEW f, NEW g, Within(f), Within(g), Owned(g) = {}
  PROVE  /\ Ordered(<<f, g>>) /\ OwnedBy(<<f, g>>) = Owned(f)
         /\ MentionedBy(<<f, g>>) = Owned(f) \cup Dest(f) \cup Dest(g)
<1>1. PICK one : one = <<f>>
  OBVIOUS
<1>2. /\ one \in Seq({f}) /\ Ordered(one) /\ OwnedBy(one) = Owned(f)
      /\ MentionedBy(one) = Owned(f) \cup Dest(f)
  BY <1>1, OneCall
<1>3. /\ Ordered(Append(one, g)) /\ OwnedBy(Append(one, g)) = OwnedBy(one) \cup Owned(g)
      /\ MentionedBy(Append(one, g)) = MentionedBy(one) \cup Owned(g) \cup Dest(g)
  BY <1>2, PushStack
<1>4. Append(one, g) = <<f, g>>
  <2> DEFINE S == {f, g}
  <2>1. PICK u, v : u = Append(one, g) /\ v = <<f, g>>
    OBVIOUS
  <2>2. one \in Seq(S) /\ g \in S /\ Len(one) = 1 /\ one[1] = f
    BY <1>1
  <2>3. v \in Seq(S) /\ Len(v) = 2 /\ v[1] = f /\ v[2] = g
    BY <2>1
  <2> HIDE DEF S
  <2>4. /\ u \in Seq(S) /\ Len(u) = 1 + 1 /\ u[1 + 1] = g
        /\ \A i \in 1 .. 1 : u[i] = one[i]
    BY <2>1, <2>2, AppendType, AppendOne
  <2>5. u \in [1 .. 2 -> S] /\ v \in [1 .. 2 -> S]
    <3>1. \A w \in Seq(S) : w \in [1 .. Len(w) -> S]
      OBVIOUS
    <3>2. Len(u) = 2
      BY <2>4
    <3> QED BY <2>3, <2>4, <3>1, <3>2
  <2>6. u[1] = v[1] /\ u[2] = v[2]
    BY <2>2, <2>3, <2>4
  <2>7. \A i \in 1 .. 2 : i = 1 \/ i = 2
    OBVIOUS
  <2>8. \A i \in 1 .. 2 : u[i] = v[i]
    BY <2>6, <2>7
  <2>9. u = v
    BY <2>5, <2>8
  <2> QED BY <2>1, <2>9
<1> QED BY <1>2, <1>3, <1>4

\* A step that declares one new local.
LEMMA AllocStorage ==
  ASSUME TypeOK, TypeOK', Prologue, StorageLiveOnce, StorageInv, fn' = fn, phase = "body",
         blocks' = blocks, current' = Append(current, StorageLive(Fresh)),
         NEW STATE t, locals' = Append(locals, t), Ordered(frames'),
         \A l \in OwnedBy(frames') : l \in OwnedBy(frames) \/ l = Fresh,
         localMap' = localMap \/ OwnedBy(frames') = {},
         \A l \in InUse' : l \in InUse \/ l = Fresh
  PROVE  /\ StorageInv'
         /\ Fresh \in OwnedBy(frames') /\ OwnedBy(frames) \subseteq OwnedBy(frames') => Kept' = Kept
         /\ OwnedBy(frames') = {} /\ OwnedBy(frames) = {} =>
              Kept' = Kept \cup {Fresh} /\ Fresh \notin Kept
<1>n. PICK n \in Nat : n = Len(locals) /\ n > ArgPairs /\ Fresh = n
  BY Numbers DEF Prologue, Fresh
<1>1. Extends /\ \A q \in Sites' : q \in Sites \/ At(q)' = StorageLive(Fresh)
  <2>1. /\ Extends
        /\ \E r \in Sites' : /\ At(r)' = StorageLive(Fresh)
                             /\ \A q \in Sites' : q \in Sites \/ q = r
    BY TextOne
  <2> QED BY <2>1
<1>2. Kills({}) /\ UsesBeforeDead
  <2>1. \A l, k : StorageLive(k) # StorageDead(l)
    BY DEF StorageLive, StorageDead
  <2> QED BY <1>1, <2>1, KillsNone
<1>3. UsesStored
  BY <1>1, UsedByWritten DEF UsesStored
<1>4. Len(locals) <= Len(locals')
  <2>1. Len(Append(locals, t)) = Len(locals) + 1
    BY AppendOne DEF TypeOK
  <2> QED BY <1>n, <2>1
<1>5. \A l \in InUse' : DeadSites(l) = {}
  BY <1>n, FreshNotDead DEF StorageInv
<1>6. \A l \in OwnedBy(frames') : l > ArgPairs /\ \A x \in Names : localMap'[x] < l
  BY <1>n, Numbers DEF StorageInv
<1>7. StorageInv'
  BY <1>1, <1>2, <1>3, <1>4, <1>5, <1>6, KeepsStorage
<1>8. \A l : l \in Allocated' <=> l \in Allocated \/ l = n
  <2>1. ArgPairs' = ArgPairs
    BY DEF ArgPairs
  <2>2. Len(locals') = n + 1
    <3>1. Len(Append(locals, t)) = n + 1
      BY <1>n, AppendOne DEF TypeOK
    <3> QED BY <3>1
  <2>3. \A l : l \in 0 .. n + 1 - 1 <=> l \in 0 .. n - 1 \/ l = n
    BY <1>n
  <2> QED BY <1>n, <2>1, <2>2, <2>3 DEF Allocated, Locals
<1>9. n \notin Allocated
  BY <1>n DEF Allocated, Locals
<1>10. ASSUME Fresh \in OwnedBy(frames'), OwnedBy(frames) \subseteq OwnedBy(frames')
       PROVE  Kept' = Kept
  BY <1>n, <1>2, <1>8, <1>9, <1>10, KeptStep
<1>11. ASSUME OwnedBy(frames') = {}, OwnedBy(frames) = {}
       PROVE  Kept' = Kept \cup {Fresh} /\ Fresh \notin Kept
  <2>1. \A l : DeadSites(l)' = DeadSites(l)
    BY <1>2 DEF Kills
  <2>2. DeadSites(n) = {}
    BY <1>n, FreshNotDead
  <2>3. \A l : l \in Kept' <=> l \in Kept \/ l = n
    BY <1>8, <1>11, <2>1, <2>2, KeptNext DEF Kept
  <2>4. n \notin Kept
    BY <1>9 DEF Kept
  <2>5. Kept' = Kept \cup {n}
    BY <2>3 DEF Kept
  <2> QED BY <1>n, <2>4, <2>5
<1> QED BY <1>7, <1>10, <1>11

LEMMA LetStorage ==
  ASSUME TypeOK, TypeOK', Prologue, StorageLiveOnce, StorageInv, LowerLet \/ LowerExprStmt
  PROVE  /\ StorageInv'
         /\ LowerLet => Kept' = Kept \cup {Fresh} /\ Fresh \notin Kept
         /\ LowerExprStmt => Kept' = Kept
<1>0. InUse' = MentionedBy(frames') \cup {localMap'[x] : x \in Names} \cup {0}
  BY DEF InUse, MentionedBy, Mentioned, Owned, Dest
<1>1. PICK e, t, d : /\ e = EvalFrame(fn.stmts[next].expr, Fresh) /\ t = InferTy(fn.stmts[next].expr)
                     /\ d = DeadFrame(Fresh)
  OBVIOUS
<1>2. /\ fn' = fn /\ phase = "body" /\ blocks' = blocks /\ frames = << >>
      /\ current' = Append(current, StorageLive(Fresh)) /\ locals' = Append(locals, t)
  BY <1>1 DEF LowerLet, LowerExprStmt, Idle
<1>3. /\ Owned(e) = {} /\ Dest(e) = {Fresh} /\ Within(e)
      /\ Owned(d) = {Fresh} /\ Dest(d) = {} /\ Within(d)
  BY <1>1, FrameParts
<1>e. OwnedBy(frames) = {}
  BY <1>2, EmptyStack
<1>4. ASSUME LowerLet
      PROVE  StorageInv' /\ Kept' = Kept \cup {Fresh} /\ Fresh \notin Kept
  <2>1. frames' = <<e>> /\ localMap' = [localMap EXCEPT ![fn.stmts[next].name] = Fresh]
    BY <1>1, <1>4 DEF LowerLet
  <2>2. Ordered(frames') /\ OwnedBy(frames') = {} /\ MentionedBy(frames') = {Fresh}
    BY <1>3, <2>1, OneCall
  <2>3. \A x \in Names : localMap'[x] = localMap[x] \/ localMap'[x] = Fresh
    BY <2>1 DEF TypeOK
  <2>4. \A l \in InUse' : l \in InUse \/ l = Fresh
    BY <1>0, <2>2, <2>3 DEF InUse
  <2> QED BY <1>2, <1>e, <2>2, <2>4, AllocStorage
<1>5. ASSUME LowerExprStmt PROVE StorageInv' /\ Kept' = Kept
  <2>1. frames' = <<d, e>> /\ localMap' = localMap
    BY <1>1, <1>5 DEF LowerExprStmt
  <2>2. Ordered(frames') /\ OwnedBy(frames') = {Fresh} /\ MentionedBy(frames') = {Fresh}
    BY <1>3, <2>1, TwoCalls
  <2>3. \A l \in InUse' : l \in InUse \/ l = Fresh
    BY <1>0, <2>1, <2>2 DEF InUse
  <2> QED BY <1>2, <1>e, <2>1, <2>2, <2>3, AllocStorage
<1> QED BY <1>4, <1>5

\* The frame of a struct literal gains a temporary.
LEMMA FieldsGrow ==
  ASSUME NEW n \in Nat, NEW ts \in Seq(0 .. n - 1), NEW i, NEW e, NEW d \in 0 .. n - 1,
         NEW j, Within(FieldsFrame(i, ts, e, d))
  PROVE  /\ Within(FieldsFrame(j, Append(ts, n), e, d))
         /\ Owned(FieldsFrame(j, Append(ts, n), e, d)) = Owned(FieldsFrame(i, ts, e, d)) \cup {n}
         /\ Dest(FieldsFrame(j, Append(ts, n), e, d)) = {d}
<1>m. PICK m \in Nat : m = Len(ts)
  OBVIOUS
<1>u. PICK us : us = Append(ts, n)
  OBVIOUS
<1>1. Len(us) = m + 1 /\ us[m + 1] = n /\ \A k \in 1 .. m : us[k] = ts[k]
  BY <1>m, <1>u, AppendOne
<1>2. \A k : k \in 1 .. m + 1 <=> k \in 1 .. m \/ k = m + 1
  BY <1>m
<1>f. PICK f, g : f = FieldsFrame(i, ts, e, d) /\ g = FieldsFrame(j, us, e, d)
  OBVIOUS
<1>3. /\ f.f = "fields" /\ f.tmps = ts /\ f.dest = d
      /\ g.f = "fields" /\ g.tmps = us /\ g.dest = d
  BY <1>f DEF FieldsFrame
<1>4. /\ Owned(f) = {ts[k] : k \in 1 .. m} /\ Dest(f) = {d}
      /\ Owned(g) = {us[k] : k \in 1 .. m + 1} /\ Dest(g) = {d}
  BY <1>m, <1>1, <1>3 DEF Owned, Dest
<1>5. Owned(g) = Owned(f) \cup {n}
  BY <1>1, <1>2, <1>4
<1>6. \A k \in 1 .. m : ts[k] \in 0 .. n - 1
  BY <1>m
<1>7. \A k, l \in 1 .. m + 1 : k < l => us[k] < us[l]
  <2> SUFFICES ASSUME NEW k \in 1 .. m + 1, NEW l \in 1 .. m + 1, k < l PROVE us[k] < us[l]
    OBVIOUS
  <2>1. k \in 1 .. m
    BY <1>m
  <2>2. CASE l \in 1 .. m
    BY <1>f, <1>m, <1>1, <1>3, <2>1, <2>2 DEF Within
  <2>3. CASE l = m + 1
    BY <1>1, <1>6, <2>1, <2>3
  <2> QED BY <1>2, <2>2, <2>3
<1>8. \A l \in Owned(g) : d < l
  <2>1. \A l \in Owned(f) : d < l
    BY <1>f, <1>4 DEF Within
  <2> QED BY <1>5, <2>1
<1>9. Within(g)
  BY <1>1, <1>3, <1>4, <1>7, <1>8 DEF Within
<1> QED BY <1>f, <1>u, <1>4, <1>5, <1>9

LEMMA LowerFieldStorage ==
  ASSUME TypeOK, TypeOK', Prologue, StorageLiveOnce, StorageInv, LowerField
  PROVE  StorageInv' /\ Kept' = Kept
<1>0. InUse' = MentionedBy(frames') \cup {localMap'[x] : x \in Names} \cup {0}
  BY DEF InUse, MentionedBy, Mentioned, Owned, Dest
<1>n. PICK n \in Nat : n = Len(locals) /\ Fresh = n
  BY Numbers DEF Fresh
<1>1. PICK top, ts, d, x, i, sub :
        /\ top = Top /\ ts = top.tmps /\ d = top.dest /\ x = top.expr /\ i = top.done
        /\ sub = top.expr.fields[top.done + 1].expr
  OBVIOUS
<1>2. PICK ps, f, e, t :
        /\ ps = Popped /\ f = FieldsFrame(i + 1, Append(ts, Fresh), x, d)
        /\ e = EvalFrame(sub, Fresh) /\ t = InferTy(sub)
  OBVIOUS
<1>3. /\ fn' = fn /\ phase = "body" /\ blocks' = blocks /\ frames # << >> /\ top.f = "fields"
      /\ current' = Append(current, StorageLive(Fresh)) /\ locals' = Append(locals, t)
      /\ localMap' = localMap /\ frames' = Append(Append(ps, f), e)
  BY <1>1, <1>2 DEF LowerField, Active
<1>4. /\ ps \in Seq(FrameOf(n)) /\ Ordered(ps) /\ Within(top)
      /\ OwnedBy(frames) = OwnedBy(ps) \cup Owned(top)
      /\ MentionedBy(frames) = MentionedBy(ps) \cup Owned(top) \cup Dest(top)
      /\ \A l \in Owned(top), m \in MentionedBy(ps) : m < l
      /\ top \in FrameOf(n)
  <2>1. top = Innermost(frames) /\ ps = Outer(frames)
    BY <1>1, <1>2 DEF Top, Popped, Innermost, Outer
  <2>2. top \in FrameOf(n)
    BY <1>1, <1>3, <1>n, TopInUse
  <2> QED BY <1>3, <1>n, <2>1, <2>2, Numbers, PopStack DEF StorageInv
<1>5. ts \in Seq(0 .. n - 1) /\ d \in 0 .. n - 1 /\ top = FieldsFrame(i, ts, x, d)
  BY <1>1, <1>3, <1>4 DEF FrameOf, FieldsFrame
<1>6. Within(f) /\ Owned(f) = Owned(top) \cup {n} /\ Dest(f) = {d} /\ Dest(top) = {d}
  <2>1. Dest(top) = {d}
    BY <1>1, <1>3 DEF Dest
  <2> QED BY <1>n, <1>2, <1>4, <1>5, <2>1, FieldsGrow
<1>7. Owned(e) = {} /\ Dest(e) = {n} /\ Within(e)
  BY <1>n, <1>2, FrameParts
<1>8. \A m \in MentionedBy(frames) : m < n
  BY <1>n, Numbers
<1>9. \A l \in Owned(f), m \in MentionedBy(ps) : m < l
  BY <1>4, <1>6, <1>8
<1>10. PICK qs : qs = Append(ps, f)
  OBVIOUS
<1>11. /\ qs \in Seq(FrameOf(n) \cup {f}) /\ Ordered(qs)
       /\ OwnedBy(qs) = OwnedBy(ps) \cup Owned(f)
       /\ MentionedBy(qs) = MentionedBy(ps) \cup Owned(f) \cup Dest(f)
  BY <1>4, <1>6, <1>9, <1>10, PushStack, AppendOne
<1>12. /\ Ordered(frames') /\ OwnedBy(frames') = OwnedBy(qs) \cup Owned(e)
       /\ MentionedBy(frames') = MentionedBy(qs) \cup Owned(e) \cup Dest(e)
  BY <1>3, <1>7, <1>10, <1>11, PushStack
<1>13. \A l \in OwnedBy(frames') : l \in OwnedBy(frames) \/ l = Fresh
  BY <1>n, <1>4, <1>6, <1>7, <1>11, <1>12
<1>14. \A l \in InUse' : l \in InUse \/ l = Fresh
  <2>1. \A l \in MentionedBy(frames') : l \in MentionedBy(frames) \/ l = Fresh
    BY <1>n, <1>4, <1>6, <1>7, <1>11, <1>12
  <2> QED BY <1>0, <1>3, <2>1 DEF InUse
<1>15. Fresh \in OwnedBy(frames') /\ OwnedBy(frames) \subseteq OwnedBy(frames')
  BY <1>n, <1>4, <1>6, <1>11, <1>12
<1> QED BY <1>3, <1>12, <1>13, <1>14, <1>15, AllocStorage

\* Three statements are added, as when a push begins.
LEMMA TextThree ==
  ASSUME TypeOK, TypeOK', blocks' = blocks, NEW c \in Nat, c = Len(current),
         Len(current') = c + 3, \A i \in 1 .. c : current'[i] = current[i]
  PROVE  /\ Extends
         /\ \E p \in Sites' : \E q \in Sites' : \E r \in Sites' :
              /\ At(p)' = current'[c + 1] /\ At(q)' = current'[c + 2] /\ At(r)' = current'[c + 3]
              /\ Precedes(p, q)
              /\ \A s \in Sites' : s \in Sites \/ s = p \/ s = q \/ s = r
<1>b. PICK b : b = InProgress
  OBVIOUS
<1>2. /\ Len(current) <= Len(current')
      /\ \A j \in Len(current) + 1 .. Len(current') : j = c + 1 \/ j = c + 2 \/ j = c + 3
      /\ c + 1 \in Len(current) + 1 .. Len(current')
      /\ c + 2 \in Len(current) + 1 .. Len(current')
      /\ c + 3 \in Len(current) + 1 .. Len(current')
  OBVIOUS
<1>3. /\ Extends /\ AddsStatements
      /\ \A j \in Len(current) + 1 .. Len(current') :
           \E q \in Sites' : q = <<InProgress, j>> /\ At(q)' = current'[j]
  BY <1>2, ExtendStep
<1>4. PICK p \in Sites', q \in Sites', r \in Sites' :
        /\ p = <<b, c + 1>> /\ At(p)' = current'[c + 1]
        /\ q = <<b, c + 2>> /\ At(q)' = current'[c + 2]
        /\ r = <<b, c + 3>> /\ At(r)' = current'[c + 3]
  BY <1>2, <1>3, <1>b
<1>5. \A s \in Sites' : s \in Sites \/ s = p \/ s = q \/ s = r
  BY <1>2, <1>3, <1>4, <1>b DEF AddsStatements
<1>6. Precedes(p, q)
  BY <1>4 DEF Precedes
<1>7. \E u \in Sites' :
        /\ At(p)' = current'[c + 1] /\ At(q)' = current'[c + 2] /\ At(u)' = current'[c + 3]
        /\ Precedes(p, q)
        /\ \A s \in Sites' : s \in Sites \/ s = p \/ s = q \/ s = u
  BY <1>4, <1>5, <1>6
<1>8. \E w, u \in Sites' :
        /\ At(p)' = current'[c + 1] /\ At(w)' = current'[c + 2] /\ At(u)' = current'[c + 3]
        /\ Precedes(p, w)
        /\ \A s \in Sites' : s \in Sites \/ s = p \/ s = w \/ s = u
  BY <1>7
<1> QED BY <1>3, <1>8

LEMMA BeginPushStorage ==
  ASSUME TypeOK, TypeOK', Prologue, StorageLiveOnce, StorageInv, BeginPush
  PROVE  StorageInv' /\ Kept' = Kept
<1>0. InUse' = MentionedBy(frames') \cup {localMap'[x] : x \in Names} \cup {0}
  BY DEF InUse, MentionedBy, Mentioned, Owned, Dest
<1>n. PICK n \in Nat : n = Len(locals) /\ Fresh = n /\ n > ArgPairs
  <2>1. phase = "body"
    BY DEF BeginPush, Active
  <2> QED BY <2>1, Numbers DEF Fresh, Prologue
<1>1. PICK top, ps, d, v, sub :
        /\ top = Top /\ ps = Popped /\ d = Top.dest
        /\ v = localMap[Top.expr.receiver.name] /\ sub = Top.expr.args[1]
  OBVIOUS
<1>2. PICK f, e, t : /\ f = PushFrame(n, n + 1, d) /\ e = EvalFrame(sub, n + 1)
                     /\ t = InferTy(sub)
  OBVIOUS
<1>3. /\ fn' = fn /\ phase = "body" /\ blocks' = blocks /\ frames # << >> /\ top.f = "eval"
      /\ current' = Append(Append(Append(current, StorageLive(n)), Ref(n, v)), StorageLive(n + 1))
      /\ locals' = Append(Append(locals, "&mutVec"), t)
      /\ localMap' = localMap /\ frames' = Append(Append(ps, f), e)
      /\ IsPush(Top.expr) /\ ReceiverFound(Top.expr)
  BY <1>n, <1>1, <1>2 DEF BeginPush, Active
<1>4. /\ ps \in Seq(FrameOf(n)) /\ Ordered(ps)
      /\ OwnedBy(frames) = OwnedBy(ps) \cup Owned(top)
      /\ MentionedBy(frames) = MentionedBy(ps) \cup Owned(top) \cup Dest(top)
  <2>1. top = Innermost(frames) /\ ps = Outer(frames)
    BY <1>1 DEF Top, Popped, Innermost, Outer
  <2> QED BY <1>3, <1>n, <2>1, Numbers, PopStack DEF StorageInv
<1>5. Owned(top) = {} /\ Dest(top) = {d}
  BY <1>1, <1>3 DEF Owned, Dest
<1>6. \A m \in MentionedBy(frames) : m \in Int /\ m < n
  BY <1>n, Numbers
<1>7. /\ Owned(f) = {n, n + 1} /\ Dest(f) = {d} /\ Within(f)
      /\ Owned(e) = {} /\ Dest(e) = {n + 1} /\ Within(e)
  <2>1. /\ Owned(f) = {n, n + 1} /\ Dest(f) = {d}
        /\ Owned(e) = {} /\ Dest(e) = {n + 1} /\ Within(e)
    BY <1>2, FrameParts
  <2>2. d \in Int /\ d < n
    BY <1>4, <1>5, <1>6
  <2>3. f.f = "push" /\ f.ref = n /\ f.arg = n + 1
    BY <1>2 DEF PushFrame
  <2> QED BY <2>1, <2>2, <2>3 DEF Within
<1>9. \A l \in Owned(f), m \in MentionedBy(ps) : m < l
  BY <1>4, <1>6, <1>7
<1>10. PICK qs : qs = Append(ps, f)
  OBVIOUS
<1>11. /\ qs \in Seq(FrameOf(n) \cup {f}) /\ Ordered(qs)
       /\ OwnedBy(qs) = OwnedBy(ps) \cup Owned(f)
       /\ MentionedBy(qs) = MentionedBy(ps) \cup Owned(f) \cup Dest(f)
  BY <1>4, <1>7, <1>9, <1>10, PushStack, AppendOne
<1>12. /\ Ordered(frames') /\ OwnedBy(frames') = OwnedBy(qs) \cup Owned(e)
       /\ MentionedBy(frames') = MentionedBy(qs) \cup Owned(e) \cup Dest(e)
  BY <1>3, <1>7, <1>10, <1>11, PushStack
<1>13. \A l \in OwnedBy(frames') : l \in OwnedBy(frames) \/ l = n \/ l = n + 1
  BY <1>4, <1>7, <1>11, <1>12
<1>14. \A l \in InUse' : l \in InUse \/ l = n \/ l = n + 1
  <2>1. \A l \in MentionedBy(frames') : l \in MentionedBy(frames) \/ l = n \/ l = n + 1
    BY <1>4, <1>5, <1>7, <1>11, <1>12
  <2> QED BY <1>0, <1>3, <2>1 DEF InUse
<1>15. /\ Extends
       /\ \E p, q, r \in Sites' :
            /\ At(p)' = StorageLive(n) /\ At(q)' = Ref(n, v) /\ At(r)' = StorageLive(n + 1)
            /\ Precedes(p, q)
            /\ \A s \in Sites' : s \in Sites \/ s = p \/ s = q \/ s = r
  <2>1. PICK c \in Nat : c = Len(current)
    BY TextTypedHolds DEF TextTyped
  <2>2. /\ Len(current') = c + 3
        /\ \A i \in 1 .. c : current'[i] = current[i]
        /\ current'[c + 1] = StorageLive(n) /\ current'[c + 2] = Ref(n, v)
        /\ current'[c + 3] = StorageLive(n + 1)
    <3>1. current \in Seq(StatementOf(Len(locals)))
      BY TextTypedHolds DEF TextTyped
    <3>2. PICK x, y, z : x = StorageLive(n) /\ y = Ref(n, v) /\ z = StorageLive(n + 1)
      OBVIOUS
    <3>3. current' = Append(Append(Append(current, x), y), z)
      BY <1>3, <3>2
    <3>4. /\ Len(current') = c + 3
          /\ \A i \in 1 .. c : current'[i] = current[i]
          /\ current'[c + 1] = x /\ current'[c + 2] = y /\ current'[c + 3] = z
      BY <2>1, <3>1, <3>3, AppendThree
    <3> QED BY <3>2, <3>4
  <2>3. blocks' = blocks
    BY <1>3
  <2> QED BY <2>1, <2>2, <2>3, TextThree
<1>16. PICK p \in Sites', q \in Sites', r \in Sites' :
         /\ At(p)' = StorageLive(n) /\ At(q)' = Ref(n, v) /\ At(r)' = StorageLive(n + 1)
         /\ Precedes(p, q)
         /\ \A s \in Sites' : s \in Sites \/ s = p \/ s = q \/ s = r
  BY <1>15
<1>17. Kills({}) /\ UsesBeforeDead
  <2>1. \A k, l, m : StorageLive(k) # StorageDead(l) /\ Ref(k, m) # StorageDead(l)
    BY DEF StorageLive, StorageDead, Ref
  <2> QED BY <1>15, <1>16, <2>1, KillsNone
<1>18. \A l \in InUse' : DeadSites(l) = {}
  BY <1>n, <1>14, FreshNotDead DEF StorageInv
<1>19. v \in InUse
  <2>1. Top.expr.receiver \in Exprs /\ Top.expr.receiver.k = "Var"
    BY <1>1, <1>3, EvalTop, ExprsAssumption DEF IsExprUniverse, IsPush, ReceiverFound, Active
  <2> QED BY <1>1, <1>3, <2>1, EvalTop DEF Active
<1>20. UsesStored
  <2>1. ASSUME NEW l \in UsedBy(At(q)') \cap Allocated'
        PROVE  /\ DeadSites(l) = {}
               /\ l \in Allocated \/ \E u \in LiveSites(l)' : Precedes(u, q)
    <3>1. l = n \/ l = v
      BY <1>16, UsedByWritten
    <3>2. CASE l = n
      <4>1. p \in LiveSites(n)'
        <5>1. SitesView'
          BY SitesViewNext
        <5>2. StorageLive(n)' = StorageLive(n)
          BY DEF StorageLive
        <5> QED BY <1>16, <5>1, <5>2 DEF SitesView
      <4> QED BY <1>n, <1>16, <3>2, <4>1, FreshNotDead
    <3>3. CASE l = v
      <4>1. v \in Int /\ v < n
        BY <1>n, <1>19, Numbers DEF InUse
      <4>2. ArgPairs' = ArgPairs
        BY <1>3 DEF ArgPairs
      <4>3. v \in Allocated
        BY <1>n, <3>3, <4>1, <4>2, Numbers DEF Allocated, Locals
      <4> QED BY <1>19, <3>3, <4>3 DEF StorageInv
    <3> QED BY <3>1, <3>2, <3>3
  <2> QED BY <1>16, <2>1, UsedByWritten DEF UsesStored
<1>25. Len(locals') = n + 1 + 1
  <2>1. locals \in Seq(Types)
    BY DEF TypeOK
  <2>2. PICK ls : ls = Append(locals, "&mutVec")
    OBVIOUS
  <2>3. ls \in Seq(Types \cup {"&mutVec"}) /\ Len(ls) = n + 1
    BY <1>n, <2>1, <2>2, AppendOne
  <2>4. Len(Append(ls, t)) = n + 1 + 1
    BY <2>3, AppendOne
  <2> QED BY <1>3, <2>2, <2>4
<1>21. Len(locals) <= Len(locals')
  BY <1>n, <1>25
<1>22. \A l \in OwnedBy(frames') : l > ArgPairs /\ \A x \in Names : localMap'[x] < l
  <2>1. \A x \in Names : localMap'[x] \in Int /\ localMap'[x] < n /\ localMap' = localMap
    BY <1>n, <1>3, Numbers
  <2>2. \A l \in OwnedBy(frames) : l > ArgPairs /\ \A x \in Names : localMap[x] < l
    BY DEF StorageInv
  <2>3. n + 1 > ArgPairs
    BY <1>n, Numbers
  <2> QED BY <1>n, <1>13, <2>1, <2>2, <2>3
<1>23. StorageInv'
  BY <1>3, <1>12, <1>15, <1>17, <1>18, <1>20, <1>21, <1>22, KeepsStorage
<1>24. Kept' = Kept
  <2>1. ArgPairs' = ArgPairs
    BY <1>3 DEF ArgPairs
  <2>2. \A l : l \in Allocated' => l \in Allocated \/ l = n \/ l = n + 1
    <3>1. \A l : l \in 0 .. n + 1 + 1 - 1 => l \in 0 .. n - 1 \/ l = n \/ l = n + 1
      BY <1>n
    <3> QED BY <1>n, <1>25, <2>1, <3>1 DEF Allocated, Locals
  <2>3. n \notin Allocated /\ n + 1 \notin Allocated
    BY <1>n DEF Allocated, Locals
  <2>4. n \in OwnedBy(frames') /\ n + 1 \in OwnedBy(frames')
        /\ OwnedBy(frames) \subseteq OwnedBy(frames')
    BY <1>4, <1>5, <1>7, <1>11, <1>12
  <2>5. Allocated \subseteq Allocated'
    BY <1>n, <1>25, <2>1 DEF Allocated, Locals
  <2> QED BY <1>13, <1>17, <2>2, <2>3, <2>4, <2>5, KeptStep
<1> QED BY <1>23, <1>24

LEMMA StorageInvInit == Init => StorageInv
<1> SUFFICES ASSUME Init PROVE StorageInv
  OBVIOUS
<1>1. blocks = << >> /\ current = << >> /\ frames = << >> /\ locals = << >>
  BY DEF Init
<1>2. TypeOK
  BY TypeOKInit
<1>3. Sites = {}
  <2>1. \A b, i : ~IsSite(blocks, current, b, i)
    BY <1>1 DEF IsSite
  <2> QED BY <1>2, <2>1, SitesViewHolds DEF SitesView
<1>4. Allocated = {}
  BY <1>1 DEF Allocated, Locals
<1>5. \A l : DeadSites(l) = {}
  BY <1>2, <1>3, SitesViewHolds DEF SitesView
<1>6. Ordered(frames) /\ OwnedBy(frames) = {}
  BY <1>1, EmptyStack
<1> QED BY <1>4, <1>5, <1>6 DEF StorageInv, UsedWhileStored

LEMMA StorageInvNext ==
  TypeOK /\ TypeOK' /\ Prologue /\ StorageLiveOnce /\ StorageInv /\ [Next]_vars => StorageInv'
BY QuietActions, LetStorage, LowerFieldStorage, BeginPushStorage,
   LowerIntLitStorage, LowerVarStorage, LowerVecNewStorage, LowerLenStorage, EmitReturnStorage,
   EndExprStmtStorage, FinishStructStorage, FinishPushStorage DEF Next

(* Whatever the program, nothing the lowering writes uses a local before its *)
(* StorageLive or after its StorageDead.                                     *)
THEOREM StorageLifetimes == Spec => []UsedWhileStored
<1>1. Init => StorageInv
  BY StorageInvInit
<1>2. TypeOK /\ Prologue /\ StorageLiveOnce /\ StorageInv /\ [Next]_vars => StorageInv'
  BY TypeOKNext, StorageInvNext
<1>3. StorageInv => UsedWhileStored
  BY DEF StorageInv
<1> QED BY <1>1, <1>2, <1>3, TypeCorrect, StorageCorrect, PTL DEF Spec

-----------------------------------------------------------------------------
(* Only the lets' locals are left stored.                                    *)

\* The let statements that have been lowered.
Lets == {i \in 1 .. Len(fn.stmts) : i < next /\ fn.stmts[i].k = "Let"}

CountInv ==
  /\ phase \in {"body", "done"} => Cardinality(Kept) = Cardinality(Lets)
  /\ phase = "done" => frames = << >> /\ next = Len(fn.stmts) + 2

LEMMA CountsFinite == TypeOK => /\ IsFiniteSet(Kept) /\ IsFiniteSet(Lets)
                                /\ Len(fn.stmts) \in Nat /\ next \in Nat
<1> SUFFICES ASSUME TypeOK
             PROVE  /\ IsFiniteSet(Kept) /\ IsFiniteSet(Lets)
                    /\ Len(fn.stmts) \in Nat /\ next \in Nat
  OBVIOUS
<1>1. Len(fn.stmts) \in Nat /\ Len(locals) \in Nat /\ next \in Nat
  BY FunctionsAssumption DEF TypeOK
<1>2. IsFiniteSet(0 .. Len(locals) - 1) /\ IsFiniteSet(1 .. Len(fn.stmts))
  <2>1. 0 \in Int /\ 1 \in Int /\ Len(locals) - 1 \in Int /\ Len(fn.stmts) \in Int
    BY <1>1
  <2> QED BY <2>1, FS_Interval
<1>3. Kept \subseteq 0 .. Len(locals) - 1 /\ Lets \subseteq 1 .. Len(fn.stmts)
  BY DEF Kept, Allocated, Locals, Lets
<1> QED BY <1>1, <1>2, <1>3, FS_Subset

LEMMA CountInvNext ==
  ASSUME TypeOK, TypeOK', Prologue, StorageLiveOnce, StorageInv, CountInv, [Next]_vars
  PROVE  CountInv'
<1>1. PICK m \in Nat : m = Len(fn.stmts)
  BY CountsFinite
<1>2. /\ IsFiniteSet(Kept) /\ IsFiniteSet(Lets) /\ next \in Nat
  BY CountsFinite
<1>3. fn' = fn
  BY DEF Next, vars, Resolve, BindParam, StartBody, LowerLet, LowerExprStmt, EndExprStmt,
     LowerIntLit, LowerVar, BeginStruct, LowerField, FinishStruct, LowerVecNew, BeginPush,
     FinishPush, LowerLen, LowerRet, EmitReturn, Panic
<1>4. \A i : i \in Lets' <=> i \in 1 .. m /\ i < next' /\ fn.stmts[i].k = "Let"
  BY <1>1, <1>3 DEF Lets
<1>5. \A i : i \in Lets <=> i \in 1 .. m /\ i < next /\ fn.stmts[i].k = "Let"
  BY <1>1 DEF Lets
<1>6. CASE Resolve \/ BindParam \/ Panic
  BY <1>6 DEF Resolve, BindParam, Panic, CountInv
<1>7. CASE StartBody
  <2>1. phase' = "body" /\ Allocated' = {} /\ next' = 1
    BY <1>3, <1>7, Numbers DEF StartBody, Prologue, Allocated, Locals, ArgPairs
  <2>2. Kept' = {}
    BY <2>1, KeptNext DEF Kept
  <2>3. Lets' = {}
    BY <1>4, <2>1 DEF Lets
  <2>4. Cardinality(Kept)' = Cardinality(Lets)'
    BY <2>2, <2>3
  <2> QED BY <2>1, <2>4 DEF CountInv
<1>8. CASE LowerLet
  <2>1. /\ phase = "body" /\ phase' = phase /\ next' = next + 1 /\ next <= m
        /\ fn.stmts[next].k = "Let"
    BY <1>1, <1>8 DEF LowerLet, Idle
  <2>2. next \in 1 .. m
    BY <1>2, <2>1 DEF TypeOK
  <2>3. Lets' = Lets \cup {next} /\ next \notin Lets
    <3>1. \A i \in 1 .. m : i < next' <=> i < next \/ i = next
      BY <1>2, <2>1
    <3>2. ~(next < next)
      BY <1>2
    <3>3. \A i : i \in Lets' <=> i \in Lets \/ i = next
      BY <1>4, <1>5, <2>1, <2>2, <3>1
    <3>4. Lets' = Lets \cup {next}
      BY <3>3 DEF Lets
    <3> QED BY <1>5, <3>2, <3>4
  <2>4. Kept' = Kept \cup {Fresh} /\ Fresh \notin Kept
    BY <1>8, LetStorage
  <2>5. /\ Cardinality(Lets \cup {next}) = Cardinality(Lets) + 1
        /\ Cardinality(Kept \cup {Fresh}) = Cardinality(Kept) + 1
    BY <1>2, <2>3, <2>4, FS_AddElement
  <2>6. Cardinality(Kept)' = Cardinality(Lets)'
    BY <2>1, <2>3, <2>4, <2>5 DEF CountInv
  <2> QED BY <2>1, <2>6 DEF CountInv
<1>9. ASSUME Kept' = Kept, next' = next \/ (next' = next + 1 /\ next \notin Lets'),
             phase = "body" \/ UNCHANGED vars,
             phase' = "done" => frames' = << >> /\ next' = m + 2
      PROVE  CountInv'
  <2>1. \A i \in 1 .. m : i # next => (i < next' <=> i < next)
    BY <1>2, <1>9
  <2>2. next \notin Lets \/ next' = next
    BY <1>2, <1>5
  <2>3. \A i : i \in Lets' <=> i \in Lets
    BY <1>4, <1>5, <1>9, <2>1, <2>2
  <2>4. Lets' = Lets
    BY <2>3 DEF Lets
  <2>5. Cardinality(Kept)' = Cardinality(Kept) /\ Cardinality(Lets)' = Cardinality(Lets)
    BY <1>9, <2>4
  <2>6. phase \in {"body", "done"} \/ phase' = phase
    BY <1>9 DEF vars
  <2>7. Len(fn.stmts)' = m
    BY <1>1, <1>3
  <2> QED BY <1>9, <2>5, <2>6, <2>7 DEF CountInv
<1>10. CASE LowerExprStmt
  <2>1. /\ phase = "body" /\ phase' = phase /\ next' = next + 1 /\ fn.stmts[next].k = "ExprStmt"
    BY <1>10 DEF LowerExprStmt, Idle
  <2> QED BY <1>4, <1>9, <1>10, <2>1, LetStorage
<1>11. CASE LowerRet
  <2>1. phase = "body" /\ phase' = phase /\ next' = next + 1 /\ next = m + 1
    BY <1>1, <1>11 DEF LowerRet, Idle
  <2>2. next \notin 1 .. m
    BY <2>1
  <2> QED BY <1>4, <1>9, <1>11, <2>1, <2>2, QuietActions
<1>12. CASE EmitReturn
  <2>1. phase = "body" /\ next' = next /\ next = m + 2 /\ frames' = << >>
    BY <1>1, <1>12 DEF EmitReturn, Idle
  <2> QED BY <1>9, <1>12, <2>1, EmitReturnStorage
<1>13. CASE \/ EndExprStmt \/ LowerIntLit \/ LowerVar \/ BeginStruct \/ LowerField
            \/ FinishStruct \/ LowerVecNew \/ BeginPush \/ FinishPush \/ LowerLen
  <2>1. phase = "body" /\ phase' = phase /\ next' = next
    BY <1>13 DEF EndExprStmt, LowerIntLit, LowerVar, BeginStruct, LowerField, FinishStruct,
       LowerVecNew, BeginPush, FinishPush, LowerLen, Active
  <2>2. Kept' = Kept
    BY <1>13, QuietActions, LowerFieldStorage, BeginPushStorage, LowerIntLitStorage,
       LowerVarStorage, LowerVecNewStorage, LowerLenStorage, EndExprStmtStorage,
       FinishStructStorage, FinishPushStorage
  <2> QED BY <1>9, <2>1, <2>2
<1>14. CASE UNCHANGED vars
  <2>1. next' = next /\ frames' = frames /\ phase' = phase
    BY <1>14 DEF vars
  <2> QED BY <1>1, <1>9, <1>14, <2>1, QuietActions DEF CountInv
<1> QED BY <1>6, <1>7, <1>8, <1>10, <1>11, <1>12, <1>13, <1>14 DEF Next

(* In a finished body no local is declared dead twice, and the locals never  *)
(* declared dead are as many as the lets: no call leaks a temporary.         *)
THEOREM StorageReleased == Spec => []TemporariesDie
<1>1. Init => CountInv
  BY DEF Init, CountInv
<1>2. TypeOK /\ TypeOK' /\ Prologue /\ StorageLiveOnce /\ StorageInv /\ CountInv /\ [Next]_vars
        => CountInv'
  BY CountInvNext
<1>3. ASSUME TypeOK, StorageInv, CountInv PROVE TemporariesDie
  <2> SUFFICES ASSUME phase = "done"
               PROVE  /\ \A l \in Locals : Cardinality(DeadSites(l)) <= 1
                      /\ Cardinality({l \in Allocated : DeadSites(l) = {}})
                           = Cardinality({i \in 1 .. Len(fn.stmts) : fn.stmts[i].k = "Let"})
    BY DEF TemporariesDie
  <2>1. ASSUME NEW l PROVE Cardinality(DeadSites(l)) <= 1
    <3>1. CASE DeadSites(l) = {}
      BY <3>1, FS_EmptySet
    <3>2. CASE DeadSites(l) # {}
      <4>1. PICK p : p \in DeadSites(l)
        BY <3>2
      <4>2. DeadSites(l) = {p}
        <5>1. \A q \in DeadSites(l) : q = p
          BY <1>3, <4>1 DEF StorageInv
        <5> QED BY <4>1, <5>1
      <4>3. Cardinality(DeadSites(l)) = 1
        BY <4>2, FS_Singleton
      <4> QED BY <4>3
    <3> QED BY <3>1, <3>2
  <2>2. Kept = {l \in Allocated : DeadSites(l) = {}}
    BY <1>3, EmptyStack DEF Kept, CountInv
  <2>3. Lets = {i \in 1 .. Len(fn.stmts) : fn.stmts[i].k = "Let"}
    <3>1. \A i \in 1 .. Len(fn.stmts) : i < next
      BY <1>3, CountsFinite DEF CountInv
    <3> QED BY <3>1 DEF Lets
  <2> QED BY <1>3, <2>1, <2>2, <2>3 DEF CountInv
<1>4. Init => StorageInv
  BY StorageInvInit
<1>5. TypeOK /\ Prologue /\ StorageLiveOnce /\ StorageInv /\ [Next]_vars => TypeOK' /\ StorageInv'
  BY TypeOKNext, StorageInvNext
<1> QED BY <1>1, <1>2, <1>3, <1>4, <1>5, TypeCorrect, StorageCorrect, PTL DEF Spec

-----------------------------------------------------------------------------
(* Types, with the declarations made explicit: ls for the locals, lm for the *)
(* variable map.                                                             *)

\* The locals ms are ls and perhaps more.
Longer(ls, ms) ==
  /\ Len(ls) \in Nat /\ Len(ms) \in Nat /\ Len(ls) <= Len(ms)
  /\ \A l \in 0 .. Len(ls) - 1 : ms[l + 1] = ls[l + 1]

DeclaredAs(ls, l, t) == l \in 0 .. Len(ls) - 1 /\ ls[l + 1] = t

\* The instruction stores a value of the type its place was declared with.
Receives(ls, s, t) == s.place = 0 \/ DeclaredAs(ls, s.place, t)
TypedIn(ls, s) ==
  /\ s.op \in Storage \cup {"Return", "Call", "Aggregate", "Ref", "Use"}
  /\ s.op = "Call"      => Receives(ls, s, Output(s.func))
  /\ s.op = "Aggregate" => Receives(ls, s, "Point")
  /\ s.op = "Ref"       => Receives(ls, s, "&mutVec")
  /\ s.op = "Use"       => \/ /\ s.operands[1].mode = "const"
                              /\ Receives(ls, s, "i32")
                           \/ /\ s.operands[1].mode = "move"
                              /\ s.operands[1].arg \in 0 .. Len(ls) - 1
                              /\ Receives(ls, s, ls[s.operands[1].arg + 1])

\* e has type t.
HasType(ls, lm, e, t) ==
  /\ e.k = "IntLit"    => t = "i32"
  /\ e.k = "StructLit" => t = "Point"
  /\ e.k = "Var"       => DeclaredAs(ls, lm[e.name], t)
  /\ IsVecNew(e)       => t = "Vec"
  /\ IsPush(e)         => t = "unit"
  /\ IsLen(e)          => t = "usize"

\* What a pending call will store has the type of its destination.
FrameTyped(ls, lm, f) ==
  \/ f.f = "dead"
  \/ f.dest = 0
  \/ /\ f.dest \in 0 .. Len(ls) - 1
     /\ f.f = "eval"   => HasType(ls, lm, f.expr, ls[f.dest + 1])
     /\ f.f = "fields" => ls[f.dest + 1] = "Point"
     /\ f.f = "push"   => ls[f.dest + 1] = "unit"

TypesInv ==
  /\ \A p \in Sites : TypedIn(locals, At(p))
  /\ \A i \in 1 .. Len(frames) : FrameTyped(locals, localMap, frames[i])

LEMMA TypesInvMeans == TypesInv => DeclaredTypeHolds
<1> SUFFICES ASSUME TypesInv, NEW p \in Sites,
                    At(p).op \notin Storage \cup {"Return"}, At(p).place # 0
             PROVE  TypeOf(At(p).place) = Produced(At(p))
  BY DEF DeclaredTypeHolds, Sites
<1>1. PICK s : s = At(p)
  OBVIOUS
<1>2. TypedIn(locals, s) /\ s.op \notin Storage \cup {"Return"} /\ s.place # 0
  BY <1>1 DEF TypesInv
<1>3. TypeOf(s.place) = Produced(s)
  BY <1>2 DEF TypedIn, Receives, DeclaredAs, TypeOf, Produced
<1> QED BY <1>1, <1>3

\* Declaring more locals changes no type.
LEMMA MoreLocals ==
  ASSUME NEW ls, NEW ms, Longer(ls, ms)
  PROVE  /\ \A l, t : DeclaredAs(ls, l, t) => DeclaredAs(ms, l, t)
         /\ \A s : TypedIn(ls, s) => TypedIn(ms, s)
         /\ \A lm, e, t : HasType(ls, lm, e, t) => HasType(ms, lm, e, t)
         /\ \A lm, f : FrameTyped(ls, lm, f) => FrameTyped(ms, lm, f)
<1>1. \A l \in 0 .. Len(ls) - 1 : l \in 0 .. Len(ms) - 1 /\ ms[l + 1] = ls[l + 1]
  BY DEF Longer
<1>2. \A l, t : DeclaredAs(ls, l, t) => DeclaredAs(ms, l, t)
  BY <1>1 DEF DeclaredAs
<1>3. ASSUME NEW s, TypedIn(ls, s) PROVE TypedIn(ms, s)
  <2>1. \A t : Receives(ls, s, t) => Receives(ms, s, t)
    BY <1>2 DEF Receives
  <2>2. CASE s.op # "Use"
    BY <1>3, <2>1, <2>2 DEF TypedIn
  <2>3. CASE s.op = "Use"
    <3>1. PICK a : a = s.operands[1].arg
      OBVIOUS
    <3>2. a \in 0 .. Len(ls) - 1 => a \in 0 .. Len(ms) - 1 /\ ms[a + 1] = ls[a + 1]
      BY <1>1
    <3> QED BY <1>3, <2>1, <2>3, <3>1, <3>2 DEF TypedIn
  <2> QED BY <2>2, <2>3
<1>4. \A lm, e, t : HasType(ls, lm, e, t) => HasType(ms, lm, e, t)
  BY <1>2 DEF HasType
<1>5. ASSUME NEW lm, NEW f, FrameTyped(ls, lm, f) PROVE FrameTyped(ms, lm, f)
  BY <1>1, <1>4, <1>5 DEF FrameTyped
<1> QED BY <1>2, <1>3, <1>4, <1>5

\* What each instruction needs to be typed.
LEMMA TypedInstructions ==
  ASSUME NEW ls
  PROVE  /\ \A l : TypedIn(ls, StorageLive(l)) /\ TypedIn(ls, StorageDead(l))
         /\ TypedIn(ls, Return)
         /\ \A d, c : d = 0 \/ DeclaredAs(ls, d, "i32") => TypedIn(ls, Use(d, Const(c)))
         /\ \A d : \A v \in 0 .. Len(ls) - 1 :
              d = 0 \/ DeclaredAs(ls, d, ls[v + 1]) => TypedIn(ls, Use(d, Move(v)))
         /\ \A d, os : d = 0 \/ DeclaredAs(ls, d, "Point") => TypedIn(ls, Aggregate(d, os))
         /\ \A d, v : DeclaredAs(ls, d, "&mutVec") => TypedIn(ls, Ref(d, v))
         /\ \A f, d, os, t : d = 0 \/ DeclaredAs(ls, d, Output(f)) => TypedIn(ls, Call(f, os, d, t))
<1>1. /\ \A l : TypedIn(ls, StorageLive(l)) /\ TypedIn(ls, StorageDead(l))
      /\ TypedIn(ls, Return)
  BY DEF TypedIn, Receives, Storage, StorageLive, StorageDead, Return
<1>2. ASSUME NEW d, NEW c, d = 0 \/ DeclaredAs(ls, d, "i32") PROVE TypedIn(ls, Use(d, Const(c)))
  <2>1. /\ Use(d, Const(c)).op = "Use" /\ Use(d, Const(c)).place = d
        /\ Use(d, Const(c)).operands[1].mode = "const"
    BY DEF Use, Const
  <2> QED BY <1>2, <2>1 DEF TypedIn, Receives
<1>3. ASSUME NEW d, NEW v \in 0 .. Len(ls) - 1, d = 0 \/ DeclaredAs(ls, d, ls[v + 1])
      PROVE  TypedIn(ls, Use(d, Move(v)))
  <2>1. /\ Use(d, Move(v)).op = "Use" /\ Use(d, Move(v)).place = d
        /\ Use(d, Move(v)).operands[1].mode = "move" /\ Use(d, Move(v)).operands[1].arg = v
    BY DEF Use, Move
  <2> QED BY <1>3, <2>1 DEF TypedIn, Receives
<1>4. ASSUME NEW d, NEW os, d = 0 \/ DeclaredAs(ls, d, "Point") PROVE TypedIn(ls, Aggregate(d, os))
  BY <1>4 DEF TypedIn, Receives, Aggregate
<1>5. ASSUME NEW d, NEW v, DeclaredAs(ls, d, "&mutVec") PROVE TypedIn(ls, Ref(d, v))
  BY <1>5 DEF TypedIn, Receives, Ref
<1>6. ASSUME NEW f, NEW d, NEW os, NEW t, d = 0 \/ DeclaredAs(ls, d, Output(f))
      PROVE  TypedIn(ls, Call(f, os, d, t))
  BY <1>6 DEF TypedIn, Receives, Call
<1> QED BY <1>1, <1>2, <1>3, <1>4, <1>5, <1>6

\* infer_ty finds the type.
LEMMA InferTyRight ==
  ASSUME TypeOK, NEW e \in Exprs, Inferable(e)
  PROVE  HasType(locals, localMap, e, InferTy(e))
<1>1. CASE e.k = "Var"
  <2>1. Bound(e.name)
    BY <1>1 DEF Inferable, IsVecNew, IsPush, IsLen
  <2>2. localMap[e.name] \in Locals
    BY <1>1, <2>1, BoundVarIsLocal
  <2>3. InferTy(e) = TypeOf(localMap[e.name])
    BY <1>1 DEF InferTy, IsVecNew, IsPush, IsLen
  <2> QED BY <1>1, <2>2, <2>3 DEF HasType, DeclaredAs, Locals, TypeOf, IsVecNew, IsPush, IsLen
<1>2. CASE e.k # "Var"
  BY <1>2 DEF HasType, InferTy, Inferable, IsVecNew, IsPush, IsLen
<1> QED BY <1>1, <1>2

\* The invariant is kept by a step whose new instructions and calls are typed.
LEMMA KeepsTypes ==
  ASSUME TypesInv, Extends, Longer(locals, locals'), localMap' = localMap \/ frames = << >>,
         \A q \in Sites' : q \in Sites \/ TypedIn(locals', At(q)'),
         \A i \in 1 .. Len(frames') : \/ FrameTyped(locals', localMap', frames'[i])
                                      \/ \E j \in 1 .. Len(frames) : frames'[i] = frames[j]
  PROVE  TypesInv'
<1>1. ASSUME NEW q \in Sites' PROVE TypedIn(locals', At(q)')
  BY MoreLocals DEF Extends, TypesInv
<1>2. ASSUME NEW i \in 1 .. Len(frames') PROVE FrameTyped(locals', localMap', frames'[i])
  <2>1. CASE \E j \in 1 .. Len(frames) : frames'[i] = frames[j]
    <3>1. PICK j \in 1 .. Len(frames) : frames'[i] = frames[j]
      BY <2>1
    <3>2. localMap' = localMap
      BY <3>1
    <3>3. FrameTyped(locals, localMap, frames[j])
      BY DEF TypesInv
    <3> QED BY <3>1, <3>2, <3>3, MoreLocals
  <2> QED BY <2>1
<1>3. \A q \in Sites' : TypedIn(locals, At(q))'
  <2>1. \A q : TypedIn(locals', At(q)') <=> TypedIn(locals, At(q))'
    BY DEF TypedIn, Receives, DeclaredAs, Storage, Output
  <2> QED BY <1>1, <2>1
<1>4. \A i \in 1 .. Len(frames') : FrameTyped(locals, localMap, frames[i])'
  <2>1. \A i : FrameTyped(locals', localMap', frames'[i]) <=> FrameTyped(locals, localMap, frames[i])'
    BY DEF FrameTyped, HasType, DeclaredAs, IsVecNew, IsPush, IsLen
  <2> QED BY <1>2, <2>1
<1> QED BY <1>3, <1>4 DEF TypesInv

-----------------------------------------------------------------------------
(* The invariant under each action.                                          *)

\* The locals are the same, or more.
LEMMA SameLocals == TypeOK => Longer(locals, locals)
BY DEF TypeOK, Longer

LEMMA OneLocal ==
  ASSUME TypeOK, NEW STATE t, locals' = Append(locals, t)
  PROVE  Longer(locals, locals') /\ DeclaredAs(locals', Len(locals), t)
<1>1. PICK n \in Nat : n = Len(locals)
  BY DEF TypeOK
<1>2. Len(locals') = n + 1 /\ locals'[n + 1] = t /\ \A i \in 1 .. n : locals'[i] = locals[i]
  BY <1>1, AppendOne DEF TypeOK
<1>3. \A l \in 0 .. n - 1 : l + 1 \in 1 .. n
  BY <1>1
<1>4. n \in 0 .. n + 1 - 1 /\ n + 1 \in Nat /\ n <= n + 1
  OBVIOUS
<1> QED BY <1>1, <1>2, <1>3, <1>4 DEF Longer, DeclaredAs

LEMMA AppendTwo ==
  ASSUME NEW S, NEW s \in Seq(S), NEW x, NEW y, NEW t, t = Append(Append(s, x), y)
  PROVE  /\ Len(t) = Len(s) + 1 + 1
         /\ \A i \in 1 .. Len(s) : t[i] = s[i]
         /\ t[Len(s) + 1] = x /\ t[Len(s) + 1 + 1] = y
<1> DEFINE a == Append(s, x)
<1>0. Len(s) \in Nat
  OBVIOUS
<1>1. /\ a \in Seq(S \cup {x}) /\ Len(a) = Len(s) + 1 /\ a[Len(s) + 1] = x
      /\ \A i \in 1 .. Len(s) : a[i] = s[i]
  BY AppendOne
<1>2. t = Append(a, y)
  OBVIOUS
<1> HIDE DEF a
<1>3. Len(t) = Len(a) + 1 /\ t[Len(a) + 1] = y /\ \A i \in 1 .. Len(a) : t[i] = a[i]
  BY <1>1, <1>2, AppendOne
<1> QED BY <1>0, <1>1, <1>3

LEMMA TwoLocals ==
  ASSUME TypeOK, NEW x, NEW t, locals' = Append(Append(locals, x), t)
  PROVE  /\ Longer(locals, locals') /\ DeclaredAs(locals', Len(locals), x)
         /\ DeclaredAs(locals', Len(locals) + 1, t)
<1>1. PICK n \in Nat : n = Len(locals)
  BY DEF TypeOK
<1>2. /\ Len(locals') = n + 1 + 1 /\ locals'[n + 1] = x /\ locals'[n + 1 + 1] = t
      /\ \A i \in 1 .. n : locals'[i] = locals[i]
  <2>1. locals \in Seq(Types)
    BY DEF TypeOK
  <2> QED BY <1>1, <2>1, AppendTwo
<1>3. \A l \in 0 .. n - 1 : l + 1 \in 1 .. n
  BY <1>1
<1>4. /\ n \in 0 .. n + 1 + 1 - 1 /\ n + 1 \in 0 .. n + 1 + 1 - 1
      /\ n + 1 + 1 \in Nat /\ n <= n + 1 + 1
  OBVIOUS
<1> QED BY <1>1, <1>2, <1>3, <1>4 DEF Longer, DeclaredAs

\* The stack without its innermost call.
LEMMA PoppedCalls ==
  ASSUME TypeOK, frames # << >>
  PROVE  /\ Len(frames) \in 1 .. Len(frames) /\ Popped \in Seq(FrameOf(Len(locals)))
         /\ \A i \in 1 .. Len(Popped) : \E j \in 1 .. Len(frames) : Popped[i] = frames[j]
<1>1. PICK n \in Nat : Len(frames) = n + 1
  <2>1. Len(frames) \in Nat \ {0}
    BY DEF TypeOK
  <2>2. Len(frames) - 1 \in Nat /\ Len(frames) = Len(frames) - 1 + 1
    BY <2>1
  <2> QED BY <2>2
<1>2. /\ Popped \in Seq(FrameOf(Len(locals)))
      /\ Len(Popped) = n /\ \A i \in 1 .. n : Popped[i] = frames[i]
  BY <1>1 DEF TypeOK, Popped
<1> QED BY <1>1, <1>2

\* The steps that end a call, writing typed instructions.
LEMMA PopTypes ==
  ASSUME TypeOK, TypesInv, Extends, locals' = locals, localMap' = localMap,
         frames # << >>, frames' = Popped,
         \A q \in Sites' : q \in Sites \/ TypedIn(locals, At(q)')
  PROVE  TypesInv'
<1>1. Longer(locals, locals')
  BY SameLocals
<1>2. \A i \in 1 .. Len(frames') : \E j \in 1 .. Len(frames) : frames'[i] = frames[j]
  BY PoppedCalls
<1> QED BY <1>1, <1>2, KeepsTypes

\* The innermost call's destination.
LEMMA TopTyped ==
  ASSUME TypeOK, TypesInv, frames # << >>
  PROVE  /\ FrameTyped(locals, localMap, Top)
         /\ Top \in FrameOf(Len(locals))
<1>1. frames \in Seq(FrameOf(Len(locals))) /\ Len(locals) \in Nat
  BY DEF TypeOK
<1> QED BY <1>1, PoppedCalls, TopType DEF Top, TypesInv

LEMMA EvalTyped ==
  ASSUME TypeOK, TypesInv, Active("eval")
  PROVE  /\ Top.expr \in Exprs /\ frames # << >>
         /\ Top.dest = 0 \/ \E t : /\ DeclaredAs(locals, Top.dest, t)
                                   /\ HasType(locals, localMap, Top.expr, t)
<1>1. frames # << >> /\ Top.f = "eval"
  BY DEF Active
<1>2. FrameTyped(locals, localMap, Top) /\ Top \in FrameOf(Len(locals))
  BY <1>1, TopTyped
<1>3. Top.expr \in Exprs
  BY <1>1, <1>2 DEF FrameOf
<1> QED BY <1>1, <1>2, <1>3 DEF FrameTyped, DeclaredAs

LEMMA LeafTypes ==
  ASSUME TypeOK, TypeOK', TypesInv, LowerIntLit \/ LowerVar
  PROVE  TypesInv'
<1>1. /\ Active("eval") /\ frames' = Popped /\ locals' = locals /\ localMap' = localMap
      /\ blocks' = blocks
  BY DEF LowerIntLit, LowerVar
<1>2. PICK e, d : e = Top.expr /\ d = Top.dest
  OBVIOUS
<1>3. /\ e \in Exprs /\ frames # << >>
      /\ d = 0 \/ \E t : DeclaredAs(locals, d, t) /\ HasType(locals, localMap, e, t)
  BY <1>1, <1>2, EvalTyped
<1>4. PICK s : current' = Append(current, s) /\ TypedIn(locals, s)
  <2>1. CASE LowerIntLit
    <3>1. current' = Append(current, Use(d, Const(AsI32(e.n)))) /\ e.k = "IntLit"
      BY <1>2, <2>1 DEF LowerIntLit
    <3>2. d = 0 \/ DeclaredAs(locals, d, "i32")
      BY <1>3, <3>1 DEF HasType
    <3>3. TypedIn(locals, Use(d, Const(AsI32(e.n))))
      BY <3>2, TypedInstructions
    <3> QED BY <3>1, <3>3
  <2>2. CASE LowerVar
    <3>1. PICK v : v = localMap[e.name]
      OBVIOUS
    <3>2. current' = Append(current, Use(d, Move(v))) /\ e.k = "Var" /\ Bound(e.name)
      BY <1>2, <2>2, <3>1 DEF LowerVar
    <3>3. v \in 0 .. Len(locals) - 1
      BY <1>3, <3>1, <3>2, BoundVarIsLocal DEF Locals
    <3>4. d = 0 \/ DeclaredAs(locals, d, locals[v + 1])
      BY <1>3, <3>1, <3>2 DEF HasType, DeclaredAs
    <3>5. TypedIn(locals, Use(d, Move(v)))
      BY <3>3, <3>4, TypedInstructions
    <3> QED BY <3>2, <3>5
  <2> QED BY <2>1, <2>2
<1>5. Extends /\ \A q \in Sites' : q \in Sites \/ At(q)' = s
  <2>1. /\ Extends
        /\ \E r \in Sites' : At(r)' = s /\ \A q \in Sites' : q \in Sites \/ q = r
    BY <1>1, <1>4, TextOne
  <2> QED BY <2>1
<1> QED BY <1>1, <1>3, <1>4, <1>5, PopTypes

LEMMA CallTypes ==
  ASSUME TypeOK, TypeOK', TypesInv, LowerVecNew \/ LowerLen
  PROVE  TypesInv'
<1>1. /\ Active("eval") /\ frames' = Popped /\ locals' = locals /\ localMap' = localMap
  BY DEF LowerVecNew, LowerLen
<1>2. PICK e, d : e = Top.expr /\ d = Top.dest
  OBVIOUS
<1>3. /\ frames # << >>
      /\ d = 0 \/ \E t : DeclaredAs(locals, d, t) /\ HasType(locals, localMap, e, t)
  BY <1>1, <1>2, EvalTyped
<1>4. PICK s : Finalize(s, << >>) /\ TypedIn(locals, s)
  <2>1. CASE LowerVecNew
    <3>1. IsVecNew(e) /\ Finalize(Call("new", << >>, d, NextBlock), << >>)
      BY <1>2, <2>1 DEF LowerVecNew
    <3>2. d = 0 \/ DeclaredAs(locals, d, Output("new"))
      BY <1>3, <3>1 DEF HasType, Output
    <3>3. TypedIn(locals, Call("new", << >>, d, NextBlock))
      BY <3>2, TypedInstructions
    <3> QED BY <3>1, <3>3
  <2>2. CASE LowerLen
    <3>1. PICK os : os = <<Copy(localMap[e.receiver.name])>>
      OBVIOUS
    <3>2. IsLen(e) /\ Finalize(Call("len", os, d, NextBlock), << >>)
      BY <1>2, <2>2, <3>1 DEF LowerLen
    <3>3. d = 0 \/ DeclaredAs(locals, d, Output("len"))
      BY <1>3, <3>2 DEF HasType, Output
    <3>4. TypedIn(locals, Call("len", os, d, NextBlock))
      BY <3>3, TypedInstructions
    <3> QED BY <3>2, <3>4
  <2> QED BY <2>1, <2>2
<1>5. Extends /\ \A q \in Sites' : q \in Sites \/ At(q)' = s
  BY <1>4, TextClosed
<1> QED BY <1>1, <1>3, <1>4, <1>5, PopTypes

LEMMA FinishTypes ==
  ASSUME TypeOK, TypeOK', TypesInv, EndExprStmt \/ FinishStruct \/ FinishPush
  PROVE  TypesInv'
<1>1. frames # << >> /\ frames' = Popped /\ locals' = locals /\ localMap' = localMap
  BY DEF EndExprStmt, FinishStruct, FinishPush, Active
<1>2. FrameTyped(locals, localMap, Top) /\ Top \in FrameOf(Len(locals))
  BY <1>1, TopTyped
<1>3. CASE EndExprStmt
  <2>1. blocks' = blocks /\ current' = Append(current, StorageDead(Top.tmp))
    BY <1>3 DEF EndExprStmt
  <2>2. /\ Extends
        /\ \E r \in Sites' : /\ At(r)' = StorageDead(Top.tmp)
                             /\ \A q \in Sites' : q \in Sites \/ q = r
    BY <2>1, TextOne
  <2>3. \A q \in Sites' : q \in Sites \/ TypedIn(locals, At(q)')
    BY <2>2, TypedInstructions
  <2> QED BY <1>1, <2>2, <2>3, PopTypes
<1>4. CASE FinishStruct
  <2>1. Top.f = "fields"
    BY <1>4 DEF FinishStruct, Active
  <2>2. Len(Top.tmps) \in Nat /\ (Top.dest = 0 \/ DeclaredAs(locals, Top.dest, "Point"))
    BY <1>2, <2>1 DEF FrameTyped, FrameOf, DeclaredAs
  <2>3. Extends /\ \A q \in Sites' : \/ q \in Sites
                                     \/ \E os : At(q)' = Aggregate(Top.dest, os)
                                     \/ \E l : At(q)' = StorageDead(l)
    BY <1>4, <2>2, StructSites
  <2>4. \A q \in Sites' : q \in Sites \/ TypedIn(locals, At(q)')
    BY <2>2, <2>3, TypedInstructions
  <2> QED BY <1>1, <2>3, <2>4, PopTypes
<1>5. CASE FinishPush
  <2>1. Top.f = "push"
    BY <1>5 DEF FinishPush, Active
  <2>2. Top.dest = 0 \/ DeclaredAs(locals, Top.dest, Output("push"))
    BY <1>2, <2>1 DEF FrameTyped, FrameOf, DeclaredAs, Output
  <2>3. Extends /\ \A q \in Sites' : \/ q \in Sites
                                     \/ \E os, t : At(q)' = Call("push", os, Top.dest, t)
                                     \/ \E l : At(q)' = StorageDead(l)
    <3>1. PICK a, r, d, n : a = Top.arg /\ r = Top.ref /\ d = Top.dest /\ n = NextBlock
      OBVIOUS
    <3>2. Extends /\ \A q \in Sites' : \/ q \in Sites
                                       \/ At(q)' = Call("push", <<Move(r), Move(a)>>, d, n)
                                       \/ At(q)' = StorageDead(a)
                                       \/ At(q)' = StorageDead(r)
      BY <1>5, <3>1, PushSites
    <3>3. PICK os : os = <<Move(r), Move(a)>>
      OBVIOUS
    <3> QED BY <3>1, <3>2, <3>3
  <2>4. \A q \in Sites' : q \in Sites \/ TypedIn(locals, At(q)')
    BY <2>2, <2>3, TypedInstructions
  <2> QED BY <1>1, <2>3, <2>4, PopTypes
<1> QED BY <1>3, <1>4, <1>5

\* A call is entered.
LEMMA AppendParts ==
  ASSUME NEW S, NEW ps \in Seq(S), NEW f
  PROVE  /\ Append(ps, f) \in Seq(S \cup {f})
         /\ \A i \in 1 .. Len(Append(ps, f)) :
              Append(ps, f)[i] = f \/ \E j \in 1 .. Len(ps) : Append(ps, f)[i] = ps[j]
<1>1. PICK n \in Nat : n = Len(ps)
  OBVIOUS
<1>2. PICK qs : qs = Append(ps, f)
  OBVIOUS
<1>3. qs \in Seq(S \cup {f}) /\ Len(qs) = n + 1 /\ qs[n + 1] = f /\ \A i \in 1 .. n : qs[i] = ps[i]
  BY <1>1, <1>2, AppendOne
<1>4. \A i \in 1 .. n + 1 : i \in 1 .. n \/ i = n + 1
  BY <1>1
<1> QED BY <1>1, <1>2, <1>3, <1>4

LEMMA QuietTypes ==
  ASSUME TypeOK, TypeOK', Prologue, TypesInv,
         \/ Resolve \/ BindParam \/ StartBody \/ LowerRet \/ Panic \/ EmitReturn
         \/ UNCHANGED vars
  PROVE  TypesInv'
<1>1. CASE Resolve \/ BindParam \/ StartBody \/ Panic \/ UNCHANGED vars
  <2>1. /\ blocks' = blocks /\ current' = current /\ frames' = frames
        /\ localMap' = localMap \/ frames = << >>
        /\ \/ locals' = locals
           \/ locals' = Append(locals, fn.output)
           \/ locals' = Append(locals, fn.inputs[next])
    BY <1>1 DEF Resolve, BindParam, StartBody, Panic, vars, Prologue
  <2>2. Extends /\ \A q \in Sites' : q \in Sites
    BY <2>1, TextSame
  <2>3. Longer(locals, locals')
    BY <2>1, SameLocals, OneLocal
  <2> QED BY <2>1, <2>2, <2>3, KeepsTypes
<1>2. CASE LowerRet
  <2>1. /\ blocks' = blocks /\ current' = current /\ locals' = locals /\ localMap' = localMap
        /\ frames' = << >> \/ frames' = <<EvalFrame(fn.ret[1], 0)>>
    BY <1>2 DEF LowerRet
  <2>2. Extends /\ \A q \in Sites' : q \in Sites
    BY <2>1, TextSame
  <2>3. PICK f : f = EvalFrame(fn.ret[1], 0)
    OBVIOUS
  <2>4. f.dest = 0
    BY <2>3 DEF EvalFrame
  <2>5. \A i \in 1 .. Len(frames') : frames'[i] = f
    BY <2>1, <2>3
  <2>6. \A i \in 1 .. Len(frames') : FrameTyped(locals', localMap', frames'[i])
    BY <2>4, <2>5 DEF FrameTyped
  <2>7. Longer(locals, locals')
    BY <2>1, SameLocals
  <2> QED BY <2>1, <2>2, <2>6, <2>7, KeepsTypes
<1>3. CASE EmitReturn
  <2>1. /\ locals' = locals /\ localMap' = localMap /\ frames' = frames
        /\ Finalize(Return, << >>)
    BY <1>3 DEF EmitReturn
  <2>2. Extends /\ \A q \in Sites' : q \in Sites \/ At(q)' = Return
    BY <2>1, TextClosed
  <2>3. Longer(locals, locals')
    BY <2>1, SameLocals
  <2>4. \A q \in Sites' : q \in Sites \/ TypedIn(locals', At(q)')
    BY <2>2, TypedInstructions
  <2> QED BY <2>1, <2>2, <2>3, <2>4, KeepsTypes
<1> QED BY <1>1, <1>2, <1>3

LEMMA BeginStructTypes ==
  ASSUME TypeOK, TypeOK', TypesInv, BeginStruct
  PROVE  TypesInv'
<1>1. /\ Active("eval") /\ blocks' = blocks /\ current' = current /\ locals' = locals
      /\ localMap' = localMap /\ Top.expr.k = "StructLit"
  BY DEF BeginStruct
<1>2. PICK ps, f : ps = Popped /\ f = FieldsFrame(0, << >>, Top.expr, Top.dest)
  OBVIOUS
<1>3. frames' = Append(ps, f) /\ f.f = "fields" /\ f.dest = Top.dest
  BY <1>2 DEF BeginStruct, FieldsFrame
<1>4. FrameTyped(locals, localMap, f)
  BY <1>1, <1>3, EvalTyped DEF FrameTyped, DeclaredAs, HasType
<1>5. /\ ps \in Seq(FrameOf(Len(locals)))
      /\ \A i \in 1 .. Len(ps) : \E j \in 1 .. Len(frames) : ps[i] = frames[j]
  BY <1>1, <1>2, PoppedCalls DEF Active
<1>6. \A i \in 1 .. Len(frames') : frames'[i] = f \/ \E j \in 1 .. Len(ps) : frames'[i] = ps[j]
  BY <1>3, <1>5, AppendParts
<1>7. Extends /\ \A q \in Sites' : q \in Sites
  BY <1>1, TextSame
<1>8. Longer(locals, locals')
  BY <1>1, SameLocals
<1> QED BY <1>1, <1>4, <1>5, <1>6, <1>7, <1>8, KeepsTypes

\* A local declared with the type infer_ty finds suits the call that fills it.
LEMMA EvalFrameTyped ==
  ASSUME NEW ls, NEW lm, NEW e, NEW n, NEW t, DeclaredAs(ls, n, t), HasType(ls, lm, e, t)
  PROVE  FrameTyped(ls, lm, EvalFrame(e, n))
BY DEF FrameTyped, DeclaredAs, EvalFrame

LEMMA LetTypes ==
  ASSUME TypeOK, TypeOK', TypesInv, LowerLet \/ LowerExprStmt
  PROVE  TypesInv'
<1>1. PICK e, t, n : e = fn.stmts[next].expr /\ t = InferTy(e) /\ n = Len(locals)
  OBVIOUS
<1>2. /\ blocks' = blocks /\ frames = << >> /\ e \in Exprs /\ Inferable(e)
      /\ current' = Append(current, StorageLive(n)) /\ locals' = Append(locals, t)
  <2>1. /\ blocks' = blocks /\ frames = << >> /\ Inferable(e)
        /\ current' = Append(current, StorageLive(n)) /\ locals' = Append(locals, t)
    BY <1>1 DEF LowerLet, LowerExprStmt, Idle, Fresh
  <2> QED BY <1>1, <2>1, StmtParts DEF LowerLet, LowerExprStmt
<1>3. Longer(locals, locals') /\ DeclaredAs(locals', n, t)
  BY <1>1, <1>2, OneLocal
<1>4. HasType(locals', localMap, e, t)
  BY <1>1, <1>2, <1>3, InferTyRight, MoreLocals
<1>5. HasType(locals', localMap', e, t)
  <2>1. CASE e.k = "Var"
    <3>1. e.name \in Names
      BY <1>2, <2>1, ExprsAssumption DEF IsExprUniverse
    <3>2. localMap'[e.name] = localMap[e.name] \/ localMap'[e.name] = n
      BY <1>1, <3>1 DEF LowerLet, LowerExprStmt, TypeOK, Fresh
    <3>3. DeclaredAs(locals', localMap'[e.name], t)
      BY <1>3, <1>4, <2>1, <3>2 DEF HasType
    <3> QED BY <1>4, <2>1, <3>3 DEF HasType
  <2>2. CASE e.k # "Var"
    BY <1>4, <2>2 DEF HasType
  <2> QED BY <2>1, <2>2
<1>6. FrameTyped(locals', localMap', EvalFrame(e, n))
  BY <1>3, <1>5, EvalFrameTyped
<1>7. PICK d, f : d = DeadFrame(n) /\ f = EvalFrame(e, n)
  OBVIOUS
<1>8. frames' = <<f>> \/ frames' = <<d, f>>
  BY <1>1, <1>7 DEF LowerLet, LowerExprStmt, Fresh
<1>9. \A i \in 1 .. Len(frames') : frames'[i] = f \/ frames'[i] = d
  BY <1>8
<1>10. FrameTyped(locals', localMap', d)
  BY <1>7 DEF FrameTyped, DeadFrame
<1>11. Extends /\ \A q \in Sites' : q \in Sites \/ At(q)' = StorageLive(n)
  <2>1. /\ Extends
        /\ \E r \in Sites' : /\ At(r)' = StorageLive(n)
                             /\ \A q \in Sites' : q \in Sites \/ q = r
    BY <1>2, TextOne
  <2> QED BY <2>1
<1>12. \A q \in Sites' : q \in Sites \/ TypedIn(locals', At(q)')
  BY <1>11, TypedInstructions
<1>13. \A i \in 1 .. Len(frames') : FrameTyped(locals', localMap', frames'[i])
  BY <1>6, <1>7, <1>9, <1>10
<1> QED BY <1>2, <1>3, <1>11, <1>12, <1>13, KeepsTypes

\* A call that keeps its destination, and enters the lowering of a sub-expression.
LEMMA EnterTypes ==
  ASSUME TypeOK, TypesInv, frames # << >>, Extends, Longer(locals, locals'),
         localMap' = localMap, NEW f, NEW g, frames' = Append(Append(Popped, f), g),
         FrameTyped(locals', localMap', f), FrameTyped(locals', localMap', g),
         \A q \in Sites' : q \in Sites \/ TypedIn(locals', At(q)')
  PROVE  TypesInv'
<1>1. PICK ps, qs : ps = Popped /\ qs = Append(ps, f)
  OBVIOUS
<1>2. /\ ps \in Seq(FrameOf(Len(locals)))
      /\ \A i \in 1 .. Len(ps) : \E j \in 1 .. Len(frames) : ps[i] = frames[j]
  BY <1>1, PoppedCalls
<1>3. /\ qs \in Seq(FrameOf(Len(locals)) \cup {f})
      /\ \A i \in 1 .. Len(qs) : qs[i] = f \/ \E j \in 1 .. Len(ps) : qs[i] = ps[j]
  BY <1>1, <1>2, AppendParts
<1>4. frames' = Append(qs, g)
  BY <1>1
<1>5. \A i \in 1 .. Len(frames') : frames'[i] = g \/ \E j \in 1 .. Len(qs) : frames'[i] = qs[j]
  BY <1>3, <1>4, AppendParts
<1>6. \A i \in 1 .. Len(frames') : \/ frames'[i] = g \/ frames'[i] = f
                                   \/ \E j \in 1 .. Len(frames) : frames'[i] = frames[j]
  BY <1>2, <1>3, <1>5
<1>7. \A i \in 1 .. Len(frames') : \/ FrameTyped(locals', localMap', frames'[i])
                                   \/ \E j \in 1 .. Len(frames) : frames'[i] = frames[j]
  BY <1>6
<1> QED BY <1>7, KeepsTypes

LEMMA LowerFieldTypes ==
  ASSUME TypeOK, TypeOK', TypesInv, LowerField
  PROVE  TypesInv'
<1>1. PICK e, t, n, f, d :
        /\ e = Top.expr.fields[Top.done + 1].expr /\ t = InferTy(e) /\ n = Len(locals)
        /\ d = Top.dest /\ f = FieldsFrame(Top.done + 1, Append(Top.tmps, n), Top.expr, d)
  OBVIOUS
<1>2. /\ blocks' = blocks /\ frames # << >> /\ Top.f = "fields" /\ Inferable(e)
      /\ Top.done < Len(Top.expr.fields) /\ localMap' = localMap
      /\ current' = Append(current, StorageLive(n)) /\ locals' = Append(locals, t)
      /\ frames' = Append(Append(Popped, f), EvalFrame(e, n))
  BY <1>1 DEF LowerField, Active, Fresh
<1>3. FrameTyped(locals, localMap, Top) /\ Top \in FrameOf(Len(locals))
  BY <1>2, TopTyped
<1>4. e \in Exprs
  <2>1. Top.expr \in Exprs /\ Top.expr.k = "StructLit" /\ Top.done \in Nat
    BY <1>2, <1>3 DEF FrameOf, StructLits
  <2>2. \A i \in 1 .. Len(Top.expr.fields) : Top.expr.fields[i].expr \in Exprs
    BY <2>1, ExprsAssumption DEF IsExprUniverse
  <2>3. Top.done + 1 \in 1 .. Len(Top.expr.fields)
    BY <1>2, <2>1
  <2> QED BY <1>1, <2>2, <2>3
<1>5. Longer(locals, locals') /\ DeclaredAs(locals', n, t)
  BY <1>1, <1>2, OneLocal
<1>6. HasType(locals', localMap, e, t)
  <2>1. HasType(locals, localMap, e, t)
    BY <1>1, <1>2, <1>4, InferTyRight
  <2> QED BY <1>5, <2>1, MoreLocals
<1>7. FrameTyped(locals', localMap', EvalFrame(e, n))
  BY <1>2, <1>5, <1>6, EvalFrameTyped
<1>8. FrameTyped(locals', localMap', f)
  <2>1. FrameTyped(locals, localMap, f)
    BY <1>1, <1>2, <1>3 DEF FrameTyped, FieldsFrame
  <2> QED BY <1>2, <1>5, <2>1, MoreLocals
<1>9. Extends /\ \A q \in Sites' : q \in Sites \/ At(q)' = StorageLive(n)
  <2>1. /\ Extends
        /\ \E r \in Sites' : /\ At(r)' = StorageLive(n)
                             /\ \A q \in Sites' : q \in Sites \/ q = r
    BY <1>2, TextOne
  <2> QED BY <2>1
<1>10. \A q \in Sites' : q \in Sites \/ TypedIn(locals', At(q)')
  BY <1>9, TypedInstructions
<1> QED BY <1>2, <1>5, <1>7, <1>8, <1>9, <1>10, EnterTypes

LEMMA BeginPushTypes ==
  ASSUME TypeOK, TypeOK', TypesInv, BeginPush
  PROVE  TypesInv'
<1>n. PICK n \in Nat : n = Len(locals)
  BY DEF TypeOK
<1>p. PICK e, t, f, d, v :
        /\ e = Top.expr.args[1] /\ t = InferTy(e)
        /\ d = Top.dest /\ f = PushFrame(n, n + 1, d) /\ v = localMap[Top.expr.receiver.name]
  OBVIOUS
<1>1. /\ e = Top.expr.args[1] /\ t = InferTy(e) /\ n = Len(locals)
      /\ d = Top.dest /\ f = PushFrame(n, n + 1, d) /\ v = localMap[Top.expr.receiver.name]
  BY <1>n, <1>p
<1>2. /\ blocks' = blocks /\ Active("eval") /\ frames # << >> /\ Inferable(e)
      /\ IsPush(Top.expr) /\ ReceiverFound(Top.expr) /\ Top.expr.args # << >>
      /\ localMap' = localMap /\ locals' = Append(Append(locals, "&mutVec"), t)
      /\ current' = Append(Append(Append(current, StorageLive(n)), Ref(n, v)), StorageLive(n + 1))
      /\ frames' = Append(Append(Popped, f), EvalFrame(e, n + 1))
  BY <1>1 DEF BeginPush, Active, Fresh
<1>3. /\ Top.expr \in Exprs
      /\ d = 0 \/ \E u : /\ DeclaredAs(locals, d, u)
                         /\ HasType(locals, localMap, Top.expr, u)
  BY <1>1, <1>2, EvalTyped
<1>4. e \in Exprs
  BY <1>1, <1>2, <1>3, PushParts
<1>5. /\ Longer(locals, locals') /\ DeclaredAs(locals', n, "&mutVec")
      /\ DeclaredAs(locals', n + 1, t)
  <2>1. locals' = Append(Append(locals, "&mutVec"), t)
    BY <1>2
  <2> QED BY <1>n, <2>1, TwoLocals
<1>6. HasType(locals', localMap, e, t)
  <2>1. HasType(locals, localMap, e, t)
    BY <1>1, <1>2, <1>4, InferTyRight
  <2> QED BY <1>5, <2>1, MoreLocals
<1>7. FrameTyped(locals', localMap', EvalFrame(e, n + 1))
  BY <1>2, <1>5, <1>6, EvalFrameTyped
<1>8. FrameTyped(locals', localMap', f)
  <2>1. FrameTyped(locals, localMap, f)
    BY <1>1, <1>2, <1>3 DEF FrameTyped, PushFrame, DeclaredAs, HasType
  <2> QED BY <1>2, <1>5, <2>1, MoreLocals
<1>9. /\ Extends
      /\ \A q \in Sites' : \/ q \in Sites \/ At(q)' = StorageLive(n) \/ At(q)' = Ref(n, v)
                           \/ At(q)' = StorageLive(n + 1)
  <2>1. PICK c \in Nat : c = Len(current)
    BY TextTypedHolds DEF TextTyped
  <2>2. PICK x, y, z : x = StorageLive(n) /\ y = Ref(n, v) /\ z = StorageLive(n + 1)
    OBVIOUS
  <2>3. current' = Append(Append(Append(current, x), y), z) /\ blocks' = blocks
    BY <1>2, <2>2
  <2>4. current \in Seq(StatementOf(Len(locals)))
    BY TextTypedHolds DEF TextTyped
  <2>5. /\ Len(current') = c + 3
        /\ \A i \in 1 .. c : current'[i] = current[i]
        /\ current'[c + 1] = x /\ current'[c + 2] = y /\ current'[c + 3] = z
    BY <2>1, <2>3, <2>4, AppendThree
  <2>6. /\ Extends
        /\ \E p \in Sites' : \E q \in Sites' : \E r \in Sites' :
             /\ At(p)' = current'[c + 1] /\ At(q)' = current'[c + 2] /\ At(r)' = current'[c + 3]
             /\ Precedes(p, q)
             /\ \A s \in Sites' : s \in Sites \/ s = p \/ s = q \/ s = r
    BY <2>1, <2>3, <2>5, TextThree
  <2> QED BY <2>2, <2>5, <2>6
<1>10. \A q \in Sites' : q \in Sites \/ TypedIn(locals', At(q)')
  BY <1>5, <1>9, TypedInstructions
<1> QED BY <1>2, <1>5, <1>7, <1>8, <1>9, <1>10, EnterTypes

LEMMA TypesInvInit == Init => TypesInv
<1> SUFFICES ASSUME Init PROVE TypesInv
  OBVIOUS
<1>1. blocks = << >> /\ current = << >> /\ frames = << >>
  BY DEF Init
<1>2. Sites = {}
  <2>1. \A b, i : ~IsSite(blocks, current, b, i)
    BY <1>1 DEF IsSite
  <2> QED BY <2>1, TypeOKInit, SitesViewHolds DEF SitesView
<1> QED BY <1>1, <1>2 DEF TypesInv

LEMMA TypesInvNext ==
  TypeOK /\ TypeOK' /\ Prologue /\ TypesInv /\ [Next]_vars => TypesInv'
BY QuietTypes, BeginStructTypes, LetTypes, LowerFieldTypes, BeginPushTypes, LeafTypes,
   CallTypes, FinishTypes DEF Next

(* Whatever the program, well-typed or not, every instruction stores a value *)
(* of the type infer_ty declared its local with, also when the let of an     *)
(* expression shadows a variable the expression reads.                       *)
THEOREM InferredTypesHold == Spec => []DeclaredTypeHolds
<1>1. Init => TypesInv
  BY TypesInvInit
<1>2. TypeOK /\ Prologue /\ TypesInv /\ [Next]_vars => TypesInv'
  BY TypeOKNext, TypesInvNext
<1>3. TypesInv => DeclaredTypeHolds
  BY TypesInvMeans
<1> QED BY <1>1, <1>2, <1>3, TypeCorrect, PTL DEF Spec
=============================================================================
