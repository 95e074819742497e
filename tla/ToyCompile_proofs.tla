-------------------------- MODULE ToyCompile_proofs -------------------------
(***************************************************************************)
(* The compiler is correct on supported functions: the compiled program     *)
(* implements ToyMeaning.                                                   *)
(*                                                                         *)
(* The argument is a trace.  While the lowering writes the text, the proof  *)
(* keeps along with it what memory will hold before each instruction when   *)
(* the function is called with args (History, Reaches), and relates the     *)
(* end of the trace to the meaning of the source up to there (Tracks): the  *)
(* local of a name holds the variable's value, each pending call has what   *)
(* its finished operands mean in its temporaries, and nothing still needed  *)
(* is moved, overwritten or dead.  Each step of build_body, lower_stmt and  *)
(* lower_expr_into writes instructions that run from there.  Once the       *)
(* body is done, the trace shows that it passes ToyChecks, and the machine, *)
(* instruction by instruction, has in memory what the trace says.           *)
(***************************************************************************)
EXTENDS ToyCompile, ToyProgram_proofs, WellFoundedInduction

-----------------------------------------------------------------------------
(* What an instruction does to a memory that has room for every local, and   *)
(* what it needs to find there.                                             *)

Memory(m) == m = [l \in Nat |-> m[l]]
Operand(o, m) == IF o.mode = "const" THEN Machine!Value("i32", o.arg) ELSE m[o.arg]

\* What moving the operands os out leaves uninitialised.
Lost(os, m) == {l \in Nat : m[l].type \notin CopyTypes /\ \E i \in DOMAIN os : os[i] = Move(l)}
Put(m, os, l, v) ==
  [n \in Nat |-> IF n = l THEN v ELSE IF n \in Lost(os, m) THEN Machine!Uninit ELSE m[n]]

Made(s, m) ==
  CASE s.op = "Use"       -> Operand(s.operands[1], m)
    [] s.op = "Ref"       -> Machine!Value("&mutVec", s.operands[1].arg)
    [] s.op = "Aggregate" -> Machine!Value("Point", <<Operand(s.operands[1], m).is, Operand(s.operands[2], m).is>>)
    [] s.op = "Call" /\ s.func = "new"  -> Machine!Value("Vec", << >>)
    [] s.op = "Call" /\ s.func = "push" -> Machine!Unit
    [] s.op = "Call" /\ s.func = "len"  -> Machine!Value("usize", Len(Operand(s.operands[1], m).is))

IsPushCall(s) == s.op = "Call" /\ s.func = "push"

Does(s, m) ==
  IF s.op \in Storage THEN [m EXCEPT ![s.place] = Machine!Uninit]
  ELSE IF s.op = "Return" THEN m
  ELSE IF IsPushCall(s)
    THEN LET vec == Operand(s.operands[1], m).is
         IN [Put(m, s.operands, s.place, Made(s, m)) EXCEPT
               ![vec] = Machine!Value("Vec", Append(m[vec].is, Operand(s.operands[2], m).is))]
  ELSE Put(m, s.operands, s.place, Made(s, m))

\* The locals that a Ref was the last to write.
Refs(s, rs) ==
  IF s.op \in Storage \cup {"Return"} THEN rs
  ELSE IF s.op = "Ref" THEN rs \cup {s.place}
  ELSE rs \ {s.place}

\* A state of a run of f on as, before an instruction: memory and the borrows.
State(m, rs) == [mem |-> m, refs |-> rs]
Do(s, c) == State(Does(s, c.mem), Refs(s, c.refs))
Start(as) ==
  State([l \in Nat |-> IF l \in 1 .. Len(as) THEN as[l] ELSE Machine!Uninit], {})

\* What s reads is there and of the types it takes, and a return is right.
Fit(f, as, s, c) ==
  /\ \A l \in ReadBy(s) : c.mem[l].type # "uninit"
  /\ s.op \notin Storage \cup {"Return"} /\ s.place = 0 => Made(s, c.mem).type = f.output
  /\ s.op = "Ref" => c.mem[s.operands[1].arg].type = "Vec"
  /\ s.op = "Aggregate" => /\ Len(s.operands) = 2
                           /\ \A i \in 1 .. 2 : Operand(s.operands[i], c.mem).type = "i32"
  /\ s.op = "Call" => /\ Len(s.operands) = Len(Inputs(s.func))
                      /\ \A i \in DOMAIN s.operands :
                           Operand(s.operands[i], c.mem).type = Inputs(s.func)[i]
  /\ IsPushCall(s) => LET r == s.operands[1].arg
                      IN r \in c.refs /\ c.mem[c.mem[r].is].type = "Vec"
  /\ s.op = "Return" => IF f.output = "unit" THEN Source!Meaning(f, as) = Machine!Unit
                        ELSE c.mem[0].type # "uninit" /\ c.mem[0] = Source!Meaning(f, as)

-----------------------------------------------------------------------------
(* The states of a run, site by site.                                       *)

SiteAfter(bs, b, i) ==
  IF b <= Len(bs) /\ i = Len(bs[b].statements) + 1 THEN <<b + 1, 1>> ELSE <<b, i + 1>>
EndOf(bs, cur) == <<Len(bs) + 1, Len(cur) + 1>>

\* h has the state before each site of a text that f's run on as passes through.
History(f, as, bs, cur, h) ==
  /\ h[<<1, 1>>] = Start(as)
  /\ \A b, i : IsSite(bs, cur, b, i) =>
       LET s == Instruction(bs, cur, b, i)
       IN Fit(f, as, s, h[<<b, i>>]) /\ h[SiteAfter(bs, b, i)] = Do(s, h[<<b, i>>])

\* The run of f on as gets to the end of the text, in the state c.
Reaches(f, as, bs, cur, c) ==
  \E h : History(f, as, bs, cur, h) /\ h[EndOf(bs, cur)] = c

\* At the beginning.
LEMMA ReachesStart ==
  ASSUME NEW f, NEW as
  PROVE  Reaches(f, as, << >>, << >>, Start(as))
<1> DEFINE h == [p \in Nat \X Nat |-> Start(as)]
<1>1. h[<<1, 1>>] = Start(as)
  OBVIOUS
<1>2. \A b, i : ~IsSite(<< >>, << >>, b, i)
  BY DEF IsSite
<1>3. EndOf(<< >>, << >>) = <<1, 1>>
  BY DEF EndOf
<1> HIDE DEF h
<1> QED BY <1>1, <1>2, <1>3 DEF Reaches, History

\* After one more statement.
LEMMA ReachesStatement ==
  ASSUME NEW f, NEW as, NEW S, NEW T, NEW bs \in Seq(S), NEW cur \in Seq(T), NEW s, NEW c,
         \A b \in 1 .. Len(bs) : Len(bs[b].statements) \in Nat,
         Reaches(f, as, bs, cur, c), Fit(f, as, s, c)
  PROVE  Reaches(f, as, bs, Append(cur, s), Do(s, c))
<1>k. PICK k \in Nat : k = Len(bs)
  OBVIOUS
<1>n. PICK n \in Nat : n = Len(cur)
  OBVIOUS
<1>t. PICK t : t = Append(cur, s)
  OBVIOUS
<1>1. Len(t) = n + 1 /\ t[n + 1] = s /\ \A i \in 1 .. n : t[i] = cur[i]
  BY <1>t, <1>n, AppendOne
<1>2. PICK h : History(f, as, bs, cur, h) /\ h[EndOf(bs, cur)] = c
  BY DEF Reaches
<1> DEFINE D == (Nat \X Nat) \cup {<<b, i>> : b \in Nat, i \in Nat}
           e == <<k + 1, n + 1 + 1>>
           g == [p \in D |-> IF p = e THEN Do(s, c) ELSE h[p]]
<1>3. \A b, i \in Nat : <<b, i>> # e => g[<<b, i>>] = h[<<b, i>>]
  OBVIOUS
<1>4. g[e] = Do(s, c)
  OBVIOUS
<1>5. EndOf(bs, cur) = <<k + 1, n + 1>> /\ EndOf(bs, t) = e
  BY <1>k, <1>n, <1>1 DEF EndOf
<1> HIDE DEF g
<1>6. \A b, i : IsSite(bs, t, b, i) =>
        /\ b \in Nat /\ i \in Nat
        /\ \/ IsSite(bs, cur, b, i) /\ Instruction(bs, t, b, i) = Instruction(bs, cur, b, i)
           \/ b = k + 1 /\ i = n + 1 /\ Instruction(bs, t, b, i) = s
  BY <1>k, <1>n, <1>1 DEF IsSite, Instruction
<1>7. ASSUME NEW b \in Nat, NEW i \in Nat, IsSite(bs, cur, b, i)
      PROVE  /\ <<b, i>> # e /\ SiteAfter(bs, b, i) # e
             /\ \E p, q \in Nat : SiteAfter(bs, b, i) = <<p, q>>
  <2>1. CASE b \in 1 .. k /\ i = Len(bs[b].statements) + 1
    <3>1. SiteAfter(bs, b, i) = <<b + 1, 1>>
      BY <1>k, <2>1 DEF SiteAfter
    <3>2. b + 1 \in Nat /\ <<b + 1, 1>> # e /\ <<b, i>> # e
      BY <1>k, <1>n, <2>1
    <3> QED BY <3>1, <3>2
  <2>2. CASE ~(b \in 1 .. k /\ i = Len(bs[b].statements) + 1)
    <3>1. SiteAfter(bs, b, i) = <<b, i + 1>>
      BY <1>7, <1>k, <2>2 DEF SiteAfter, IsSite
    <3>2. i + 1 \in Nat /\ <<b, i + 1>> # e /\ <<b, i>> # e
      BY <1>7, <1>k, <1>n, <2>2 DEF IsSite
    <3> QED BY <3>1, <3>2
  <2> QED BY <2>1, <2>2
<1>8. SiteAfter(bs, k + 1, n + 1) = e
  BY <1>k, <1>n DEF SiteAfter
<1>9. <<k + 1, n + 1>> # e /\ <<1, 1>> # e
  BY <1>k, <1>n
<1>10. g[<<1, 1>>] = Start(as)
  BY <1>2, <1>3, <1>9 DEF History
<1>11. ASSUME NEW b, NEW i, IsSite(bs, t, b, i)
       PROVE  /\ Fit(f, as, Instruction(bs, t, b, i), g[<<b, i>>])
              /\ g[SiteAfter(bs, b, i)] = Do(Instruction(bs, t, b, i), g[<<b, i>>])
  <2>1. CASE IsSite(bs, cur, b, i) /\ Instruction(bs, t, b, i) = Instruction(bs, cur, b, i)
    <3>1. b \in Nat /\ i \in Nat
      BY <1>6, <1>11
    <3>2. g[<<b, i>>] = h[<<b, i>>] /\ g[SiteAfter(bs, b, i)] = h[SiteAfter(bs, b, i)]
      BY <1>3, <1>7, <2>1, <3>1
    <3> QED BY <1>2, <2>1, <3>2 DEF History
  <2>2. CASE b = k + 1 /\ i = n + 1 /\ Instruction(bs, t, b, i) = s
    <3>1. g[<<b, i>>] = c
      BY <1>2, <1>3, <1>5, <1>9, <2>2
    <3>2. g[SiteAfter(bs, b, i)] = Do(s, c)
      BY <1>4, <1>8, <2>2
    <3> QED BY <2>2, <3>1, <3>2
  <2>3. \/ IsSite(bs, cur, b, i) /\ Instruction(bs, t, b, i) = Instruction(bs, cur, b, i)
        \/ b = k + 1 /\ i = n + 1 /\ Instruction(bs, t, b, i) = s
    BY <1>6, <1>11, Zenon
  <2> QED BY <2>1, <2>2, <2>3, Zenon
<1>12. History(f, as, bs, t, g)
  BY <1>10, <1>11 DEF History
<1> QED BY <1>t, <1>4, <1>5, <1>12 DEF Reaches

\* After the call that ends the block in progress.
LEMMA ReachesTerminator ==
  ASSUME NEW f, NEW as, NEW S, NEW T, NEW bs \in Seq(S), NEW cur \in Seq(T), NEW s, NEW c,
         \A b \in 1 .. Len(bs) : Len(bs[b].statements) \in Nat,
         Reaches(f, as, bs, cur, c), Fit(f, as, s, c)
  PROVE  Reaches(f, as, Append(bs, BasicBlock(cur, s)), << >>, Do(s, c))
<1>k. PICK k \in Nat : k = Len(bs)
  OBVIOUS
<1>n. PICK n \in Nat : n = Len(cur)
  OBVIOUS
<1>t. PICK t : t = Append(bs, BasicBlock(cur, s))
  OBVIOUS
<1>1. Len(t) = k + 1 /\ t[k + 1] = BasicBlock(cur, s) /\ \A i \in 1 .. k : t[i] = bs[i]
  BY <1>t, <1>k, AppendOne
<1>11. t[k + 1].statements = cur /\ t[k + 1].terminator = s
  BY <1>1 DEF BasicBlock
<1>2. PICK h : History(f, as, bs, cur, h) /\ h[EndOf(bs, cur)] = c
  BY DEF Reaches
<1> DEFINE D == Nat \X Nat
           e == <<k + 1 + 1, 1>>
           g == [p \in D |-> IF p = e THEN Do(s, c) ELSE h[p]]
<1>3. \A b, i \in Nat : <<b, i>> # e => g[<<b, i>>] = h[<<b, i>>]
  OBVIOUS
<1>4. g[e] = Do(s, c)
  OBVIOUS
<1>5. EndOf(bs, cur) = <<k + 1, n + 1>> /\ EndOf(t, << >>) = e
  BY <1>k, <1>n, <1>1 DEF EndOf
<1> HIDE DEF g
<1>6. ASSUME NEW b, NEW i, IsSite(t, << >>, b, i)
      PROVE  /\ b \in Nat /\ i \in Nat /\ b \in 1 .. k + 1
             /\ \/ /\ IsSite(bs, cur, b, i) /\ Instruction(t, << >>, b, i) = Instruction(bs, cur, b, i)
                   /\ SiteAfter(t, b, i) = SiteAfter(bs, b, i)
                \/ b = k + 1 /\ i = n + 1 /\ Instruction(t, << >>, b, i) = s
  <2>1. b \in 1 .. k + 1 /\ i \in 1 .. Len(t[b].statements) + 1
    BY <1>6, <1>1 DEF IsSite
  <2>2. CASE b \in 1 .. k
    <3>1. t[b] = bs[b] /\ b # k + 1 /\ b # k + 1 + 1 /\ Len(bs[b].statements) \in Nat
      BY <1>1, <1>k, <2>2
    <3> QED BY <1>k, <1>1, <2>1, <2>2, <3>1 DEF IsSite, Instruction, SiteAfter
  <2>3. CASE b = k + 1
    <3>1. i \in 1 .. n + 1
      BY <1>n, <1>11, <2>1, <2>3
    <3>2. CASE i = n + 1
      <4>1. Instruction(t, << >>, b, i) = s
        BY <1>n, <1>1, <1>11, <1>k, <2>3, <3>2 DEF Instruction
      <4> QED BY <1>k, <1>n, <2>3, <3>2, <4>1
    <3>3. CASE i \in 1 .. n
      <4>1. Instruction(t, << >>, b, i) = cur[i] /\ Instruction(bs, cur, b, i) = cur[i]
        BY <1>k, <1>n, <1>1, <1>11, <2>3, <3>3 DEF Instruction
      <4>2. IsSite(bs, cur, b, i)
        BY <1>k, <1>n, <2>3, <3>3 DEF IsSite
      <4>3. SiteAfter(t, b, i) = <<b, i + 1>> /\ SiteAfter(bs, b, i) = <<b, i + 1>>
        BY <1>k, <1>n, <1>1, <1>11, <2>3, <3>3 DEF SiteAfter
      <4> QED BY <2>1, <3>3, <4>1, <4>2, <4>3
    <3> QED BY <1>n, <3>1, <3>2, <3>3
  <2> QED BY <1>k, <2>1, <2>2, <2>3
<1>7. ASSUME NEW b \in Nat, NEW i \in Nat, IsSite(bs, cur, b, i)
      PROVE  /\ <<b, i>> # e /\ SiteAfter(bs, b, i) # e
             /\ \E p, q \in Nat : SiteAfter(bs, b, i) = <<p, q>>
  <2>1. CASE b \in 1 .. k /\ i = Len(bs[b].statements) + 1
    <3>1. SiteAfter(bs, b, i) = <<b + 1, 1>>
      BY <1>k, <2>1 DEF SiteAfter
    <3>2. b + 1 \in Nat /\ <<b + 1, 1>> # e /\ <<b, i>> # e
      BY <1>k, <1>n, <2>1
    <3> QED BY <3>1, <3>2
  <2>2. CASE ~(b \in 1 .. k /\ i = Len(bs[b].statements) + 1)
    <3>1. SiteAfter(bs, b, i) = <<b, i + 1>>
      BY <1>7, <1>k, <2>2 DEF SiteAfter, IsSite
    <3>2. i + 1 \in Nat /\ <<b, i + 1>> # e /\ <<b, i>> # e
      BY <1>7, <1>k, <1>n, <2>2 DEF IsSite
    <3> QED BY <3>1, <3>2
  <2> QED BY <2>1, <2>2
<1>8. SiteAfter(t, k + 1, n + 1) = e
  BY <1>k, <1>n, <1>1, <1>11 DEF SiteAfter
<1>9. <<k + 1, n + 1>> # e /\ <<1, 1>> # e
  BY <1>k, <1>n
<1>10. g[<<1, 1>>] = Start(as)
  BY <1>2, <1>3, <1>9 DEF History
<1>12. ASSUME NEW b, NEW i, IsSite(t, << >>, b, i)
       PROVE  /\ Fit(f, as, Instruction(t, << >>, b, i), g[<<b, i>>])
              /\ g[SiteAfter(t, b, i)] = Do(Instruction(t, << >>, b, i), g[<<b, i>>])
  <2>1. CASE /\ IsSite(bs, cur, b, i) /\ Instruction(t, << >>, b, i) = Instruction(bs, cur, b, i)
             /\ SiteAfter(t, b, i) = SiteAfter(bs, b, i)
    <3>1. b \in Nat /\ i \in Nat
      BY <1>6, <1>12
    <3>2. g[<<b, i>>] = h[<<b, i>>] /\ g[SiteAfter(bs, b, i)] = h[SiteAfter(bs, b, i)]
      BY <1>3, <1>7, <2>1, <3>1
    <3> QED BY <1>2, <2>1, <3>2 DEF History
  <2>2. CASE b = k + 1 /\ i = n + 1 /\ Instruction(t, << >>, b, i) = s
    <3>1. g[<<b, i>>] = c
      BY <1>2, <1>3, <1>5, <1>9, <2>2
    <3>2. g[SiteAfter(t, b, i)] = Do(s, c)
      BY <1>4, <1>8, <2>2
    <3> QED BY <2>2, <3>1, <3>2
  <2>3. \/ /\ IsSite(bs, cur, b, i) /\ Instruction(t, << >>, b, i) = Instruction(bs, cur, b, i)
           /\ SiteAfter(t, b, i) = SiteAfter(bs, b, i)
        \/ b = k + 1 /\ i = n + 1 /\ Instruction(t, << >>, b, i) = s
    BY <1>6, <1>12, Zenon
  <2> QED BY <2>1, <2>2, <2>3, Zenon
<1>13. History(f, as, t, << >>, g)
  BY <1>10, <1>12 DEF History
<1> QED BY <1>t, <1>4, <1>5, <1>13 DEF Reaches

\* From memory m and borrows rs, s may run, and leaves m2 and rs2.
Runs(f, as, s, m, rs, m2, rs2) ==
  Fit(f, as, s, State(m, rs)) /\ m2 = Does(s, m) /\ rs2 = Refs(s, rs) /\ Memory(m2)

OnlyAt(m, m2, l, v) == \A n \in Nat : m2[n] = IF n = l THEN v ELSE m[n]
Moves(m, m2, d, v) ==
  \A n \in Nat : m2[n] = IF n = d THEN m[v]
                        ELSE IF n = v /\ m[v].type \notin CopyTypes THEN Machine!Uninit
                        ELSE m[n]
Pushes(m, m2, d, r, a, v) ==
  \A n \in Nat : m2[n] = IF n = v THEN Machine!Value("Vec", Append(m[v].is, m[a].is))
                        ELSE IF n = d THEN Machine!Unit
                        ELSE IF n \in {r, a} THEN Machine!Uninit
                        ELSE m[n]

-----------------------------------------------------------------------------
(* The instructions the lowering writes, form by form.                      *)

\* StorageLive and StorageDead leave a local without a value.
LEMMA DoStorage ==
  ASSUME NEW f, NEW as, NEW m, Memory(m), NEW rs, NEW l \in Nat, NEW s \in {StorageLive(l), StorageDead(l)}
  PROVE  \E m2 : Runs(f, as, s, m, rs, m2, rs) /\ OnlyAt(m, m2, l, Machine!Uninit)
<1>1. s.op \in Storage /\ s.place = l /\ s.operands = << >>
  BY DEF StorageLive, StorageDead, Storage
<1>2. s.op \notin {"Ref", "Aggregate", "Call", "Return"} /\ ReadBy(s) = {}
  BY <1>1 DEF Storage, ReadBy
<1>3. Fit(f, as, s, State(m, rs)) /\ Refs(s, rs) = rs
  BY <1>1, <1>2 DEF Fit, Refs, IsPushCall
<1>4. Does(s, m) = [m EXCEPT ![l] = Machine!Uninit]
  BY <1>1 DEF Does
<1>5. Does(s, m) = [n \in Nat |-> IF n = l THEN Machine!Uninit ELSE m[n]]
  BY <1>4 DEF Memory
<1>z. /\ Fit(f, as, s, State(m, rs)) /\ Refs(s, rs) = rs
      /\ Memory(Does(s, m))
      /\ \A n \in Nat : Does(s, m)[n] = IF n = l THEN Machine!Uninit ELSE m[n]
  BY <1>3, <1>5 DEF Memory
<1> QED BY <1>z DEF Runs, OnlyAt

\* Put, when no operand is moved out of a type that is not Copy.
LEMMA PutOne ==
  ASSUME NEW m, NEW os, NEW l \in Nat, NEW v, Lost(os, m) = {}
  PROVE  /\ Memory(Put(m, os, l, v))
         /\ \A n \in Nat : Put(m, os, l, v)[n] = IF n = l THEN v ELSE m[n]
<1>1. Put(m, os, l, v) = [n \in Nat |-> IF n = l THEN v ELSE m[n]]
  BY DEF Put
<1> QED BY <1>1 DEF Memory

\* A constant is stored.
LEMMA DoConst ==
  ASSUME NEW f, NEW as, NEW m, Memory(m), NEW rs, NEW d \in Nat, NEW c, NEW s, s = Use(d, Const(c)),
         d = 0 => f.output = "i32"
  PROVE  \E m2 : Runs(f, as, s, m, rs, m2, rs \ {d}) /\ OnlyAt(m, m2, d, Machine!Value("i32", c))
<1>1. /\ s.op = "Use" /\ s.place = d /\ s.operands = <<Const(c)>>
      /\ s.operands[1].mode = "const" /\ s.operands[1].arg = c /\ Len(s.operands) = 1
  BY DEF Use, Const
<1>2. ReadBy(s) = {}
  BY <1>1 DEF ReadBy
<1>3. s.op \notin Storage \cup {"Return", "Ref", "Aggregate", "Call"}
  BY <1>1 DEF Storage
<1>4. Made(s, m) = Machine!Value("i32", c) /\ Made(s, m).type = "i32"
  BY <1>1 DEF Made, Operand, Machine!Value
<1>5. State(m, rs).mem = m
  BY DEF State
<1>6. Fit(f, as, s, State(m, rs)) /\ Refs(s, rs) = rs \ {d}
  BY <1>1, <1>2, <1>3, <1>4, <1>5 DEF Fit, Refs, IsPushCall
<1>7. Does(s, m) = Put(m, s.operands, d, Machine!Value("i32", c))
  BY <1>1, <1>3, <1>4 DEF Does, IsPushCall
<1>8. Lost(s.operands, m) = {}
  <2>1. \A l : Const(c) # Move(l)
    BY DEF Const, Move
  <2> QED BY <1>1, <2>1 DEF Lost
<1>z. /\ Fit(f, as, s, State(m, rs)) /\ Refs(s, rs) = rs \ {d}
      /\ Memory(Does(s, m))
      /\ \A n \in Nat : Does(s, m)[n] = IF n = d THEN Machine!Value("i32", c) ELSE m[n]
  BY <1>6, <1>7, <1>8, PutOne
<1> QED BY <1>z DEF Runs, OnlyAt

\* A local is moved to another.
LEMMA DoMove ==
  ASSUME NEW f, NEW as, NEW m, Memory(m), NEW rs, NEW d \in Nat, NEW v \in Nat, NEW s, s = Use(d, Move(v)),
         m[v].type # "uninit", d = 0 => f.output = m[v].type
  PROVE  \E m2 : Runs(f, as, s, m, rs, m2, rs \ {d}) /\ Moves(m, m2, d, v)
<1>1. /\ s.op = "Use" /\ s.place = d /\ s.operands = <<Move(v)>>
      /\ s.operands[1].mode = "move" /\ s.operands[1].arg = v /\ Len(s.operands) = 1
  BY DEF Use, Move
<1>2. ReadBy(s) = {v}
  BY <1>1 DEF ReadBy
<1>3. s.op \notin Storage \cup {"Return", "Ref", "Aggregate", "Call"}
  BY <1>1 DEF Storage
<1>4. Made(s, m) = m[v]
  BY <1>1 DEF Made, Operand
<1>5. State(m, rs).mem = m
  BY DEF State
<1>6. Fit(f, as, s, State(m, rs)) /\ Refs(s, rs) = rs \ {d}
  BY <1>1, <1>2, <1>3, <1>4, <1>5 DEF Fit, Refs, IsPushCall
<1>7. Does(s, m) = Put(m, s.operands, d, m[v])
  BY <1>1, <1>3, <1>4 DEF Does, IsPushCall
<1>8. \A n \in Nat : n \in Lost(s.operands, m) <=> n = v /\ m[v].type \notin CopyTypes
  <2>1. \A l : Move(v) = Move(l) <=> l = v
    BY DEF Move
  <2>2. DOMAIN s.operands = {1} /\ s.operands[1] = Move(v)
    BY <1>1
  <2> QED BY <2>1, <2>2 DEF Lost
<1>9. Does(s, m) = [n \in Nat |-> IF n = d THEN m[v] ELSE IF n \in Lost(s.operands, m) THEN Machine!Uninit ELSE m[n]]
  BY <1>7 DEF Put
<1>10. Memory(Does(s, m))
  BY <1>9 DEF Memory
<1>z. /\ Fit(f, as, s, State(m, rs)) /\ Refs(s, rs) = rs \ {d}
      /\ Memory(Does(s, m))
      /\ \A n \in Nat : Does(s, m)[n] = IF n = d THEN m[v]
                                        ELSE IF n = v /\ m[v].type \notin CopyTypes THEN Machine!Uninit
                                        ELSE m[n]
  BY <1>6, <1>8, <1>9, <1>10
<1> QED BY <1>z DEF Runs, Moves

\* A Vec is borrowed, mutably.
LEMMA DoRef ==
  ASSUME NEW f, NEW as, NEW m, Memory(m), NEW rs, NEW d \in Nat, NEW v \in Nat, NEW s, s = Ref(d, v),
         m[v].type = "Vec", d # 0
  PROVE  \E m2 : Runs(f, as, s, m, rs, m2, rs \cup {d}) /\ OnlyAt(m, m2, d, Machine!Value("&mutVec", v))
<1>1. /\ s.op = "Ref" /\ s.place = d /\ s.operands = <<Borrow(v)>>
      /\ s.operands[1].mode = "borrow" /\ s.operands[1].arg = v /\ Len(s.operands) = 1
  BY DEF Ref, Borrow
<1>2. ReadBy(s) = {v}
  BY <1>1 DEF ReadBy
<1>3. s.op \notin Storage \cup {"Return", "Use", "Aggregate", "Call"}
  BY <1>1 DEF Storage
<1>4. Made(s, m) = Machine!Value("&mutVec", v)
  BY <1>1 DEF Made
<1>5. State(m, rs).mem = m
  BY DEF State
<1>6. Fit(f, as, s, State(m, rs)) /\ Refs(s, rs) = rs \cup {d}
  BY <1>1, <1>2, <1>3, <1>5 DEF Fit, Refs, IsPushCall
<1>7. Does(s, m) = Put(m, s.operands, d, Machine!Value("&mutVec", v))
  BY <1>1, <1>3, <1>4 DEF Does, IsPushCall
<1>8. Lost(s.operands, m) = {}
  <2>1. \A l : Borrow(v) # Move(l)
    BY DEF Borrow, Move
  <2> QED BY <1>1, <2>1 DEF Lost
<1>z. /\ Fit(f, as, s, State(m, rs)) /\ Refs(s, rs) = rs \cup {d}
      /\ Memory(Does(s, m))
      /\ \A n \in Nat : Does(s, m)[n] = IF n = d THEN Machine!Value("&mutVec", v) ELSE m[n]
  BY <1>6, <1>7, <1>8, PutOne
<1> QED BY <1>z DEF Runs, OnlyAt

\* A point is made of two numbers, which stay where they are.
LEMMA DoAggregate ==
  ASSUME NEW f, NEW as, NEW m, Memory(m), NEW rs, NEW d \in Nat, NEW ts, ts[1] \in Nat, ts[2] \in Nat,
         NEW s, s = Aggregate(d, [i \in 1 .. 2 |-> Move(ts[i])]),
         m[ts[1]].type = "i32", m[ts[2]].type = "i32", d = 0 => f.output = "Point"
  PROVE  \E m2 : Runs(f, as, s, m, rs, m2, rs \ {d}) /\ OnlyAt(m, m2, d, Machine!Value("Point", <<m[ts[1]].is, m[ts[2]].is>>))
<1> DEFINE os == [i \in 1 .. 2 |-> Move(ts[i])]
<1>1. s.op = "Aggregate" /\ s.place = d /\ s.operands = os
  BY DEF Aggregate
<1>2. /\ DOMAIN os = {1, 2} /\ os[1] = Move(ts[1]) /\ os[2] = Move(ts[2])
      /\ Len(os) = 2
  OBVIOUS
<1>3. /\ os[1].mode = "move" /\ os[1].arg = ts[1] /\ os[2].mode = "move" /\ os[2].arg = ts[2]
  BY <1>2 DEF Move
<1> HIDE DEF os
<1>4. ReadBy(s) = {ts[1], ts[2]}
  BY <1>1, <1>2, <1>3 DEF ReadBy
<1>5. s.op \notin Storage \cup {"Return", "Use", "Ref", "Call"}
  BY <1>1 DEF Storage
<1>6. Operand(os[1], m) = m[ts[1]] /\ Operand(os[2], m) = m[ts[2]]
  BY <1>3 DEF Operand
<1>7. Made(s, m) = Machine!Value("Point", <<m[ts[1]].is, m[ts[2]].is>>)
  BY <1>1, <1>6 DEF Made
<1>8. Made(s, m).type = "Point"
  BY <1>7 DEF Machine!Value
<1>9. State(m, rs).mem = m
  BY DEF State
<1>10. \A l \in ReadBy(s) : m[l].type # "uninit"
  BY <1>4
<1>11. \A i \in 1 .. 2 : Operand(os[i], m).type = "i32"
  <2>1. \A i \in 1 .. 2 : i = 1 \/ i = 2
    OBVIOUS
  <2> QED BY <1>6, <2>1
<1>12. Fit(f, as, s, State(m, rs)) /\ Refs(s, rs) = rs \ {d}
  BY <1>1, <1>2, <1>5, <1>8, <1>9, <1>10, <1>11 DEF Fit, Refs, IsPushCall
<1>13. Does(s, m) = Put(m, os, d, Machine!Value("Point", <<m[ts[1]].is, m[ts[2]].is>>))
  BY <1>1, <1>5, <1>7 DEF Does, IsPushCall
<1>14. Lost(os, m) = {}
  <2>1. \A l : Move(ts[1]) = Move(l) => l = ts[1]
    BY DEF Move
  <2>2. \A l : Move(ts[2]) = Move(l) => l = ts[2]
    BY DEF Move
  <2> QED BY <1>2, <2>1, <2>2 DEF Lost, CopyTypes
<1>z. /\ Fit(f, as, s, State(m, rs)) /\ Refs(s, rs) = rs \ {d}
      /\ Memory(Does(s, m))
      /\ \A n \in Nat : Does(s, m)[n] =
           IF n = d THEN Machine!Value("Point", <<m[ts[1]].is, m[ts[2]].is>>) ELSE m[n]
  BY <1>12, <1>13, <1>14, PutOne
<1> QED BY <1>z DEF Runs, OnlyAt

\* Vec::new makes an empty Vec.
LEMMA DoNew ==
  ASSUME NEW f, NEW as, NEW m, Memory(m), NEW rs, NEW d \in Nat, NEW t,
         NEW s, s = Call("new", << >>, d, t), d = 0 => f.output = "Vec"
  PROVE  \E m2 : Runs(f, as, s, m, rs, m2, rs \ {d}) /\ OnlyAt(m, m2, d, Machine!Value("Vec", << >>))
<1>1. s.op = "Call" /\ s.func = "new" /\ s.place = d /\ s.operands = << >>
  BY DEF Call
<1>2. ReadBy(s) = {}
  BY <1>1 DEF ReadBy
<1>3. s.op \notin Storage \cup {"Return", "Use", "Ref", "Aggregate"}
  BY <1>1 DEF Storage
<1>4. Made(s, m) = Machine!Value("Vec", << >>) /\ ~IsPushCall(s)
  BY <1>1 DEF Made, IsPushCall
<1>5. Made(s, m).type = "Vec"
  BY <1>4 DEF Machine!Value
<1>6. State(m, rs).mem = m /\ Len(Inputs(s.func)) = 0 /\ Len(s.operands) = 0 /\ DOMAIN s.operands = {}
  BY <1>1 DEF State, Inputs
<1>7. Fit(f, as, s, State(m, rs))
  BY <1>1, <1>2, <1>3, <1>4, <1>5, <1>6 DEF Fit
<1>8. Refs(s, rs) = rs \ {d}
  BY <1>1, <1>3 DEF Refs
<1> DEFINE v == Machine!Value("Vec", << >>)
<1>9. Does(s, m) = Put(m, s.operands, d, v)
  BY <1>1, <1>3, <1>4 DEF Does
<1>10. Lost(s.operands, m) = {}
  BY <1>1 DEF Lost
<1> HIDE DEF v
<1>11. /\ Memory(Put(m, s.operands, d, v))
       /\ \A n \in Nat : Put(m, s.operands, d, v)[n] = IF n = d THEN v ELSE m[n]
  BY <1>10, PutOne
<1>z. /\ Fit(f, as, s, State(m, rs)) /\ Refs(s, rs) = rs \ {d}
      /\ Memory(Does(s, m))
      /\ \A n \in Nat : Does(s, m)[n] = IF n = d THEN Machine!Value("Vec", << >>) ELSE m[n]
  BY <1>7, <1>8, <1>9, <1>11 DEF v
<1> QED BY <1>z DEF Runs, OnlyAt

\* len is called on an &Vec.
LEMMA DoLen ==
  ASSUME NEW f, NEW as, NEW m, Memory(m), NEW rs, NEW d \in Nat, NEW v \in Nat, NEW t,
         NEW s, s = Call("len", <<Copy(v)>>, d, t), m[v].type = "&Vec", d = 0 => f.output = "usize"
  PROVE  \E m2 : Runs(f, as, s, m, rs, m2, rs \ {d}) /\ OnlyAt(m, m2, d, Machine!Value("usize", Len(m[v].is)))
<1>1. /\ s.op = "Call" /\ s.func = "len" /\ s.place = d /\ s.operands = <<Copy(v)>>
      /\ s.operands[1].mode = "copy" /\ s.operands[1].arg = v /\ Len(s.operands) = 1
      /\ DOMAIN s.operands = {1}
  BY DEF Call, Copy
<1>2. ReadBy(s) = {v}
  BY <1>1 DEF ReadBy
<1>3. s.op \notin Storage \cup {"Return", "Use", "Ref", "Aggregate"}
  BY <1>1 DEF Storage
<1>4. Operand(s.operands[1], m) = m[v]
  BY <1>1 DEF Operand
<1>5. Made(s, m) = Machine!Value("usize", Len(m[v].is)) /\ ~IsPushCall(s)
  BY <1>1, <1>4 DEF Made, IsPushCall
<1>6. Made(s, m).type = "usize"
  BY <1>5 DEF Machine!Value
<1>7. State(m, rs).mem = m /\ Len(Inputs("len")) = 1 /\ Inputs("len")[1] = "&Vec"
  BY DEF State, Inputs
<1>8. Fit(f, as, s, State(m, rs)) /\ Refs(s, rs) = rs \ {d}
  BY <1>1, <1>2, <1>3, <1>4, <1>5, <1>6, <1>7 DEF Fit, Refs
<1> DEFINE u == Machine!Value("usize", Len(m[v].is))
<1>9. Does(s, m) = Put(m, s.operands, d, u)
  BY <1>1, <1>3, <1>5 DEF Does
<1>10. Lost(s.operands, m) = {}
  <2>1. \A l : Copy(v) # Move(l)
    BY DEF Copy, Move
  <2> QED BY <1>1, <2>1 DEF Lost
<1> HIDE DEF u
<1>11. /\ Memory(Put(m, s.operands, d, u))
       /\ \A n \in Nat : Put(m, s.operands, d, u)[n] = IF n = d THEN u ELSE m[n]
  BY <1>10, PutOne
<1>z. /\ Fit(f, as, s, State(m, rs)) /\ Refs(s, rs) = rs \ {d}
      /\ Memory(Does(s, m))
      /\ \A n \in Nat : Does(s, m)[n] = IF n = d THEN Machine!Value("usize", Len(m[v].is)) ELSE m[n]
  BY <1>8, <1>9, <1>11 DEF u
<1> QED BY <1>z DEF Runs, OnlyAt

\* A push through the borrow in r of the Vec in v.
LEMMA DoPush ==
  ASSUME NEW f, NEW as, NEW m, Memory(m), NEW rs, NEW d \in Nat, NEW r \in rs, r \in Nat, NEW a \in Nat,
         NEW t, NEW v \in Nat, NEW s, s = Call("push", <<Move(r), Move(a)>>, d, t),
         m[r] = Machine!Value("&mutVec", v), m[v].type = "Vec", m[a].type = "Point",
         d = 0 => f.output = "unit"
  PROVE  \E m2 : Runs(f, as, s, m, rs, m2, rs \ {d}) /\ Pushes(m, m2, d, r, a, v)
<1>1. /\ s.op = "Call" /\ s.func = "push" /\ s.place = d /\ s.operands = <<Move(r), Move(a)>>
      /\ s.operands[1] = Move(r) /\ s.operands[2] = Move(a) /\ Len(s.operands) = 2
      /\ DOMAIN s.operands = {1, 2}
  BY DEF Call
<1>2. /\ s.operands[1].mode = "move" /\ s.operands[1].arg = r
      /\ s.operands[2].mode = "move" /\ s.operands[2].arg = a
  BY <1>1 DEF Move
<1>3. s.op \notin Storage \cup {"Return", "Use", "Ref", "Aggregate"} /\ IsPushCall(s)
  BY <1>1 DEF Storage, IsPushCall
<1>4. ReadBy(s) = {r, a}
  BY <1>1, <1>2 DEF ReadBy
<1>5. Operand(s.operands[1], m) = m[r] /\ Operand(s.operands[2], m) = m[a]
  BY <1>2 DEF Operand
<1>6. m[r].type = "&mutVec" /\ m[r].is = v
  BY DEF Machine!Value
<1>7. Made(s, m) = Machine!Unit /\ Made(s, m).type = "unit"
  BY <1>1 DEF Made, Machine!Unit, Machine!Value
<1>8. /\ State(m, rs).mem = m /\ State(m, rs).refs = rs
      /\ Len(Inputs("push")) = 2 /\ Inputs("push")[1] = "&mutVec" /\ Inputs("push")[2] = "Point"
  BY DEF State, Inputs
<1>9. \A i \in DOMAIN s.operands : Operand(s.operands[i], m).type = Inputs("push")[i]
  BY <1>1, <1>5, <1>6, <1>8
<1>10. \A l \in ReadBy(s) : m[l].type # "uninit"
  BY <1>4, <1>6
<1>11. Fit(f, as, s, State(m, rs))
  BY <1>1, <1>2, <1>3, <1>6, <1>7, <1>8, <1>9, <1>10 DEF Fit
<1>12. Refs(s, rs) = rs \ {d}
  BY <1>1, <1>3 DEF Refs
<1>13. \A n \in Nat : n \in Lost(s.operands, m) <=> n \in {r, a}
  <2>1. \A l : (Move(r) = Move(l) <=> l = r) /\ (Move(a) = Move(l) <=> l = a)
    BY DEF Move
  <2> QED BY <1>1, <1>6, <2>1 DEF Lost, CopyTypes
<1> DEFINE P == Put(m, s.operands, d, Machine!Unit)
           new == Machine!Value("Vec", Append(m[v].is, m[a].is))
<1>14. P = [n \in Nat |-> IF n = d THEN Machine!Unit ELSE IF n \in Lost(s.operands, m) THEN Machine!Uninit ELSE m[n]]
  BY DEF Put
<1> HIDE DEF P, new
<1>15. Does(s, m) = [P EXCEPT ![v] = new]
  BY <1>1, <1>3, <1>5, <1>6, <1>7 DEF Does, P, new
<1>16. Does(s, m) = [n \in Nat |-> IF n = v THEN new ELSE P[n]]
  BY <1>14, <1>15
<1>17. Memory(Does(s, m))
  BY <1>16 DEF Memory
<1>18. \A n \in Nat : Does(s, m)[n] = IF n = v THEN new ELSE IF n = d THEN Machine!Unit
                                       ELSE IF n \in {r, a} THEN Machine!Uninit ELSE m[n]
  BY <1>13, <1>14, <1>16
<1>z. /\ Fit(f, as, s, State(m, rs)) /\ Refs(s, rs) = rs \ {d}
      /\ Memory(Does(s, m))
      /\ \A n \in Nat : Does(s, m)[n] =
           IF n = v THEN Machine!Value("Vec", Append(m[v].is, m[a].is))
           ELSE IF n = d THEN Machine!Unit
           ELSE IF n \in {r, a} THEN Machine!Uninit
           ELSE m[n]
  BY <1>11, <1>12, <1>17, <1>18 DEF new
<1> QED BY <1>z DEF Runs, Pushes

\* A set of naturals has a first element.
LEMMA FirstOf ==
  ASSUME NEW S, S \subseteq Nat, S # {}
  PROVE  \E p \in S : \A o \in S : p <= o
<1> DEFINE R == OpToRel(<, Nat)
<1>1. \A x, y \in Nat : x < y => <<x, y>> \in R
  BY DEF OpToRel
<1>2. IsWellFoundedOn(R, Nat)
  BY NatLessThanWellFounded
<1> HIDE DEF R
<1>3. PICK p \in S : \A o \in S : ~(<<o, p>> \in R)
  BY <1>2, WFMin
<1>4. \A o \in S : ~(o < p)
  BY <1>1, <1>3
<1> QED BY <1>4

\* h lists the variables after each of the first n statements.
Lists(h, f, as, n) ==
  h = [i \in 0 .. n |-> IF i = 0 THEN Source!Entered(f, as) ELSE Source!Onward(f.stmts[i], h[i - 1])]

\* What is listed up to n can be listed up to n + 1.
LEMMA ListsOn ==
  ASSUME NEW f, NEW as, NEW n \in Nat, NEW h, Lists(h, f, as, n)
  PROVE  \E g : Lists(g, f, as, n + 1)
<1> DEFINE V == IF n + 1 = 0 THEN Source!Entered(f, as) ELSE Source!Onward(f.stmts[n + 1], h[n])
           g == [i \in 0 .. n + 1 |-> IF i = n + 1 THEN V ELSE h[i]]
           W(i) == IF i = 0 THEN Source!Entered(f, as) ELSE Source!Onward(f.stmts[i], g[i - 1])
<1>1. \A i \in 0 .. n : h[i] = IF i = 0 THEN Source!Entered(f, as) ELSE Source!Onward(f.stmts[i], h[i - 1])
  BY DEF Lists
<1>2. \A i \in 0 .. n : i # n + 1 /\ i \in 0 .. n + 1 /\ (i # 0 => i - 1 \in 0 .. n)
  OBVIOUS
<1>3. \A i \in 0 .. n : g[i] = h[i]
  BY <1>2
<1>4. n + 1 # 0 /\ (n + 1) - 1 = n /\ n \in 0 .. n /\ n + 1 \in 0 .. n + 1
  OBVIOUS
<1>41. g[n + 1] = V
  BY <1>4, Zenon
<1>5. \A i \in 0 .. n + 1 : i \in 0 .. n \/ i = n + 1
  OBVIOUS
<1> HIDE DEF g
<1>6. \A i \in 0 .. n : g[i] = W(i)
  BY <1>1, <1>2, <1>3
<1>7. g[n + 1] = W(n + 1)
  BY <1>3, <1>4, <1>41
<1>8. \A i \in 0 .. n + 1 : g[i] = W(i)
  BY <1>5, <1>6, <1>7
<1>9. g = [i \in 0 .. n + 1 |-> g[i]]
  BY DEF g
<1>10. g = [i \in 0 .. n + 1 |-> W(i)]
  BY <1>8, <1>9
<1> QED BY <1>10 DEF Lists

\* The table of variables exists for any number of statements.
LEMMA ListsExist ==
  ASSUME NEW f, NEW as
  PROVE  \A n \in Nat : \E h : Lists(h, f, as, n)
<1> DEFINE S == {n \in Nat : ~\E h : Lists(h, f, as, n)}
<1> SUFFICES ASSUME S # {} PROVE FALSE
  OBVIOUS
<1>1. PICK p \in S : \A o \in S : p <= o
  BY FirstOf
<1>2. CASE p = 0
  <2> DEFINE h == [i \in 0 .. 0 |-> Source!Entered(f, as)]
  <2>1. h = [i \in 0 .. 0 |-> IF i = 0 THEN Source!Entered(f, as) ELSE Source!Onward(f.stmts[i], h[i - 1])]
    OBVIOUS
  <2>2. Lists(h, f, as, 0)
    BY <2>1 DEF Lists
  <2> QED BY <1>2, <2>2
<1>3. CASE p # 0
  <2>0. p \in Nat
    OBVIOUS
  <2> HIDE DEF S
  <2>1. p - 1 \in Nat /\ p - 1 \notin S /\ (p - 1) + 1 = p
    BY <1>1, <1>3, <2>0
  <2> USE DEF S
  <2>2. PICK h : Lists(h, f, as, p - 1)
    BY <2>1
  <2> QED BY <2>1, <2>2, ListsOn
<1> QED BY <1>2, <1>3

\* What After lists.
LEMMA AfterIs ==
  ASSUME NEW f, Len(f.stmts) \in Nat, NEW as
  PROVE  /\ Source!After(f, as)[0] = Source!Entered(f, as)
         /\ \A i \in 1 .. Len(f.stmts) :
              Source!After(f, as)[i] = Source!Onward(f.stmts[i], Source!After(f, as)[i - 1])
<1> DEFINE A == Source!After(f, as)
           N == Len(f.stmts)
<1>1. A = CHOOSE h : Lists(h, f, as, N)
  BY DEF Source!After, Lists
<1>2. \E h : Lists(h, f, as, N)
  BY ListsExist
<1> HIDE DEF A
<1>3. Lists(A, f, as, N)
  BY <1>1, <1>2
<1>4. \A i \in 0 .. N : A[i] = IF i = 0 THEN Source!Entered(f, as) ELSE Source!Onward(f.stmts[i], A[i - 1])
  BY <1>3 DEF Lists
<1>5. \A i \in 1 .. N : i \in 0 .. N /\ i # 0
  OBVIOUS
<1>6. 0 \in 0 .. N
  OBVIOUS
<1> QED BY <1>4, <1>5, <1>6 DEF A

\* The argument a name stands for on entry, if it is a parameter.
ArgOf(f, as, x) ==
  LET ps == {p \in 1 .. Len(f.params) : f.params[p] = x}
  IN IF ps = {} THEN Source!None ELSE as[CHOOSE p \in ps : \A q \in ps : q <= p]

\* The variables once the result r has been given the name x.
Named(r, x) == [r.env EXCEPT ![x] = r.value]

Flag(a) == a.ok = TRUE \/ a.ok = FALSE

\* The records of Entered and of Onward, field by field.
LEMMA EnteredIs ==
  ASSUME NEW f, NEW as
  PROVE  /\ Flag(Source!Entered(f, as))
         /\ Source!Entered(f, as).ok = TRUE => Len(f.params) = Len(f.inputs)
         /\ Source!Entered(f, as).env = [x \in Names |-> ArgOf(f, as, x)]
<1> DEFINE E == [x \in Names |-> ArgOf(f, as, x)]
           c == (Len(f.params) = Len(f.inputs))
<1>1. Source!Entered(f, as) = [ok |-> c, env |-> E]
  BY DEF Source!Entered, ArgOf
<1> HIDE DEF c, E
<1>2. Source!Entered(f, as).ok = c /\ Source!Entered(f, as).env = E
  BY <1>1
<1>3. (c = TRUE \/ c = FALSE) /\ (c = TRUE => Len(f.params) = Len(f.inputs))
  BY DEF c
<1> QED BY <1>2, <1>3, Zenon DEF E, Flag

\* What the expression of statement s gives, and what it makes of the variables.
Given(s, before) == Source!Eval(s.expr, before.env)

\* What a statement does, when the statements before it have a value.
LEMMA OnwardIs ==
  ASSUME NEW s, NEW before, Flag(before)
  PROVE  /\ Flag(Source!Onward(s, before))
         /\ Source!Onward(s, before).ok = TRUE => before.ok = TRUE /\ Given(s, before).value.type # "none"
         /\ s.k = "Let" => Source!Onward(s, before).env = Named(Given(s, before), s.name)
         /\ s.k # "Let" => Source!Onward(s, before).env = Given(s, before).env
<1> DEFINE r == Given(s, before)
           n == Source!Onward(s, before)
<1> DEFINE c == (before.ok /\ r.value.type # "none")
           E == IF s.k = "Let" THEN Named(r, s.name) ELSE r.env
<1>1. n = [ok |-> c, env |-> E]
  BY DEF Source!Onward, Given, Named
<1> HIDE DEF c, E, r, n
<1>2. n.ok = c /\ n.env = E
  BY <1>1
<1>3. (c = TRUE \/ c = FALSE) /\ (c = TRUE => before.ok = TRUE /\ r.value.type # "none")
  BY DEF c, Flag
<1>4. (s.k = "Let" => E = Named(r, s.name)) /\ (s.k # "Let" => E = r.env)
  BY DEF E
<1> QED BY <1>2, <1>3, <1>4, Zenon DEF r, n, Flag

\* The variables after the first i statements.
EnvAfter(f, as, i) == Source!After(f, as)[i].env

\* What it takes for a function to mean something.
Sense(f, as) ==
  /\ f.point /\ Len(f.params) = Len(f.inputs)
  /\ EnvAfter(f, as, 0) = [x \in Names |-> ArgOf(f, as, x)]
  /\ \A i \in 1 .. Len(f.stmts) :
       LET s == f.stmts[i]
           r == Source!Eval(s.expr, EnvAfter(f, as, i - 1))
       IN /\ r.value.type # "none"
          /\ s.k = "Let" => EnvAfter(f, as, i) = Named(r, s.name)
          /\ s.k # "Let" => EnvAfter(f, as, i) = r.env
  /\ Source!Meaning(f, as).type = f.output
  /\ f.ret # << >> => Source!Eval(f.ret[1], EnvAfter(f, as, Len(f.stmts))).value = Source!Meaning(f, as)
  /\ f.ret = << >> => Source!Meaning(f, as) = Machine!Unit

\* A function that means something makes sense, statement by statement.
LEMMA MeaningSense ==
  ASSUME NEW f, Len(f.stmts) \in Nat, f.point \in BOOLEAN, NEW as, Source!Meaningful(f, as)
  PROVE  Sense(f, as)
<1> DEFINE A == Source!After(f, as)
           N == Len(f.stmts)
           v == IF f.ret = << >> THEN Source!Value("unit", 0) ELSE Source!Eval(f.ret[1], A[N].env).value
<1>n. PICK n \in Nat : n = N
  OBVIOUS
<1>1. /\ A[0] = Source!Entered(f, as)
      /\ \A i \in 1 .. n : A[i] = Source!Onward(f.stmts[i], A[i - 1])
  BY <1>n, AfterIs
<1>2. Source!Meaning(f, as) = IF A[N].ok /\ f.point /\ v.type = f.output THEN v ELSE Source!None
  BY DEF Source!Meaning
<1> HIDE DEF A, v
<1>b. \A i \in 0 .. n : Flag(A[i])
  <2> SUFFICES ASSUME NEW i \in 0 .. n PROVE Flag(A[i])
    OBVIOUS
  <2>1. CASE i = 0
    <3>1. Flag(Source!Entered(f, as)) /\ A[i] = Source!Entered(f, as)
      BY <1>1, <2>1, EnteredIs, Zenon
    <3> QED BY <3>1, Zenon
  <2>2. CASE i # 0
    <3>1. i \in 1 .. n
      BY <2>2
    <3>2. PICK b : b = A[i - 1]
      OBVIOUS
    <3>3. PICK s : s = f.stmts[i]
      OBVIOUS
    <3>4. Flag(Source!Onward(s, b))
      BY DEF Source!Onward, Flag
    <3> QED BY <1>1, <3>1, <3>2, <3>3, <3>4
  <2> QED BY <2>1, <2>2
<1>3. A[n].ok = TRUE /\ f.point = TRUE /\ v.type = f.output /\ Source!Meaning(f, as) = v
  <2>1. n \in 0 .. n
    OBVIOUS
  <2> QED BY <1>2, <1>n, <1>b, <2>1 DEF Source!Meaningful, Source!None, Source!Value, Flag
<1>4. \A i \in 1 .. n : A[i].ok = TRUE =>
        A[i - 1].ok = TRUE /\ Source!Eval(f.stmts[i].expr, A[i - 1].env).value.type # "none"
  <2> TAKE i \in 1 .. n
  <2>1. PICK b : b = A[i - 1]
    OBVIOUS
  <2>2. PICK s : s = f.stmts[i]
    OBVIOUS
  <2>3. PICK r : r = Given(s, b)
    OBVIOUS
  <2>4. PICK o : o = Source!Onward(s, b)
    OBVIOUS
  <2>0. i - 1 \in 0 .. n
    OBVIOUS
  <2>5. o.ok = TRUE => b.ok = TRUE /\ r.value.type # "none"
    <3>1. Flag(b)
      BY <1>b, <2>0, <2>1
    <3> QED BY <2>3, <2>4, <3>1, OnwardIs, Zenon
  <2>6. A[i] = o
    BY <1>1, <2>1, <2>2, <2>4
  <2> QED BY <2>1, <2>2, <2>3, <2>5, <2>6 DEF Given
<1>5. \A i \in 0 .. n : A[i].ok = TRUE
  <2> DEFINE S == {k \in Nat : k <= n /\ A[n - k].ok # TRUE}
  <2> SUFFICES ASSUME S # {} PROVE FALSE
    <3>1. \A i \in 0 .. n : n - i \in Nat /\ n - i <= n /\ n - (n - i) = i
      OBVIOUS
    <3> QED BY <3>1
  <2>1. PICK p \in S : \A o \in S : p <= o
    <3>1. S \subseteq Nat
      OBVIOUS
    <3> HIDE DEF S
    <3> QED BY <3>1, FirstOf
  <2>2. p \in Nat /\ p <= n /\ A[n - p].ok # TRUE
    OBVIOUS
  <2> HIDE DEF S
  <2>3. p # 0
    <3>1. n - 0 = n
      OBVIOUS
    <3> QED BY <1>3, <2>2, <3>1
  <2>4. p - 1 \in Nat /\ p - 1 <= n /\ p - 1 \notin S /\ n - (p - 1) \in 1 .. n /\ (n - (p - 1)) - 1 = n - p
    BY <2>1, <2>2, <2>3
  <2>5. A[n - (p - 1)].ok = TRUE
    BY <2>4 DEF S
  <2> QED BY <1>4, <2>2, <2>4, <2>5
<1>6. Len(f.params) = Len(f.inputs) /\ A[0].env = [x \in Names |-> ArgOf(f, as, x)]
  <2>1. A[0].ok = TRUE
    BY <1>5
  <2>2. PICK e : e = Source!Entered(f, as)
    OBVIOUS
  <2>3. e.ok = TRUE => Len(f.params) = Len(f.inputs)
    BY <2>2, EnteredIs, Zenon
  <2>4. e.env = [x \in Names |-> ArgOf(f, as, x)]
    BY <2>2, EnteredIs, Zenon
  <2>5. A[0] = e
    BY <1>1, <2>2, Zenon
  <2>6. e.ok = TRUE
    BY <2>1, <2>5, Zenon
  <2> QED BY <2>3, <2>4, <2>5, <2>6, Zenon
<1>7. \A i : EnvAfter(f, as, i) = A[i].env
  BY DEF EnvAfter, A
<1>8. ASSUME NEW i \in 1 .. n
      PROVE  LET s == f.stmts[i]
                 r == Source!Eval(s.expr, EnvAfter(f, as, i - 1))
             IN /\ r.value.type # "none"
                /\ s.k = "Let" => EnvAfter(f, as, i) = Named(r, s.name)
                /\ s.k # "Let" => EnvAfter(f, as, i) = r.env
  <2>0. i \in 0 .. n /\ A[i].ok = TRUE
    BY <1>5
  <2>1. PICK b : b = A[i - 1]
    OBVIOUS
  <2>2. PICK s : s = f.stmts[i]
    OBVIOUS
  <2>3. PICK r : r = Given(s, b)
    OBVIOUS
  <2>4. PICK o : o = Source!Onward(s, b)
    OBVIOUS
  <2>5. /\ s.k = "Let" => Source!Onward(s, b).env = Named(Given(s, b), s.name)
        /\ s.k # "Let" => Source!Onward(s, b).env = Given(s, b).env
    <3>1. i - 1 \in 0 .. n
      OBVIOUS
    <3>2. Flag(b)
      BY <1>b, <2>1, <3>1
    <3> QED BY <3>2, OnwardIs
  <2>6. A[i] = o
    BY <1>1, <2>1, <2>2, <2>4
  <2>7. r.value.type # "none"
    BY <1>4, <2>0, <2>1, <2>2, <2>3 DEF Given
  <2>8. r = Source!Eval(f.stmts[i].expr, EnvAfter(f, as, i - 1))
    BY <1>7, <2>1, <2>2, <2>3 DEF Given
  <2>9. /\ s.k = "Let" => EnvAfter(f, as, i) = Named(r, s.name)
        /\ s.k # "Let" => EnvAfter(f, as, i) = r.env
    BY <1>7, <2>3, <2>4, <2>5, <2>6
  <2> QED BY <2>2, <2>7, <2>8, <2>9
<1>9. /\ f.ret # << >> => Source!Eval(f.ret[1], EnvAfter(f, as, N)).value = v
      /\ f.ret = << >> => v = Machine!Unit
  BY <1>7 DEF v, Source!Value, Machine!Unit, Machine!Value
<1> QED BY <1>3, <1>6, <1>7, <1>8, <1>9, <1>n DEF Sense

-----------------------------------------------------------------------------
(* What the names stand for, whatever the program: a variable has a local of *)
(* its own, which is not the return place; a parameter has the local of the  *)
(* last argument of its name.                                               *)
NameInv ==
  /\ phase \in {"params", "body", "done"} => Len(locals) >= 1 /\ locals[1] = fn.output
  /\ \A x \in Names : localMap[x] # 0
  /\ \A x, y \in Names : x # y /\ localMap[x] = localMap[y] => localMap[x] = Unbound
  /\ phase \in {"resolve", "params"} =>
       \A x \in Names :
         /\ \A q \in 1 .. next - 1 : fn.params[q] = x => q <= localMap[x]
         /\ localMap[x] # Unbound => localMap[x] \in 1 .. next - 1 /\ fn.params[localMap[x]] = x

\* At first no name is bound.
LEMMA NameInvInit == Init => NameInv
<1> SUFFICES ASSUME Init PROVE NameInv
  OBVIOUS
<1>1. phase = "resolve" /\ next = 1 /\ \A x \in Names : localMap[x] = Unbound
  BY DEF Init
<1>2. \A q \in 1 .. next - 1 : FALSE
  BY <1>1
<1> QED BY <1>1, <1>2 DEF NameInv, Unbound

\* Every step of the lowering keeps names on locals of their own.
LEMMA NameInvNext == TypeOK /\ Prologue /\ NameInv /\ [Next]_vars => NameInv'
<1> SUFFICES ASSUME TypeOK, Prologue, NameInv, [Next]_vars PROVE NameInv'
  OBVIOUS
<1>n. PICK n \in Nat : n = Len(locals)
  BY DEF TypeOK
<1>t. locals \in Seq(Types) /\ fn \in Functions /\ next \in Nat \ {0}
  BY DEF TypeOK
<1>m. \A x \in Names : localMap[x] \in Int /\ localMap[x] < n /\ (localMap[x] # Unbound => localMap[x] \in 0 .. n - 1)
  BY <1>n DEF TypeOK, Locals, Unbound
<1>f. fn' = fn
  BY DEF Next, vars, Resolve, BindParam, StartBody, LowerLet, LowerExprStmt, EndExprStmt,
         LowerIntLit, LowerVar, BeginStruct, LowerField, FinishStruct, LowerVecNew, BeginPush,
         FinishPush, LowerLen, LowerRet, EmitReturn, Panic
<1>2. \/ locals' = locals
      \/ BindParam
      \/ Resolve
      \/ \E t : locals' = Append(locals, t) /\ phase = "body"
      \/ \E x, t : locals' = Append(Append(locals, x), t) /\ phase = "body"
  BY DEF Next, vars, Resolve, BindParam, StartBody, LowerLet, LowerExprStmt, EndExprStmt,
         LowerIntLit, LowerVar, BeginStruct, LowerField, FinishStruct, LowerVecNew, BeginPush,
         FinishPush, LowerLen, LowerRet, EmitReturn, Panic, Idle, Active
<1>3. \/ Resolve /\ phase = "resolve" /\ localMap' = localMap /\ next' = next /\ phase' = "params"
      \/ BindParam /\ phase = "params" /\ phase' = "params"
      \/ LowerLet /\ phase = "body" /\ phase' = "body"
      \/ localMap' = localMap /\ phase' = phase /\ next' = next
      \/ localMap' = localMap /\ phase' \in {"body", "done", "panicked"}
            /\ (phase' # "panicked" => phase \in {"params", "body", "done"})
  BY DEF Next, vars, Resolve, BindParam, StartBody, LowerLet, LowerExprStmt, EndExprStmt,
         LowerIntLit, LowerVar, BeginStruct, LowerField, FinishStruct, LowerVecNew, BeginPush,
         FinishPush, LowerLen, LowerRet, EmitReturn, Panic, Idle, Active
<1>4. phase' \in {"params", "body", "done"} => Len(locals') >= 1 /\ locals'[1] = fn'.output
  <2> SUFFICES ASSUME phase' \in {"params", "body", "done"} PROVE Len(locals') >= 1 /\ locals'[1] = fn.output
    BY <1>f
  <2>1. CASE Resolve
    <3>1. n = 0 /\ locals' = Append(locals, fn.output)
      BY <1>n, <2>1 DEF Resolve, Prologue
    <3>2. PICK s : s = Append(locals, fn.output)
      OBVIOUS
    <3>3. Len(s) = n + 1 /\ s[n + 1] = fn.output
      BY <1>n, <1>t, <3>2, AppendOne
    <3>4. n + 1 = 1
      BY <3>1
    <3> QED BY <3>1, <3>2, <3>3, <3>4
  <2>2. CASE ~Resolve
    <3>1. phase \in {"params", "body", "done"}
      BY <1>3, <2>2
    <3>2. n >= 1 /\ locals[1] = fn.output
      BY <1>n, <3>1 DEF NameInv
    <3>3. CASE locals' = locals
      BY <1>n, <3>2, <3>3
    <3>4. ASSUME NEW t, locals' = Append(locals, t) PROVE Len(locals') >= 1 /\ locals'[1] = fn.output
      BY <1>n, <1>t, <3>2, <3>4, AppendOne
    <3>5. ASSUME NEW x, NEW t, locals' = Append(Append(locals, x), t) PROVE Len(locals') >= 1 /\ locals'[1] = fn.output
      <4>1. PICK s : s = Append(Append(locals, x), t)
        OBVIOUS
      <4>2. Len(s) = n + 1 + 1 /\ \A i \in 1 .. n : s[i] = locals[i]
        BY <1>n, <1>t, <4>1, AppendTwo
      <4> QED BY <3>2, <3>5, <4>1, <4>2
    <3>6. CASE BindParam
      BY <3>4, <3>6 DEF BindParam
    <3> QED BY <1>2, <2>2, <3>3, <3>4, <3>5, <3>6
  <2> QED BY <2>1, <2>2
<1>5. ASSUME NEW z \in Names, localMap' = [localMap EXCEPT ![z] = n], n # 0
      PROVE  /\ \A x \in Names : localMap'[x] # 0
             /\ \A x, y \in Names : x # y /\ localMap'[x] = localMap'[y] => localMap'[x] = Unbound
  <2>1. \A x \in Names : localMap'[x] = IF x = z THEN n ELSE localMap[x]
    BY <1>5 DEF TypeOK
  <2>2. \A x \in Names : localMap[x] # n
    BY <1>m
  <2> QED BY <1>5, <2>1, <2>2 DEF NameInv
<1>6. CASE BindParam
  <2>1. /\ next <= ArgPairs /\ localMap' = [localMap EXCEPT ![fn.params[next]] = n]
        /\ next' = next + 1 /\ n = next
    BY <1>6, <1>n DEF BindParam, Prologue, Fresh
  <2>2. fn.params[next] \in Names
    BY <1>t, <2>1, FunctionsAssumption DEF ArgPairs
  <2>3. \A x \in Names : localMap'[x] = IF x = fn.params[next] THEN next ELSE localMap[x]
    BY <2>1, <2>2 DEF TypeOK
  <2>4. phase = "params"
    BY <1>6 DEF BindParam
  <2>5. ASSUME NEW x \in Names
        PROVE  /\ \A q \in 1 .. next' - 1 : fn'.params[q] = x => q <= localMap'[x]
               /\ localMap'[x] # Unbound => localMap'[x] \in 1 .. next' - 1 /\ fn'.params[localMap'[x]] = x
    <3>1. /\ \A q \in 1 .. next - 1 : fn.params[q] = x => q <= localMap[x]
          /\ localMap[x] # Unbound => localMap[x] \in 1 .. next - 1 /\ fn.params[localMap[x]] = x
      BY <2>4 DEF NameInv
    <3>2. \A q \in 1 .. next' - 1 : q \in 1 .. next - 1 \/ q = next
      BY <1>t, <2>1
    <3>3. next' - 1 = next
      BY <1>t, <2>1
    <3> QED BY <1>f, <1>t, <2>3, <3>1, <3>2, <3>3
  <2>6. n # 0
    BY <1>t, <2>1
  <2> QED BY <1>4, <1>5, <2>1, <2>2, <2>5, <2>6 DEF NameInv
<1>7. CASE LowerLet
  <2>1. /\ localMap' = [localMap EXCEPT ![fn.stmts[next].name] = n] /\ next <= Len(fn.stmts)
        /\ fn.stmts[next].k = "Let" /\ phase = "body" /\ phase' = "body"
    BY <1>7, <1>n DEF LowerLet, Fresh, Idle
  <2>2. fn.stmts[next].name \in Names
    BY <2>1, StmtParts
  <2>3. n # 0
    BY <1>n, <2>1 DEF NameInv
  <2> QED BY <1>4, <1>5, <2>1, <2>2, <2>3 DEF NameInv
<1>8. CASE localMap' = localMap /\ phase' = phase /\ next' = next
  BY <1>4, <1>8, <1>f DEF NameInv
<1>9. CASE localMap' = localMap /\ phase' \in {"body", "done", "panicked"}
  BY <1>4, <1>9 DEF NameInv
<1>10. CASE Resolve /\ phase = "resolve" /\ localMap' = localMap /\ next' = next /\ phase' = "params"
  BY <1>4, <1>10, <1>f DEF NameInv
<1> QED BY <1>3, <1>6, <1>7, <1>8, <1>9, <1>10

-----------------------------------------------------------------------------
(* The lowering keeps pace with the meaning.                                 *)

\* What the restrictions ask of the parts of an expression, where the names in
\* H may not be mentioned.
Fine(f, e, H) ==
  /\ e.k = "Var" => e.name \notin H
  /\ e.k = "StructLit" => \A i \in 1 .. Len(e.fields) : e.fields[i].field = <<"x", "y">>[i]
  /\ IsLen(e) => /\ e.receiver.name \notin LetNames(f)
                 /\ \A p \in DOMAIN f.params : f.params[p] = e.receiver.name => f.inputs[p] = "&Vec"
FinePoint(f, e, H) ==
  /\ Fine(f, e, H)
  /\ e.k = "StructLit" => \A i \in 1 .. Len(e.fields) : Fine(f, e.fields[i].expr, H)
Allowed(f, e, H) ==
  /\ FinePoint(f, e, H)
  /\ e.k = "MethodCall" => /\ Fine(f, e.receiver, H)
                           /\ \A i \in DOMAIN e.args : FinePoint(f, e.args[i], H)

\* A value of a type; the unit is one.
Proper(v) == v.type \in Types /\ (v.type = "unit" => v = Machine!Unit)

\* The variables of f, while a name that no let binds has a parameter's type.
Variables(f, env) ==
  /\ env = [x \in Names |-> env[x]]
  /\ \A x \in Names : Proper(env[x]) \/ env[x].type = "none"
  /\ \A x \in Names \ LetNames(f) : env[x].type # "none" =>
       \E p \in DOMAIN f.params : f.params[p] = x /\ env[x].type = f.inputs[p]

\* Every variable that has a value has it in its local.
Holds(lm, m, env, H) ==
  \A x \in Names \ H : env[x].type # "none" => lm[x] \in Nat /\ m[lm[x]] = env[x]

\* A pending call has not lowered anything yet, or awaits the value of a part.
Begins(c) == c.f = "eval" \/ (c.f = "fields" /\ c.done = 0)
Awaits(c) == CASE c.f = "dead"   -> c.tmp
               [] c.f = "push"   -> c.arg
               [] c.f = "fields" -> c.tmps[c.done]
\* What it relies on beside.
Relies(c) == CASE c.f = "push"   -> {c.ref}
               [] c.f = "fields" -> {c.tmps[i] : i \in 1 .. c.done - 1}
               [] OTHER          -> {}

\* The call c gives the result r, once its part has given q.
Link(f, c, r, q, lm, m, rs, H) ==
  \/ c.f = "dead" /\ r = q
  \/ /\ c.f = "push" /\ c.ref \in rs
     /\ q.value.type = "Point"
     /\ r.value = Machine!Unit
     /\ \E v \in Names \ H :
          /\ m[c.ref] = Machine!Value("&mutVec", lm[v])
          /\ q.env[v].type = "Vec"
          /\ r.env = [q.env EXCEPT ![v] = Machine!Value("Vec", Append(q.env[v].is, q.value.is))]
  \/ /\ c.f = "fields" /\ Len(c.expr.fields) = 2 /\ q.value.type = "i32" /\ Len(c.tmps) = c.done
     /\ \/ /\ c.done = 1 /\ Fine(f, c.expr.fields[2].expr, H)
           /\ Source!EvalAtom(c.expr.fields[2].expr, q.env).value.type = "i32"
           /\ r.value = Machine!Value("Point", <<q.value.is, Source!EvalAtom(c.expr.fields[2].expr, q.env).value.is>>)
           /\ r.env = Source!EvalAtom(c.expr.fields[2].expr, q.env).env
        \/ /\ c.done = 2 /\ m[c.tmps[1]].type = "i32"
           /\ r.value = Machine!Value("Point", <<m[c.tmps[1]].is, q.value.is>>)
           /\ r.env = q.env

\* g[j] is what the j-th pending call is to give, and the value that has been
\* given to the innermost one, if it awaits any, comes after them.
Calls(f, fs, g, lm, m, rs, env, H) ==
  \A j \in 1 .. Len(fs) :
    /\ Proper(g[j].value)
    /\ fs[j].f = "dead" => j = 1
    /\ IF Begins(fs[j])
         THEN /\ j = Len(fs) /\ Allowed(f, fs[j].expr, H)
              /\ fs[j].f = "fields" => fs[j].tmps = << >>
              /\ g[j] = IF fs[j].f = "eval" THEN Source!Eval(fs[j].expr, env)
                                            ELSE Source!EvalLit(fs[j].expr, env)
         ELSE /\ Link(f, fs[j], g[j], g[j + 1], lm, m, rs, H)
              /\ IF j = Len(fs) THEN g[j + 1].env = env /\ g[j + 1].value = m[Awaits(fs[j])]
                                ELSE fs[j + 1].dest = Awaits(fs[j])

\* The outermost call is that of a statement or of the trailing expression.
Bottom(f, as, n, fs, g, lm, m, env, H) ==
  IF fs = << >>
    THEN /\ H = {}
         /\ n \in 1 .. Len(f.stmts) + 1 => env = EnvAfter(f, as, n - 1)
         /\ n = Len(f.stmts) + 2 /\ f.ret # << >> => m[0] = Source!Meaning(f, as) /\ Proper(m[0])
    ELSE \/ /\ n = Len(f.stmts) + 2 /\ f.ret # << >> /\ H = {}
            /\ fs[1].f # "dead" /\ fs[1].dest = 0 /\ g[1].value = Source!Meaning(f, as)
         \/ /\ n - 1 \in 1 .. Len(f.stmts) /\ f.stmts[n - 1].k = "Let"
            /\ H = {f.stmts[n - 1].name} /\ fs[1].f # "dead"
            /\ fs[1].dest = lm[f.stmts[n - 1].name]
            /\ EnvAfter(f, as, n - 1) = Named(g[1], f.stmts[n - 1].name)
         \/ /\ n - 1 \in 1 .. Len(f.stmts) /\ f.stmts[n - 1].k # "Let"
            /\ H = {} /\ fs[1].f = "dead" /\ EnvAfter(f, as, n - 1) = g[1].env

Tracks(f, as, n, fs, lm, m, rs, env, g, H) ==
  /\ Variables(f, env) /\ Holds(lm, m, env, H)
  /\ Calls(f, fs, g, lm, m, rs, env, H)
  /\ Bottom(f, as, n, fs, g, lm, m, env, H)

\* A run of the function on args, up to the end of the text, leaves in the
\* locals what the source gives the variables there.
TraceInv ==
  Supported(fn) =>
    /\ phase = "body" =>
         \E m, rs, env, g, H :
           /\ Memory(m)
           /\ Reaches(fn, args, blocks, current, State(m, rs))
           /\ Tracks(fn, args, next, frames, localMap, m, rs, env, g, H)
    /\ phase = "done" => \E c : Reaches(fn, args, blocks, current, c)

-----------------------------------------------------------------------------
(* Pending calls and their temporaries.                                      *)

\* Memory matters to a call only where it relies on it.
LEMMA LinkKept ==
  ASSUME NEW f, NEW c, NEW r, NEW q, NEW lm, NEW m, NEW rs, NEW H, NEW m2, NEW rs2,
         Link(f, c, r, q, lm, m, rs, H), \A l \in Relies(c) : m2[l] = m[l],
         c.f = "push" => c.ref \in rs2
  PROVE  Link(f, c, r, q, lm, m2, rs2, H)
<1>1. CASE c.f = "dead"
  BY <1>1 DEF Link
<1>2. CASE c.f = "push"
  <2>1. m2[c.ref] = m[c.ref]
    BY <1>2 DEF Relies
  <2> QED BY <1>2, <2>1 DEF Link
<1>3. CASE c.f = "fields"
  <2>1. c.done = 2 => m2[c.tmps[1]] = m[c.tmps[1]]
    <3>1. c.done = 2 => 1 \in 1 .. c.done - 1
      OBVIOUS
    <3> QED BY <1>3, <3>1 DEF Relies
  <2> QED BY <1>3, <2>1 DEF Link
<1>4. c.f = "dead" \/ c.f = "push" \/ c.f = "fields"
  BY DEF Link
<1> QED BY <1>1, <1>2, <1>3, <1>4

\* The stack without its innermost call, and with a call in its place.
LEMMA OuterIs ==
  ASSUME NEW F, NEW fs \in Seq(F), NEW n \in Nat, n = Len(fs), n # 0
  PROVE  /\ Outer(fs) \in Seq(F) /\ Len(Outer(fs)) = n - 1
         /\ \A j \in 1 .. n - 1 : Outer(fs)[j] = fs[j]
         /\ n = 1 => Outer(fs) = << >>
BY DEF Outer

\* A sequence whose last element is replaced.
LEMMA Replaced ==
  ASSUME NEW F, NEW fs \in Seq(F), NEW n \in Nat, n = Len(fs), n # 0, NEW c, NEW s, s = Append(Outer(fs), c)
  PROVE  /\ \A j \in 1 .. n - 1 : s[j] = fs[j]
         /\ s[n] = c /\ Len(s) = n
<1>1. PICK o : o = Outer(fs)
  OBVIOUS
<1>2. o \in Seq(F) /\ Len(o) = n - 1 /\ \A j \in 1 .. n - 1 : o[j] = fs[j]
  BY <1>1, OuterIs
<1>3. (n - 1) + 1 = n /\ n - 1 \in Nat
  OBVIOUS
<1> QED BY <1>1, <1>2, <1>3, AppendOne

\* The innermost call becomes c, and e is called from it.
Onto(fs, c, e) == Append(Append(Outer(fs), c), e)

\* A sequence whose last element is replaced and that gets another.
LEMMA OntoIs ==
  ASSUME NEW F, NEW fs \in Seq(F), NEW n \in Nat, n = Len(fs), n # 0, NEW c, NEW e
  PROVE  /\ \A j \in 1 .. n - 1 : Onto(fs, c, e)[j] = fs[j]
         /\ Onto(fs, c, e)[n] = c /\ Len(Onto(fs, c, e)) = n + 1 /\ Onto(fs, c, e)[n + 1] = e
<1>s. PICK s : s = Onto(fs, c, e)
  OBVIOUS
<1>1. PICK t : t = Append(Outer(fs), c)
  OBVIOUS
<1>2. Len(t) = n /\ t[n] = c /\ \A j \in 1 .. n - 1 : t[j] = fs[j]
  BY <1>1, Replaced
<1>5. t \in Seq(F \cup {c})
  <2>1. PICK o : o = Outer(fs)
    OBVIOUS
  <2>2. o \in Seq(F)
    BY <2>1, OuterIs
  <2> QED BY <1>1, <2>1, <2>2, AppendOne
<1>6. s = Append(t, e)
  BY <1>s, <1>1 DEF Onto
<1>3. Len(s) = n + 1 /\ s[n + 1] = e /\ \A j \in 1 .. n : s[j] = t[j]
  BY <1>2, <1>5, <1>6, AppendOne
<1>4. n \in 1 .. n /\ \A j \in 1 .. n - 1 : j \in 1 .. n
  OBVIOUS
<1> QED BY <1>s, <1>2, <1>3, <1>4

\* The calls around the innermost one find in m2 and rs2 what they rely on.
Undisturbed(fs, m, m2, rs2) ==
  \A j \in 1 .. Len(fs) - 1 : /\ \A l \in Relies(fs[j]) : m2[l] = m[l]
                              /\ fs[j].f = "push" => fs[j].ref \in rs2

\* The innermost call has left its value at its destination.
Delivers(f, as, nx, fs, lm, m, rs, env, g, H, m2, rs2, e2) ==
  /\ Sense(f, as) /\ nx \in Nat
  /\ Tracks(f, as, nx, fs, lm, m, rs, env, g, H)
  /\ fs[Len(fs)].f # "dead" /\ fs[Len(fs)].dest \in Nat
  /\ Variables(f, e2) /\ Holds(lm, m2, e2, H) /\ e2 = g[Len(fs)].env
  /\ m2[fs[Len(fs)].dest] = g[Len(fs)].value
  /\ Undisturbed(fs, m, m2, rs2)

\* The innermost call ends: its value is where the call around it expects it.
LEMMA Deliver ==
  ASSUME NEW F, NEW fs \in Seq(F), Len(fs) # 0,
         NEW f, NEW as, NEW nx, NEW g, NEW lm, NEW m, NEW rs, NEW env, NEW H,
         NEW m2, NEW rs2, NEW e2, Delivers(f, as, nx, fs, lm, m, rs, env, g, H, m2, rs2, e2)
  PROVE  \E e3, H3 : Tracks(f, as, nx, Outer(fs), lm, m2, rs2, e3, g, H3)
<1>n. PICK n \in Nat : n = Len(fs)
  OBVIOUS
<1>h. /\ n # 0 /\ Sense(f, as) /\ nx \in Nat
      /\ Tracks(f, as, nx, fs, lm, m, rs, env, g, H)
      /\ fs[n].f # "dead" /\ fs[n].dest \in Nat
      /\ Variables(f, e2) /\ Holds(lm, m2, e2, H) /\ e2 = g[n].env
      /\ m2[fs[n].dest] = g[n].value
  BY <1>n DEF Delivers
<1>u. \A j \in 1 .. n - 1 : /\ \A l \in Relies(fs[j]) : m2[l] = m[l]
                            /\ fs[j].f = "push" => fs[j].ref \in rs2
  BY <1>n DEF Delivers, Undisturbed
<1> USE <1>n, <1>h, <1>u
<1>o. PICK o : o = Outer(fs)
  OBVIOUS
<1>1. Len(o) = n - 1 /\ (\A j \in 1 .. n - 1 : o[j] = fs[j]) /\ (n = 1 => o = << >>)
  BY <1>o, OuterIs
<1>c. Calls(f, fs, g, lm, m, rs, env, H) /\ Bottom(f, as, nx, fs, g, lm, m, env, H)
  BY DEF Tracks
<1>2. CASE n # 1
  <2>1. ASSUME NEW j \in 1 .. n - 1
        PROVE  /\ Proper(g[j].value)
               /\ fs[j].f = "dead" => j = 1
               /\ ~Begins(fs[j])
               /\ Link(f, fs[j], g[j], g[j + 1], lm, m2, rs2, H)
               /\ IF j = n - 1 THEN g[j + 1].env = e2 /\ g[j + 1].value = m2[Awaits(fs[j])]
                               ELSE fs[j + 1].dest = Awaits(fs[j])
    <3>1. j \in 1 .. n /\ j # n
      OBVIOUS
    <3>2. /\ Proper(g[j].value) /\ (fs[j].f = "dead" => j = 1) /\ ~Begins(fs[j])
          /\ Link(f, fs[j], g[j], g[j + 1], lm, m, rs, H)
          /\ fs[j + 1].dest = Awaits(fs[j])
      BY <1>c, <3>1 DEF Calls
    <3>3. Link(f, fs[j], g[j], g[j + 1], lm, m2, rs2, H)
      BY <3>2, LinkKept
    <3>4. j = n - 1 => j + 1 = n
      OBVIOUS
    <3> QED BY <3>2, <3>3, <3>4
  <2>2. Calls(f, o, g, lm, m2, rs2, e2, H)
    <3>1. ASSUME NEW j \in 1 .. n - 1
          PROVE  /\ Proper(g[j].value)
                 /\ o[j].f = "dead" => j = 1
                 /\ ~Begins(o[j])
                 /\ Link(f, o[j], g[j], g[j + 1], lm, m2, rs2, H)
                 /\ IF j = n - 1 THEN g[j + 1].env = e2 /\ g[j + 1].value = m2[Awaits(o[j])]
                                 ELSE o[j + 1].dest = Awaits(o[j])
      <4>1. o[j] = fs[j] /\ (j # n - 1 => o[j + 1] = fs[j + 1])
        <5>1. j # n - 1 => j + 1 \in 1 .. n - 1
          OBVIOUS
        <5> QED BY <1>1, <5>1
      <4> QED BY <2>1, <4>1
    <3> QED BY <1>1, <3>1 DEF Calls
  <2>3. 1 \in 1 .. n - 1 /\ fs # << >> /\ o # << >>
    BY <1>1, <1>2
  <2>4. Bottom(f, as, nx, o, g, lm, m2, e2, H)
    <3>1. o[1] = fs[1]
      BY <1>1, <2>3
    <3> QED BY <1>c, <2>3, <3>1 DEF Bottom
  <2>5. Tracks(f, as, nx, o, lm, m2, rs2, e2, g, H)
    BY <2>2, <2>4 DEF Tracks
  <2> QED BY <1>o, <2>5
<1>3. CASE n = 1
  <2>1. fs # << >> /\ o = << >> /\ fs[1].f # "dead" /\ e2 = g[1].env
        /\ m2[fs[1].dest] = g[1].value /\ fs[1].dest \in Nat
    BY <1>1, <1>3
  <2>2. \A e : Calls(f, o, g, lm, m2, rs2, e, {})
    <3>1. \A j : j \notin 1 .. Len(o)
      BY <1>1, <1>3
    <3> QED BY <3>1 DEF Calls
  <2>3. CASE /\ nx = Len(f.stmts) + 2 /\ f.ret # << >> /\ H = {}
             /\ fs[1].dest = 0 /\ g[1].value = Source!Meaning(f, as)
    <3>1. m2[0] = Source!Meaning(f, as) /\ Proper(m2[0])
      <4>1. 1 \in 1 .. Len(fs)
        BY <1>3
      <4>2. Proper(g[1].value)
        BY <1>c, <4>1 DEF Calls
      <4> QED BY <2>1, <2>3, <4>2
    <3>2. Bottom(f, as, nx, o, g, lm, m2, e2, {})
      <4>1. nx \notin 1 .. Len(f.stmts) + 1
        BY <2>3
      <4> QED BY <2>1, <3>1, <4>1 DEF Bottom
    <3>3. Tracks(f, as, nx, o, lm, m2, rs2, e2, g, {})
      BY <2>2, <2>3, <3>2 DEF Tracks
    <3> QED BY <1>o, <3>3
  <2>4. CASE /\ nx - 1 \in 1 .. Len(f.stmts) /\ f.stmts[nx - 1].k = "Let"
             /\ H = {f.stmts[nx - 1].name} /\ fs[1].dest = lm[f.stmts[nx - 1].name]
             /\ EnvAfter(f, as, nx - 1) = Named(g[1], f.stmts[nx - 1].name)
    <3>0. PICK x : x = f.stmts[nx - 1].name
      OBVIOUS
    <3>v. PICK v : v = g[1].value
      OBVIOUS
    <3>1. PICK e3 : e3 = EnvAfter(f, as, nx - 1)
      OBVIOUS
    <3>2. e3 = [e2 EXCEPT ![x] = v]
      BY <2>1, <2>4, <3>0, <3>1, <3>v DEF Named
    <3>3. PICK E : e2 = [y \in Names |-> E[y]]
      BY Zenon DEF Variables
    <3>4. e3 = [y \in Names |-> IF y = x THEN v ELSE E[y]]
      BY <3>2, <3>3
    <3>5. /\ e3 = [y \in Names |-> e3[y]]
          /\ \A y \in Names : e3[y] = IF y = x THEN v ELSE e2[y]
      BY <3>3, <3>4
    <3>6. x \in LetNames(f)
      BY <2>4, <3>0 DEF LetNames
    <3>t. Proper(v)
      <4>1. 1 \in 1 .. Len(fs)
        BY <1>3
      <4> QED BY <1>c, <3>v, <4>1 DEF Calls
    <3>7. Variables(f, e3)
      BY <3>t, <3>5, <3>6 DEF Variables
    <3>8. Holds(lm, m2, e3, {})
      <4>1. ASSUME NEW y \in Names, e3[y].type # "none" PROVE lm[y] \in Nat /\ m2[lm[y]] = e3[y]
        <5>1. CASE y = x
          BY <2>1, <2>4, <3>0, <3>v, <3>5, <5>1
        <5>2. CASE y # x
          BY <2>4, <3>0, <3>5, <4>1, <5>2 DEF Holds
        <5> QED BY <5>1, <5>2
      <4> QED BY <4>1 DEF Holds
    <3>9. Bottom(f, as, nx, o, g, lm, m2, e3, {})
      <4>1. nx # Len(f.stmts) + 2
        BY <2>4
      <4> QED BY <2>1, <3>1, <4>1 DEF Bottom
    <3>10. Tracks(f, as, nx, o, lm, m2, rs2, e3, g, {})
      BY <2>2, <3>7, <3>8, <3>9 DEF Tracks
    <3> QED BY <1>o, <3>10
  <2> QED BY <1>c, <2>1, <2>3, <2>4 DEF Bottom
<1> QED BY <1>2, <1>3

\* The innermost call becomes c, which lowers a part of its expression first.
Enters(f, as, nx, fs, lm, m, rs, env, g, H, m2, rs2, c, e) ==
  /\ Tracks(f, as, nx, fs, lm, m, rs, env, g, H) /\ fs[Len(fs)].f # "dead"
  /\ Holds(lm, m2, env, H) /\ Undisturbed(fs, m, m2, rs2)
  /\ c.f # "dead" /\ c.dest = fs[Len(fs)].dest /\ ~Begins(c)
  /\ Allowed(f, e, H) /\ Proper(Source!Eval(e, env).value)
  /\ Link(f, c, g[Len(fs)], Source!Eval(e, env), lm, m2, rs2, H)

\* A call that waits for an operand is still right when its operand is being lowered.
LEMMA Entering ==
  ASSUME NEW F, NEW fs \in Seq(F), Len(fs) # 0,
         NEW f, NEW as, NEW nx, NEW g, NEW lm, NEW m, NEW rs, NEW env, NEW H,
         NEW m2, NEW rs2, NEW c, NEW e, Enters(f, as, nx, fs, lm, m, rs, env, g, H, m2, rs2, c, e)
  PROVE  \E g2 : Tracks(f, as, nx, Onto(fs, c, EvalFrame(e, Awaits(c))), lm, m2, rs2, env, g2, H)
<1>n. PICK n \in Nat : n = Len(fs)
  OBVIOUS
<1>r. PICK r : r = Source!Eval(e, env)
  OBVIOUS
<1>h. /\ n # 0 /\ Tracks(f, as, nx, fs, lm, m, rs, env, g, H) /\ fs[n].f # "dead"
      /\ Holds(lm, m2, env, H)
      /\ c.f # "dead" /\ c.dest = fs[n].dest /\ ~Begins(c)
      /\ Allowed(f, e, H) /\ Proper(r.value) /\ Link(f, c, g[n], r, lm, m2, rs2, H)
  BY <1>n, <1>r DEF Enters
<1>u. \A j \in 1 .. n - 1 : /\ \A l \in Relies(fs[j]) : m2[l] = m[l]
                            /\ fs[j].f = "push" => fs[j].ref \in rs2
  BY <1>n DEF Enters, Undisturbed
<1>a. PICK a : a = EvalFrame(e, Awaits(c))
  OBVIOUS
<1>b. n # 0
  BY <1>n
<1>s. PICK s : s = Onto(fs, c, a)
  OBVIOUS
<1>1. /\ \A j \in 1 .. n - 1 : s[j] = fs[j]
      /\ s[n] = c /\ Len(s) = n + 1 /\ s[n + 1] = EvalFrame(e, Awaits(c))
  <2>1. /\ \A j \in 1 .. n - 1 : Onto(fs, c, a)[j] = fs[j]
        /\ Onto(fs, c, a)[n] = c /\ Len(Onto(fs, c, a)) = n + 1
        /\ Onto(fs, c, a)[n + 1] = a
    BY <1>n, <1>b, OntoIs
  <2> QED BY <1>s, <1>a, <2>1
<1> USE <1>n, <1>r, <1>h, <1>u
<1>2. s[n + 1].f = "eval" /\ s[n + 1].expr = e /\ s[n + 1].dest = Awaits(c)
  BY <1>1 DEF EvalFrame
<1> DEFINE g2 == [j \in Nat |-> IF j = n + 1 THEN r ELSE g[j]]
<1>3. g2[n + 1] = r /\ \A j \in 1 .. n : g2[j] = g[j]
  OBVIOUS
<1> HIDE DEF g2
<1>c. Calls(f, fs, g, lm, m, rs, env, H) /\ Bottom(f, as, nx, fs, g, lm, m, env, H) /\ Variables(f, env)
  BY DEF Tracks
<1>4. ASSUME NEW j \in 1 .. n + 1
      PROVE  /\ Proper(g2[j].value)
             /\ s[j].f = "dead" => j = 1
             /\ IF Begins(s[j])
                  THEN /\ j = n + 1 /\ Allowed(f, s[j].expr, H)
                       /\ s[j].f = "fields" => s[j].tmps = << >>
                       /\ g2[j] = IF s[j].f = "eval" THEN Source!Eval(s[j].expr, env)
                                                     ELSE Source!EvalLit(s[j].expr, env)
                  ELSE /\ Link(f, s[j], g2[j], g2[j + 1], lm, m2, rs2, H)
                       /\ IF j = n + 1 THEN g2[j + 1].env = env /\ g2[j + 1].value = m2[Awaits(s[j])]
                                       ELSE s[j + 1].dest = Awaits(s[j])
  <2>1. CASE j = n + 1
    <3>1. Begins(s[j])
      BY <1>2, <2>1 DEF Begins
    <3> QED BY <1>2, <1>3, <2>1, <3>1
  <2>2. CASE j = n
    <3>1. n \in 1 .. n /\ n # n + 1
      OBVIOUS
    <3>2. Proper(g[n].value)
      BY <1>c, <3>1 DEF Calls
    <3> QED BY <1>1, <1>2, <1>3, <2>2, <3>1, <3>2
  <2>3. CASE j \in 1 .. n - 1
    <3>1. j \in 1 .. n /\ j # n /\ j + 1 \in 1 .. n /\ j # n + 1 /\ (j + 1 \in 1 .. n - 1 \/ j + 1 = n)
      BY <2>3
    <3>2. /\ Proper(g[j].value) /\ (fs[j].f = "dead" => j = 1) /\ ~Begins(fs[j])
          /\ Link(f, fs[j], g[j], g[j + 1], lm, m, rs, H)
          /\ fs[j + 1].dest = Awaits(fs[j])
      BY <1>c, <3>1 DEF Calls
    <3>3. Link(f, fs[j], g[j], g[j + 1], lm, m2, rs2, H)
      BY <2>3, <3>2, LinkKept
    <3>4. s[j + 1].dest = fs[j + 1].dest
      BY <1>1, <3>1
    <3>5. s[j] = fs[j] /\ g2[j] = g[j] /\ g2[j + 1] = g[j + 1]
      BY <1>1, <1>3, <2>3, <3>1
    <3> QED BY <3>1, <3>2, <3>3, <3>4, <3>5
  <2>4. j = n + 1 \/ j = n \/ j \in 1 .. n - 1
    OBVIOUS
  <2> QED BY <2>1, <2>2, <2>3, <2>4, Zenon
<1>5. Calls(f, s, g2, lm, m2, rs2, env, H)
  BY <1>1, <1>4 DEF Calls
<1>6. s # << >> /\ fs # << >> /\ g2[1] = g[1] /\ (s[1].f # "dead" <=> fs[1].f # "dead")
  <2>1. s # << >> /\ fs # << >> /\ g2[1] = g[1]
    BY <1>1, <1>3
  <2>2. CASE n = 1
    BY <1>1, <2>1, <2>2
  <2>3. CASE n # 1
    <3>1. s[1] = fs[1]
      BY <1>1, <2>3
    <3> QED BY <2>1, <3>1
  <2> QED BY <2>2, <2>3
<1>7. s[1].f # "dead" => s[1].dest = fs[1].dest
  <2>2. CASE n = 1
    BY <1>1, <2>2
  <2>3. CASE n # 1
    <3>1. s[1] = fs[1]
      BY <1>1, <2>3
    <3> QED BY <3>1
  <2> QED BY <2>2, <2>3
<1>8. Bottom(f, as, nx, s, g2, lm, m2, env, H)
  BY <1>c, <1>6, <1>7 DEF Bottom
<1>9. Tracks(f, as, nx, s, lm, m2, rs2, env, g2, H)
  BY <1>c, <1>5, <1>8 DEF Tracks
<1> QED BY <1>s, <1>a, <1>9

\* What a waiting call relies on, and what it awaits, are its temporaries.
LEMMA WaitingOwns ==
  ASSUME NEW k \in Nat, NEW c \in FrameOf(k), Within(c), ~Begins(c),
         NEW f, NEW r, NEW q, NEW lm, NEW m, NEW rs, NEW H, Link(f, c, r, q, lm, m, rs, H)
  PROVE  /\ Awaits(c) \in Owned(c) /\ Relies(c) \subseteq Owned(c)
         /\ \A l \in Relies(c) : l < Awaits(c)
         /\ c.f = "push" => c.ref \in Relies(c)
<1>1. CASE c.f = "dead"
  BY <1>1 DEF Awaits, Owned, Relies
<1>2. CASE c.f = "push"
  BY <1>2 DEF Awaits, Owned, Relies, Within
<1>3. CASE c.f = "fields"
  <2>1. Len(c.tmps) = c.done /\ c.done \in {1, 2}
    BY <1>3 DEF Link
  <2>2. /\ Awaits(c) = c.tmps[c.done]
        /\ Owned(c) = {c.tmps[i] : i \in 1 .. c.done}
        /\ Relies(c) = {c.tmps[i] : i \in 1 .. c.done - 1}
    BY <1>3, <2>1 DEF Awaits, Owned, Relies
  <2>3. c.done \in 1 .. c.done /\ \A i \in 1 .. c.done - 1 : i \in 1 .. c.done /\ i < c.done
    BY <2>1
  <2>4. \A i, j \in 1 .. c.done : i < j => c.tmps[i] < c.tmps[j]
    BY <1>3, <2>1 DEF Within
  <2> QED BY <1>3, <2>2, <2>3, <2>4
<1> QED BY <1>1, <1>2, <1>3 DEF Link

\* The innermost call writes where nothing else is kept.
LEMMA Apart ==
  ASSUME TypeOK, StorageInv, NameInv, phase = "body", Sense(fn, args),
         NEW n \in Nat, n = Len(frames), n # 0, NEW m, NEW rs, NEW env, NEW g, NEW H,
         Tracks(fn, args, next, frames, localMap, m, rs, env, g, H)
  PROVE  /\ Top = frames[n] /\ Popped = Outer(frames) /\ frames \in Seq(FrameOf(Len(locals)))
         /\ frames[n] \in FrameOf(Len(locals)) /\ Len(locals) \in Nat /\ ArgPairs \in Nat
         /\ Within(frames[n])
         /\ \A j \in 1 .. n - 1 : frames[j].f = "push" => frames[j].ref \in Relies(frames[j])
         /\ \A j \in 1 .. n - 1 : \A l \in Relies(frames[j]) :
              /\ l \in Nat /\ l < Len(locals)
              /\ \A x \in Names : localMap[x] < l
              /\ frames[n].f # "dead" => l # frames[n].dest
              /\ \A k \in Owned(frames[n]) : l # k
         /\ frames[n].f # "dead" => /\ frames[n].dest \in Nat /\ frames[n].dest < Len(locals)
                                    /\ \A x \in Names \ H : localMap[x] # frames[n].dest
                                    /\ frames[n].dest = 0 => g[n].value.type = fn.output
         /\ \A k \in Owned(frames[n]) : /\ k \in Nat /\ k # 0 /\ k < Len(locals)
                                        /\ \A x \in Names : localMap[x] < k
<1>k. PICK k \in Nat : k = Len(locals)
  BY DEF TypeOK
<1>1. frames \in Seq(FrameOf(k)) /\ ArgPairs \in Nat /\ \A x \in Names : localMap[x] \in Int
  BY <1>k, Numbers
<1>2. Top = frames[n] /\ Popped = Outer(frames) /\ \A j \in 1 .. n : frames[j] \in FrameOf(k)
  BY <1>1 DEF Top, Popped, Outer
<1>3. /\ \A j \in 1 .. n : Within(frames[j])
      /\ \A i, j \in 1 .. n : i < j => \A l \in Owned(frames[j]), p \in Mentioned(frames[i]) : p < l
  BY DEF StorageInv, Ordered
<1>4. OwnedBy(frames) \subseteq 0 .. k - 1
  BY <1>k, <1>1, MentionedIsLocal
<1>5. \A j \in 1 .. n : \A l \in Owned(frames[j]) :
        l \in 0 .. k - 1 /\ l > ArgPairs /\ \A x \in Names : localMap[x] < l
  <2> TAKE j \in 1 .. n
  <2> TAKE l \in Owned(frames[j])
  <2>1. l \in OwnedBy(frames)
    BY DEF OwnedBy
  <2> QED BY <1>4, <2>1 DEF StorageInv
<1>c. Calls(fn, frames, g, localMap, m, rs, env, H) /\ Bottom(fn, args, next, frames, g, localMap, m, env, H)
  BY DEF Tracks
<1>6. ASSUME NEW j \in 1 .. n - 1
      PROVE  /\ Awaits(frames[j]) \in Owned(frames[j]) /\ Relies(frames[j]) \subseteq Owned(frames[j])
             /\ \A l \in Relies(frames[j]) : l < Awaits(frames[j])
             /\ frames[j].f = "push" => frames[j].ref \in Relies(frames[j])
             /\ frames[j + 1].dest = Awaits(frames[j])
  <2>1. j \in 1 .. n /\ j # n
    OBVIOUS
  <2>2. ~Begins(frames[j]) /\ Link(fn, frames[j], g[j], g[j + 1], localMap, m, rs, H)
        /\ frames[j + 1].dest = Awaits(frames[j])
    BY <1>c, <2>1 DEF Calls
  <2> QED BY <1>2, <1>3, <2>1, <2>2, WaitingOwns
<1>7. n \in 1 .. n
  OBVIOUS
<1>8. ASSUME frames[n].f # "dead"
      PROVE  /\ frames[n].dest \in 0 .. k - 1
             /\ \A x \in Names \ H : localMap[x] # frames[n].dest
             /\ frames[n].dest = 0 => g[n].value.type = fn.output
             /\ n # 1 => frames[n].dest = Awaits(frames[n - 1])
  <2>1. frames[n].dest \in 0 .. k - 1
    BY <1>2, <1>7, <1>8 DEF FrameOf
  <2>2. CASE n # 1
    <3>1. n - 1 \in 1 .. n - 1 /\ n - 1 \in 1 .. n /\ (n - 1) + 1 = n
      BY <2>2
    <3>2. frames[n].dest = Awaits(frames[n - 1]) /\ frames[n].dest \in Owned(frames[n - 1])
      BY <1>6, <3>1
    <3>3. frames[n].dest > ArgPairs /\ \A x \in Names : localMap[x] < frames[n].dest
      BY <1>5, <3>1, <3>2
    <3>4. frames[n].dest # 0 /\ \A x \in Names \ H : localMap[x] # frames[n].dest
      BY <1>1, <2>1, <3>3
    <3> QED BY <2>1, <3>2, <3>4
  <2>3. CASE n = 1
    <3>0. frames # << >> /\ frames[1].f # "dead"
      BY <1>8, <2>3
    <3>1. CASE frames[1].dest = 0 /\ g[1].value = Source!Meaning(fn, args)
      <4>1. g[1].value.type = fn.output
        BY <3>1 DEF Sense
      <4>2. \A x \in Names : localMap[x] # 0
        BY DEF NameInv
      <4> QED BY <2>1, <2>3, <3>1, <4>1, <4>2
    <3>2. CASE /\ next - 1 \in 1 .. Len(fn.stmts) /\ fn.stmts[next - 1].k = "Let" /\ H = {fn.stmts[next - 1].name}
               /\ frames[1].dest = localMap[fn.stmts[next - 1].name]
      <4>1. PICK z : z = fn.stmts[next - 1].name
        OBVIOUS
      <4>2. z \in Names
        <5>1. fn \in Functions
          BY DEF TypeOK
        <5> QED BY <3>2, <4>1, <5>1, FunctionsAssumption DEF IsStmt
      <4>3. frames[1].dest = localMap[z] /\ frames[1].dest # 0 /\ frames[1].dest # Unbound
        BY <2>1, <2>3, <3>2, <4>1, <4>2 DEF NameInv, Unbound
      <4>4. \A x \in Names \ H : localMap[x] # frames[1].dest
        BY <3>2, <4>1, <4>2, <4>3 DEF NameInv
      <4> QED BY <2>1, <2>3, <4>3, <4>4
    <3> QED BY <1>c, <3>0, <3>1, <3>2 DEF Bottom
  <2> QED BY <2>2, <2>3
<1>9. ASSUME NEW j \in 1 .. n - 1, NEW l \in Relies(frames[j])
      PROVE  /\ l \in Nat /\ l < k
             /\ \A x \in Names : localMap[x] < l
             /\ frames[n].f # "dead" => l # frames[n].dest
             /\ \A p \in Owned(frames[n]) : l # p
  <2>1. l \in Owned(frames[j]) /\ j \in 1 .. n /\ j < n
    BY <1>6, <1>9
  <2>2. l \in 0 .. k - 1 /\ \A x \in Names : localMap[x] < l
    BY <1>5, <2>1
  <2>3. \A p \in Owned(frames[n]) : l < p
    BY <1>3, <1>7, <2>1 DEF Mentioned
  <2>4. ASSUME frames[n].f # "dead" PROVE l < frames[n].dest
    <3>0. n - 1 \in 1 .. n - 1 /\ n - 1 \in 1 .. n /\ n # 1
      OBVIOUS
    <3>1. frames[n].dest = Awaits(frames[n - 1]) /\ frames[n].dest \in Owned(frames[n - 1])
      BY <1>6, <1>8, <2>4, <3>0
    <3>2. CASE j = n - 1
      BY <1>6, <1>9, <3>1, <3>2
    <3>3. CASE j # n - 1
      <4>1. j < n - 1
        BY <3>3
      <4> QED BY <1>3, <2>1, <3>0, <3>1, <4>1 DEF Mentioned
    <3> QED BY <3>2, <3>3
  <2>5. \A p \in Owned(frames[n]) : p \in 0 .. k - 1
    BY <1>5, <1>7
  <2> QED BY <1>8, <2>2, <2>3, <2>4, <2>5
<1>10. \A p \in Owned(frames[n]) : p \in Nat /\ p # 0 /\ p < k /\ \A x \in Names : localMap[x] < p
  BY <1>1, <1>5, <1>7
<1>11. frames[n] \in FrameOf(k) /\ Within(frames[n])
  BY <1>2, <1>3, <1>7
<1>12. frames[n].f # "dead" => frames[n].dest \in Nat /\ frames[n].dest < k
  BY <1>8
<1>13. \A j \in 1 .. n - 1 : frames[j].f = "push" => frames[j].ref \in Relies(frames[j])
  BY <1>6
<1> QED BY <1>k, <1>1, <1>2, <1>8, <1>9, <1>10, <1>11, <1>12, <1>13

-----------------------------------------------------------------------------
(* What the expressions mean, form by form.                                  *)

\* The const of a number in range is the number.
LEMMA Wraps ==
  ASSUME NEW n \in Int, Source!InRange(n)
  PROVE  AsI32(n) = n
<1>1. PICK h \in Nat : h = I32Card \div 2
  BY I32CardAssumption
<1>2. 2 * h <= I32Card
  BY <1>1, I32CardAssumption
<1>3. -h <= n /\ n < h
  BY <1>1 DEF Source!InRange
<1>4. n + h \in 0 .. I32Card - 1
  BY <1>2, <1>3, I32CardAssumption
<1>5. \A a \in Nat : \A b \in Nat : a < b => a % b = a
  OBVIOUS
<1>6. (n + h) % I32Card = n + h
  BY <1>4, <1>5, I32CardAssumption
<1>7. AsI32(n) = ((n + h) % I32Card) - h
  BY <1>1 DEF AsI32
<1> QED BY <1>6, <1>7

\* What a number means.
LEMMA MeansIntLit ==
  ASSUME NEW e, e.k = "IntLit", e.n \in Int, NEW env, Source!EvalAtom(e, env).value.type # "none"
  PROVE  /\ Source!EvalAtom(e, env).value = Machine!Value("i32", AsI32(e.n))
         /\ Source!EvalAtom(e, env).env = env
<1>1. Source!EvalAtom(e, env) = Source!Result(IF Source!InRange(e.n) THEN Source!Value("i32", e.n) ELSE Source!None, env)
  BY DEF Source!EvalAtom
<1>2. Source!EvalAtom(e, env).env = env
  BY <1>1 DEF Source!Result
<1>3. Source!EvalAtom(e, env).value = IF Source!InRange(e.n) THEN Source!Value("i32", e.n) ELSE Source!None
  BY <1>1 DEF Source!Result
<1>4. Source!None.type = "none"
  BY DEF Source!None, Source!Value
<1>5. Source!InRange(e.n)
  BY <1>3, <1>4
<1>6. AsI32(e.n) = e.n
  BY <1>5, Wraps
<1> QED BY <1>2, <1>3, <1>5, <1>6 DEF Source!Value, Machine!Value

\* What a variable means: it is copied or moved.
LEMMA MeansVar ==
  ASSUME NEW e, e.k = "Var", NEW env
  PROVE  /\ Source!EvalAtom(e, env).value = env[e.name]
         /\ Source!EvalAtom(e, env).env = IF env[e.name].type \in CopyTypes THEN env
                                          ELSE [env EXCEPT ![e.name] = Source!None]
<1>1. Source!CopyTypes = CopyTypes
  BY DEF Source!CopyTypes, CopyTypes
<1>2. Source!EvalAtom(e, env) = Source!Result(env[e.name],
         IF env[e.name].type \in CopyTypes THEN env ELSE [env EXCEPT ![e.name] = Source!None])
  BY <1>1 DEF Source!EvalAtom
<1> QED BY <1>2 DEF Source!Result

\* An atom or literal that has a value is one, and Eval gives it.
LEMMA MeansAtom ==
  ASSUME NEW e \in Exprs, NEW env, Source!EvalAtom(e, env).value.type # "none"
  PROVE  /\ e.k \in {"IntLit", "Var"}
         /\ Source!Eval(e, env) = Source!EvalAtom(e, env)
         /\ Source!EvalPoint(e, env) = Source!EvalAtom(e, env)
<1>1. e.k \notin {"IntLit", "Var"} => Source!EvalAtom(e, env).value.type = "none"
  BY DEF Source!EvalAtom, Source!Meaningless, Source!Result, Source!None, Source!Value
<1>2. e.k \in {"IntLit", "Var"}
  BY <1>1
<1>3. ~Source!IsVecNew(e) /\ ~Source!IsPush(e) /\ ~Source!IsLen(e) /\ e.k # "StructLit"
  BY <1>2 DEF Source!IsVecNew, Source!IsPush, Source!IsLen
<1>4. Source!Eval(e, env) = Source!EvalPoint(e, env)
  BY <1>3 DEF Source!Eval
<1>5. Source!EvalPoint(e, env) = Source!EvalAtom(e, env)
  BY <1>3 DEF Source!EvalPoint
<1> QED BY <1>2, <1>4, <1>5

\* What the argument of push means.
LEMMA MeansPoint ==
  ASSUME NEW e \in Exprs, NEW env, Source!EvalPoint(e, env).value.type # "none"
  PROVE  /\ e.k \in {"IntLit", "Var", "StructLit"}
         /\ Source!Eval(e, env) = Source!EvalPoint(e, env)
         /\ e.k = "StructLit" => Source!EvalPoint(e, env) = Source!EvalLit(e, env)
         /\ e.k # "StructLit" => Source!EvalPoint(e, env) = Source!EvalAtom(e, env)
<1>1. /\ e.k = "StructLit" => Source!EvalPoint(e, env) = Source!EvalLit(e, env)
      /\ e.k # "StructLit" => Source!EvalPoint(e, env) = Source!EvalAtom(e, env)
  BY DEF Source!EvalPoint
<1>2. e.k \in {"IntLit", "Var", "StructLit"}
  BY <1>1, MeansAtom
<1>3. ~Source!IsVecNew(e) /\ ~Source!IsPush(e) /\ ~Source!IsLen(e)
  BY <1>2 DEF Source!IsVecNew, Source!IsPush, Source!IsLen
<1>4. Source!Eval(e, env) = Source!EvalPoint(e, env)
  BY <1>3 DEF Source!Eval
<1> QED BY <1>1, <1>2, <1>4

\* A literal of a Point, in the order of its fields.
LEMMA MeansLit ==
  ASSUME NEW e, NEW env, Source!EvalLit(e, env).value.type # "none",
         \A i \in 1 .. Len(e.fields) : e.fields[i].field = <<"x", "y">>[i],
         NEW p, p = Source!EvalAtom(e.fields[1].expr, env),
         NEW q, q = Source!EvalAtom(e.fields[2].expr, p.env)
  PROVE  /\ Len(e.fields) = 2 /\ p.value.type = "i32" /\ q.value.type = "i32"
         /\ Source!EvalLit(e, env).value = Machine!Value("Point", <<p.value.is, q.value.is>>)
         /\ Source!EvalLit(e, env).env = q.env
<1>1. /\ e.name = "Point" /\ Len(e.fields) = 2
      /\ {e.fields[1].field, e.fields[2].field} = {"x", "y"}
  BY DEF Source!EvalLit, Source!Meaningless, Source!Result, Source!None, Source!Value
<1> DEFINE x == IF e.fields[1].field = "x" THEN p.value ELSE q.value
           y == IF e.fields[1].field = "x" THEN q.value ELSE p.value
<1>2. Source!EvalLit(e, env) = Source!Result(IF x.type = "i32" /\ y.type = "i32"
                                               THEN Source!Value("Point", <<x.is, y.is>>) ELSE Source!None, q.env)
  BY <1>1 DEF Source!EvalLit
<1>3. x = p.value /\ y = q.value
  <2>1. e.fields[1].field = "x"
    BY <1>1
  <2> QED BY <2>1
<1> HIDE DEF x, y
<1>4. /\ Source!EvalLit(e, env).env = q.env
      /\ Source!EvalLit(e, env).value = IF x.type = "i32" /\ y.type = "i32"
                                          THEN Source!Value("Point", <<x.is, y.is>>) ELSE Source!None
  BY <1>2 DEF Source!Result
<1>5. x.type = "i32" /\ y.type = "i32"
  <2>1. Source!None.type = "none"
    BY DEF Source!None, Source!Value
  <2> QED BY <1>4, <2>1
<1> QED BY <1>1, <1>3, <1>4, <1>5 DEF Source!Value, Machine!Value

\* What evaluating a Point or an atom does to the variables: some are moved out.
Drops(env, env2) ==
  /\ env2 = [x \in Names |-> env2[x]]
  /\ \A x \in Names : env2[x] = env[x] \/ env2[x] = Source!None

\* Dropping values, twice.
LEMMA DropsOn ==
  ASSUME NEW e1, NEW e2, NEW e3, Drops(e1, e2), Drops(e2, e3)
  PROVE  Drops(e1, e3)
BY DEF Drops

\* Variables stay well-formed when some of them lose their value.
LEMMA DropsVariables ==
  ASSUME NEW f, NEW env, NEW env2, Variables(f, env), Drops(env, env2)
  PROVE  Variables(f, env2)
<1>1. Source!None.type = "none"
  BY DEF Source!None, Source!Value
<1>2. env2 = [x \in Names |-> env2[x]]
  BY DEF Drops
<1>3. ASSUME NEW x \in Names PROVE Proper(env2[x]) \/ env2[x].type = "none"
  BY <1>1 DEF Drops, Variables
<1>4. ASSUME NEW x \in Names \ LetNames(f), env2[x].type # "none"
      PROVE  \E p \in DOMAIN f.params : f.params[p] = x /\ env2[x].type = f.inputs[p]
  <2>1. env2[x] = env[x]
    BY <1>1, <1>4 DEF Drops
  <2> QED BY <1>4, <2>1 DEF Variables
<1> QED BY <1>2, <1>3, <1>4 DEF Variables

\* A number or a variable only takes values away.
LEMMA AtomDrops ==
  ASSUME NEW e, NEW env, env = [x \in Names |-> env[x]]
  PROVE  Drops(env, Source!EvalAtom(e, env).env)
<1>1. Drops(env, env)
  BY DEF Drops
<1>2. CASE e.k = "Var"
  <2>1. PICK z : z = e.name
    OBVIOUS
  <2>2. PICK E : env = [x \in Names |-> E[x]]
    BY Zenon
  <2>3. PICK N : N = Source!None
    OBVIOUS
  <2>4. PICK env2 : env2 = [env EXCEPT ![z] = N]
    OBVIOUS
  <2>5. env2 = [x \in Names |-> IF x = z THEN N ELSE E[x]]
    BY <2>2, <2>4
  <2>6. Drops(env, env2)
    <3>1. env2 = [x \in Names |-> env2[x]]
      BY <2>5
    <3>2. \A x \in Names : env2[x] = IF x = z THEN N ELSE env[x]
      BY <2>2, <2>5
    <3> QED BY <2>3, <3>1, <3>2 DEF Drops
  <2> QED BY <1>1, <1>2, <2>1, <2>3, <2>4, <2>6, MeansVar
<1>3. CASE e.k = "IntLit"
  <2>1. Source!EvalAtom(e, env).env = env
    BY <1>3 DEF Source!EvalAtom, Source!Result
  <2> QED BY <1>1, <2>1
<1>4. CASE e.k \notin {"Var", "IntLit"}
  <2>1. Source!EvalAtom(e, env).env = env
    BY <1>4 DEF Source!EvalAtom, Source!Meaningless, Source!Result
  <2> QED BY <1>1, <2>1
<1> QED BY <1>2, <1>3, <1>4

\* So does a literal.
LEMMA PointDrops ==
  ASSUME NEW e, NEW env, env = [x \in Names |-> env[x]]
  PROVE  Drops(env, Source!EvalPoint(e, env).env)
<1>1. CASE e.k # "StructLit"
  <2>1. Source!EvalPoint(e, env) = Source!EvalAtom(e, env)
    BY <1>1 DEF Source!EvalPoint
  <2> QED BY <2>1, AtomDrops
<1>2. CASE e.k = "StructLit"
  <2>1. Source!EvalPoint(e, env) = Source!EvalLit(e, env)
    BY <1>2 DEF Source!EvalPoint
  <2>2. PICK p : p = Source!EvalAtom(e.fields[1].expr, env)
    OBVIOUS
  <2>3. PICK q : q = Source!EvalAtom(e.fields[2].expr, p.env)
    OBVIOUS
  <2>4. Drops(env, p.env)
    BY <2>2, AtomDrops
  <2>5. Drops(p.env, q.env)
    BY <2>3, <2>4, AtomDrops DEF Drops
  <2>6. Source!EvalLit(e, env).env \in {q.env, env}
    BY <2>2, <2>3 DEF Source!EvalLit, Source!Meaningless, Source!Result
  <2>7. Drops(env, env)
    BY DEF Drops
  <2>8. Drops(env, q.env)
    BY <2>4, <2>5, DropsOn
  <2> QED BY <2>1, <2>6, <2>7, <2>8
<1> QED BY <1>1, <1>2

\* What Vec::new means.
LEMMA MeansNew ==
  ASSUME NEW e, IsVecNew(e), NEW env, Source!Eval(e, env).value.type # "none"
  PROVE  /\ Source!Eval(e, env).value = Machine!Value("Vec", << >>)
         /\ Source!Eval(e, env).env = env
<1>0. Source!IsVecNew(e) /\ ~Source!IsPush(e) /\ ~Source!IsLen(e)
  BY DEF IsVecNew, Source!IsVecNew, Source!IsPush, Source!IsLen
<1>1. Source!Eval(e, env) = Source!Result(IF e.args = << >> THEN Source!Value("Vec", << >>) ELSE Source!None, env)
  BY <1>0 DEF Source!Eval
<1>2. Source!None.type = "none"
  BY DEF Source!None, Source!Value
<1>3. /\ Source!Eval(e, env).env = env
      /\ Source!Eval(e, env).value = IF e.args = << >> THEN Source!Value("Vec", << >>) ELSE Source!None
  BY <1>1 DEF Source!Result
<1> QED BY <1>2, <1>3 DEF Source!Value, Machine!Value

\* What len means.
LEMMA MeansLen ==
  ASSUME NEW e, IsLen(e), NEW env, Source!Eval(e, env).value.type # "none"
  PROVE  /\ e.receiver.k = "Var" /\ env[e.receiver.name].type \in {"Vec", "&Vec"}
         /\ Source!Eval(e, env).value = Machine!Value("usize", Len(env[e.receiver.name].is))
         /\ Source!Eval(e, env).env = env
<1>0. Source!IsLen(e) /\ ~Source!IsVecNew(e) /\ ~Source!IsPush(e)
  BY DEF IsLen, Source!IsLen, Source!IsVecNew, Source!IsPush
<1>1. Source!Eval(e, env) = Source!EvalLen(e, env)
  BY <1>0 DEF Source!Eval
<1>2. e.receiver.k = "Var" /\ e.args = << >> /\ env[e.receiver.name].type \in {"Vec", "&Vec"}
  BY <1>1 DEF Source!EvalLen, Source!Meaningless, Source!Result, Source!None, Source!Value
<1>3. Source!EvalLen(e, env) = Source!Result(Source!Value("usize", Len(env[e.receiver.name].is)), env)
  BY <1>2 DEF Source!EvalLen
<1> QED BY <1>1, <1>2, <1>3 DEF Source!Value, Machine!Value, Source!Result

\* What push means.
LEMMA MeansPush ==
  ASSUME NEW e \in Exprs, IsPush(e), NEW env, Source!Eval(e, env).value.type # "none",
         NEW r, r = Source!EvalPoint(e.args[1], env), NEW v, v = e.receiver.name
  PROVE  /\ e.receiver.k = "Var" /\ e.receiver \in Exprs /\ v \in Names
         /\ Len(e.args) = 1 /\ e.args # << >> /\ e.args[1] \in Exprs
         /\ r.env[v].type = "Vec" /\ r.value.type = "Point"
         /\ Source!Eval(e, env).value = Machine!Unit
         /\ Source!Eval(e, env).env = [r.env EXCEPT ![v] = Machine!Value("Vec", Append(r.env[v].is, r.value.is))]
<1>0. Source!IsPush(e) /\ ~Source!IsVecNew(e) /\ ~Source!IsLen(e)
  BY DEF IsPush, Source!IsPush, Source!IsVecNew, Source!IsLen
<1>1. Source!Eval(e, env) = Source!EvalPush(e, env)
  BY <1>0 DEF Source!Eval
<1>n. \A n : Source!Meaningless(n).value.type = "none"
  BY DEF Source!Meaningless, Source!Result, Source!None, Source!Value
<1>2. e.receiver.k = "Var" /\ Len(e.args) = 1 /\ r.env[v].type = "Vec" /\ r.value.type = "Point"
  <2>1. e.receiver.k = "Var" /\ Len(e.args) = 1
    BY <1>1, <1>n DEF Source!EvalPush
  <2>2. Source!EvalPush(e, env) =
          IF r.env[v].type = "Vec" /\ r.value.type = "Point"
            THEN Source!Result(Source!Value("unit", 0),
                   [r.env EXCEPT ![v] = Source!Value("Vec", Append(r.env[v].is, r.value.is))])
            ELSE Source!Meaningless(r.env)
    BY <2>1 DEF Source!EvalPush
  <2>3. ~(r.env[v].type = "Vec" /\ r.value.type = "Point") => Source!EvalPush(e, env) = Source!Meaningless(r.env)
    BY <2>2, Zenon
  <2> QED BY <1>1, <1>n, <2>1, <2>3
<1>3. Source!EvalPush(e, env) = Source!Result(Source!Value("unit", 0),
        [r.env EXCEPT ![v] = Source!Value("Vec", Append(r.env[v].is, r.value.is))])
  BY <1>2 DEF Source!EvalPush
<1>4. e.receiver \in Exprs /\ e.args \in Seq(Exprs)
  BY ExprsAssumption DEF IsExprUniverse, IsPush
<1>5. v \in Names
  BY <1>2, <1>4, ExprsAssumption DEF IsExprUniverse
<1>6. e.args # << >> /\ e.args[1] \in Exprs
  BY <1>2, <1>4
<1>7. PICK w : w = Source!Value("Vec", Append(r.env[v].is, r.value.is))
  OBVIOUS
<1>8. w = Machine!Value("Vec", Append(r.env[v].is, r.value.is))
  BY <1>7 DEF Source!Value, Machine!Value
<1>9. PICK n : n = [r.env EXCEPT ![v] = w]
  OBVIOUS
<1>10. Source!EvalPush(e, env) = Source!Result(Machine!Unit, n)
  BY <1>3, <1>7, <1>9 DEF Source!Value, Machine!Unit, Machine!Value
<1>11. Source!Eval(e, env).value = Machine!Unit /\ Source!Eval(e, env).env = n
  BY <1>1, <1>10 DEF Source!Result
<1> QED BY <1>2, <1>4, <1>5, <1>6, <1>8, <1>9, <1>11

\* The value of an expression is of a type.
LEMMA ValueProper ==
  ASSUME NEW f, NEW env, Variables(f, env), NEW e \in Exprs, Source!Eval(e, env).value.type # "none"
  PROVE  Proper(Source!Eval(e, env).value)
<1> DEFINE r == Source!Eval(e, env)
<1>t. /\ \A v : Proper(Machine!Value("i32", v)) /\ Proper(Machine!Value("Point", v))
      /\ \A v : Proper(Machine!Value("Vec", v)) /\ Proper(Machine!Value("usize", v))
      /\ Proper(Machine!Unit)
  BY DEF Proper, Types, Machine!Value, Machine!Unit
<1>1. CASE IsVecNew(e)
  BY <1>1, <1>t, MeansNew
<1>2. CASE IsPush(e)
  BY <1>2, <1>t, MeansPush
<1>3. CASE IsLen(e)
  BY <1>3, <1>t, MeansLen
<1>4. CASE ~IsVecNew(e) /\ ~IsPush(e) /\ ~IsLen(e)
  <2>1. r = Source!EvalPoint(e, env)
    BY <1>4 DEF Source!Eval, IsVecNew, IsPush, IsLen, Source!IsVecNew, Source!IsPush, Source!IsLen
  <2>2. CASE e.k = "StructLit"
    <3>1. r = Source!EvalLit(e, env)
      BY <2>1, <2>2, MeansPoint
    <3>2. \E w : Source!EvalLit(e, env).value = Machine!Value("Point", w)
      <4>1. \A n : Source!Meaningless(n).value.type = "none"
        BY DEF Source!Meaningless, Source!Result, Source!None, Source!Value
      <4>2. e.name = "Point" /\ Len(e.fields) = 2 /\ {e.fields[1].field, e.fields[2].field} = {"x", "y"}
        BY <3>1, <4>1 DEF Source!EvalLit
      <4>3. PICK p : p = Source!EvalAtom(e.fields[1].expr, env)
        OBVIOUS
      <4>4. PICK q : q = Source!EvalAtom(e.fields[2].expr, p.env)
        OBVIOUS
      <4>5. PICK x : x = IF e.fields[1].field = "x" THEN p.value ELSE q.value
        OBVIOUS
      <4>6. PICK y : y = IF e.fields[1].field = "x" THEN q.value ELSE p.value
        OBVIOUS
      <4>7. Source!EvalLit(e, env) = Source!Result(
              IF x.type = "i32" /\ y.type = "i32" THEN Source!Value("Point", <<x.is, y.is>>) ELSE Source!None, q.env)
        BY <4>2, <4>3, <4>4, <4>5, <4>6 DEF Source!EvalLit
      <4>8. Source!EvalLit(e, env).value =
              IF x.type = "i32" /\ y.type = "i32" THEN Source!Value("Point", <<x.is, y.is>>) ELSE Source!None
        BY <4>7 DEF Source!Result
      <4>9. Source!None.type = "none"
        BY DEF Source!None, Source!Value
      <4>10. Source!EvalLit(e, env).value = Source!Value("Point", <<x.is, y.is>>)
        BY <3>1, <4>8, <4>9
      <4> QED BY <4>10 DEF Source!Value, Machine!Value
    <3> QED BY <1>t, <3>1, <3>2
  <2>3. CASE e.k = "IntLit"
    <3>1. r = Source!EvalAtom(e, env) /\ e.n \in Int
      BY <2>1, <2>3, MeansPoint, ExprsAssumption DEF IsExprUniverse
    <3> QED BY <1>t, <2>3, <3>1, MeansIntLit
  <2>4. CASE e.k = "Var"
    <3>1. r = Source!EvalAtom(e, env) /\ e.name \in Names
      BY <2>1, <2>4, MeansPoint, ExprsAssumption DEF IsExprUniverse
    <3>2. r.value = env[e.name]
      BY <2>4, <3>1, MeansVar
    <3> QED BY <3>1, <3>2 DEF Variables
  <2> QED BY <2>1, <2>2, <2>3, <2>4, MeansPoint
<1> QED BY <1>1, <1>2, <1>3, <1>4

-----------------------------------------------------------------------------
(* Each action keeps pace.                                                   *)

Running ==
  \E m, rs, env, g, H :
    /\ Memory(m)
    /\ Reaches(fn, args, blocks, current, State(m, rs))
    /\ Tracks(fn, args, next, frames, localMap, m, rs, env, g, H)

Lowering ==
  /\ TypeOK /\ StorageInv /\ NameInv /\ phase = "body"
  /\ Sense(fn, args) /\ Supported(fn)

\* One more statement, or the call that closes the block.
LEMMA WroteOn ==
  ASSUME NEW f, NEW as, NEW S, NEW T, NEW bs \in Seq(S), NEW cur \in Seq(T),
         \A b \in 1 .. Len(bs) : Len(bs[b].statements) \in Nat,
         NEW s, NEW m, NEW rs, NEW m2, NEW rs2, Runs(f, as, s, m, rs, m2, rs2),
         Reaches(f, as, bs, cur, State(m, rs))
  PROVE  Reaches(f, as, bs, Append(cur, s), State(m2, rs2))
<1>1. Do(s, State(m, rs)) = State(m2, rs2)
  BY DEF Do, State, Runs
<1>2. PICK c : c = State(m, rs)
  OBVIOUS
<1>3. Reaches(f, as, bs, cur, c) /\ Fit(f, as, s, c)
  BY <1>2 DEF Runs
<1>4. Reaches(f, as, bs, Append(cur, s), Do(s, c))
  BY <1>3, ReachesStatement
<1> QED BY <1>1, <1>2, <1>4

\* The trace after a call that ends the block in progress.
LEMMA ClosedOn ==
  ASSUME NEW f, NEW as, NEW S, NEW T, NEW bs \in Seq(S), NEW cur \in Seq(T),
         \A b \in 1 .. Len(bs) : Len(bs[b].statements) \in Nat,
         NEW s, NEW m, NEW rs, NEW m2, NEW rs2, Runs(f, as, s, m, rs, m2, rs2),
         Reaches(f, as, bs, cur, State(m, rs))
  PROVE  Reaches(f, as, Append(bs, BasicBlock(cur, s)), << >>, State(m2, rs2))
<1>1. Do(s, State(m, rs)) = State(m2, rs2)
  BY DEF Do, State, Runs
<1>2. PICK c : c = State(m, rs)
  OBVIOUS
<1>3. Reaches(f, as, bs, cur, c) /\ Fit(f, as, s, c)
  BY <1>2 DEF Runs
<1>4. Reaches(f, as, Append(bs, BasicBlock(cur, s)), << >>, Do(s, c))
  BY <1>3, ReachesTerminator
<1> QED BY <1>1, <1>2, <1>4

\* A block has a number of statements.
LEMMA BlocksMeasured ==
  ASSUME NEW k, NEW bs \in Seq(BlockOf(k))
  PROVE  \A b \in 1 .. Len(bs) : Len(bs[b].statements) \in Nat
<1> TAKE b \in 1 .. Len(bs)
<1>1. bs[b] \in BlockOf(k)
  OBVIOUS
<1>2. bs[b].statements \in Seq(StatementOf(k))
  BY <1>1 DEF BlockOf
<1> QED BY <1>2

\* The lowering writes a statement: the trace goes on.
LEMMA WroteOne ==
  ASSUME TypeOK, NEW s, blocks' = blocks, current' = Append(current, s),
         NEW m, NEW rs, NEW m2, NEW rs2, Runs(fn, args, s, m, rs, m2, rs2),
         Reaches(fn, args, blocks, current, State(m, rs))
  PROVE  Reaches(fn, args, blocks', current', State(m2, rs2))
<1>1. blocks \in Seq(BlockOf(Len(locals))) /\ current \in Seq(StatementOf(Len(locals)))
  BY DEF TypeOK
<1>2. \A b \in 1 .. Len(blocks) : Len(blocks[b].statements) \in Nat
  BY <1>1, BlocksMeasured
<1>3. Reaches(fn, args, blocks, Append(current, s), State(m2, rs2))
  BY <1>1, <1>2, WroteOn
<1> QED BY <1>3

\* The lowering writes a call: the trace goes on.
LEMMA WroteCall ==
  ASSUME TypeOK, NEW s, blocks' = Append(blocks, BasicBlock(current, s)), current' = << >>,
         NEW m, NEW rs, NEW m2, NEW rs2, Runs(fn, args, s, m, rs, m2, rs2),
         Reaches(fn, args, blocks, current, State(m, rs))
  PROVE  Reaches(fn, args, blocks', current', State(m2, rs2))
<1>1. blocks \in Seq(BlockOf(Len(locals))) /\ current \in Seq(StatementOf(Len(locals)))
  BY DEF TypeOK
<1>2. \A b \in 1 .. Len(blocks) : Len(blocks[b].statements) \in Nat
  BY <1>1, BlocksMeasured
<1>3. Reaches(fn, args, Append(blocks, BasicBlock(current, s)), << >>, State(m2, rs2))
  BY <1>1, <1>2, ClosedOn
<1> QED BY <1>3

\* The innermost call ends.
LEMMA EndsCall ==
  ASSUME Lowering, fn' = fn, args' = args, next' = next, localMap' = localMap, frames' = Popped,
         NEW n \in Nat, n = Len(frames), n # 0, Top.f # "dead",
         NEW m, NEW rs, NEW env, NEW g, NEW H,
         Tracks(fn, args, next, frames, localMap, m, rs, env, g, H),
         NEW m2, NEW rs2, Memory(m2), Reaches(fn, args, blocks', current', State(m2, rs2)),
         \A l \in Nat : l # Top.dest /\ l \notin Owned(Top) /\ (\A x \in Names : l # localMap[x]) => m2[l] = m[l],
         rs \ {Top.dest} \subseteq rs2,
         NEW e2, e2 = g[n].env, Variables(fn, e2), Holds(localMap, m2, e2, H),
         m2[Top.dest] = g[n].value
  PROVE  Running'
<1>1. TypeOK /\ StorageInv /\ NameInv /\ phase = "body" /\ Sense(fn, args)
  BY DEF Lowering
<1>2. /\ Top = frames[n] /\ Popped = Outer(frames) /\ frames \in Seq(FrameOf(Len(locals)))
      /\ frames[n].f # "dead" => frames[n].dest \in Nat
      /\ \A j \in 1 .. n - 1 : frames[j].f = "push" => frames[j].ref \in Relies(frames[j])
      /\ \A j \in 1 .. n - 1 : \A l \in Relies(frames[j]) :
              /\ l \in Nat
              /\ \A x \in Names : localMap[x] < l
              /\ frames[n].f # "dead" => l # frames[n].dest
              /\ \A k \in Owned(frames[n]) : l # k
  BY <1>1, Apart
<1>m. \A x \in Names : localMap[x] \in Int
  BY <1>1, Numbers
<1>3. ASSUME NEW j \in 1 .. n - 1
      PROVE  /\ \A l \in Relies(frames[j]) : m2[l] = m[l]
             /\ frames[j].f = "push" => frames[j].ref \in rs2
  <2>1. \A l \in Relies(frames[j]) :
           l \in Nat /\ l # Top.dest /\ l \notin Owned(Top) /\ (\A x \in Names : l # localMap[x])
    BY <1>2, <1>m
  <2>2. \A l \in Relies(frames[j]) : m2[l] = m[l]
    BY <2>1
  <2>3. ASSUME frames[j].f = "push" PROVE frames[j].ref \in rs2
    <3>1. j \in 1 .. n /\ j # n
      OBVIOUS
    <3>2. ~Begins(frames[j])
      BY <2>3 DEF Begins
    <3>3. Link(fn, frames[j], g[j], g[j + 1], localMap, m, rs, H)
      BY <3>1, <3>2 DEF Tracks, Calls
    <3>4. frames[j].ref \in rs
      BY <2>3, <3>3 DEF Link
    <3>5. frames[j].ref # Top.dest
      BY <1>2, <2>1, <2>3
    <3> QED BY <3>4, <3>5
  <2> QED BY <2>2, <2>3
<1>4. next \in Nat
  BY <1>1 DEF TypeOK
<1>f. PICK F : frames \in Seq(F)
  BY <1>2
<1>g. Undisturbed(frames, m, m2, rs2)
  BY <1>3 DEF Undisturbed
<1>5. Delivers(fn, args, next, frames, localMap, m, rs, env, g, H, m2, rs2, e2)
  BY <1>1, <1>2, <1>4, <1>g DEF Delivers
<1>6. \E e3, H3 : Tracks(fn, args, next, Outer(frames), localMap, m2, rs2, e3, g, H3)
  BY <1>5, <1>f, Deliver
<1> QED BY <1>2, <1>6, Zenon DEF Running

\* The innermost call, when it lowers an expression.
LEMMA EvalKnown ==
  ASSUME Lowering, Active("eval"), NEW m, NEW rs, NEW env, NEW g, NEW H,
         Tracks(fn, args, next, frames, localMap, m, rs, env, g, H),
         NEW n \in Nat, n = Len(frames)
  PROVE  /\ n # 0 /\ Top = frames[n] /\ Top.f = "eval" /\ Top.f # "dead" /\ Owned(Top) = {}
         /\ Top.expr \in Exprs /\ Top.dest \in Nat /\ Top.dest < Len(locals)
         /\ Allowed(fn, Top.expr, H)
         /\ g[n] = Source!Eval(Top.expr, env) /\ Proper(g[n].value) /\ g[n].value.type # "none"
         /\ Variables(fn, env) /\ Holds(localMap, m, env, H)
         /\ \A x \in Names \ H : localMap[x] # Top.dest
         /\ Top.dest = 0 => g[n].value.type = fn.output
<1>1. TypeOK /\ StorageInv /\ NameInv /\ phase = "body" /\ Sense(fn, args) /\ frames # << >> /\ Top.f = "eval"
  BY DEF Lowering, Active
<1>2. n # 0
  BY <1>1, Numbers
<1>3. /\ Top = frames[n] /\ frames[n] \in FrameOf(Len(locals))
      /\ frames[n].f # "dead" => /\ frames[n].dest \in Nat /\ frames[n].dest < Len(locals)
                                 /\ \A x \in Names \ H : localMap[x] # frames[n].dest
                                 /\ frames[n].dest = 0 => g[n].value.type = fn.output
  BY <1>1, <1>2, Apart
<1>4. Top.f = "eval" /\ Top.f # "dead" /\ Begins(frames[n]) /\ Owned(Top) = {}
  BY <1>1, <1>3 DEF Begins, Owned
<1>5. Top.expr \in Exprs
  BY <1>1, <1>3 DEF FrameOf
<1>6. n \in 1 .. Len(frames)
  BY <1>2
<1>7. /\ Allowed(fn, frames[n].expr, H) /\ Proper(g[n].value)
      /\ g[n] = Source!Eval(frames[n].expr, env)
  BY <1>3, <1>4, <1>6 DEF Tracks, Calls
<1>8. g[n].value.type # "none"
  BY <1>7 DEF Proper, Types
<1>9. Variables(fn, env) /\ Holds(localMap, m, env, H)
  BY DEF Tracks
<1> QED BY <1>2, <1>3, <1>4, <1>5, <1>7, <1>8, <1>9

\* lower_expr_into, a number: its constant arrives where it is awaited.
LEMMA IntLitRuns ==
  ASSUME Lowering, args' = args, Running, LowerIntLit
  PROVE  Running'
<1>1. PICK m, rs, env, g, H : /\ Memory(m) /\ Reaches(fn, args, blocks, current, State(m, rs))
                              /\ Tracks(fn, args, next, frames, localMap, m, rs, env, g, H)
  BY Zenon DEF Running
<1>2. PICK n \in Nat : n = Len(frames)
  BY Numbers DEF Lowering
<1>3. /\ Active("eval") /\ Top.expr.k = "IntLit" /\ blocks' = blocks /\ frames' = Popped
      /\ current' = Append(current, Use(Top.dest, Const(AsI32(Top.expr.n))))
      /\ UNCHANGED <<fn, next, localMap>>
  BY DEF LowerIntLit
<1>4. /\ n # 0 /\ Top = frames[n] /\ Top.f # "dead" /\ Owned(Top) = {}
      /\ Top.expr \in Exprs /\ Top.dest \in Nat
      /\ g[n] = Source!Eval(Top.expr, env) /\ g[n].value.type # "none"
      /\ Variables(fn, env) /\ Holds(localMap, m, env, H)
      /\ \A x \in Names \ H : localMap[x] # Top.dest
      /\ Top.dest = 0 => g[n].value.type = fn.output
  BY <1>1, <1>2, <1>3, EvalKnown
<1>5. Top.expr.n \in Int
  BY <1>3, <1>4, ExprsAssumption DEF IsExprUniverse
<1>k. PICK k : k = AsI32(Top.expr.n)
  OBVIOUS
<1>e. PICK e \in Exprs : e = Top.expr
  BY <1>4
<1>6. Source!Eval(e, env) = Source!EvalAtom(e, env)
  <2>1. ~Source!IsVecNew(e) /\ ~Source!IsPush(e) /\ ~Source!IsLen(e) /\ e.k # "StructLit"
    BY <1>3, <1>e DEF Source!IsVecNew, Source!IsPush, Source!IsLen
  <2> QED BY <2>1 DEF Source!Eval, Source!EvalPoint
<1>7. g[n].value = Machine!Value("i32", k) /\ g[n].env = env
  BY <1>3, <1>4, <1>5, <1>6, <1>k, <1>e, MeansIntLit
<1>d. PICK d \in Nat : d = Top.dest
  BY <1>4
<1>s. PICK s : s = Use(d, Const(k))
  OBVIOUS
<1>8. d = 0 => fn.output = "i32"
  BY <1>4, <1>7, <1>d DEF Machine!Value
<1>9. Memory(m)
  BY <1>1
<1>10. \E m2 : Runs(fn, args, s, m, rs, m2, rs \ {d}) /\ OnlyAt(m, m2, d, Machine!Value("i32", k))
  BY <1>8, <1>9, <1>s, DoConst
<1>rs. PICK rs2 : rs2 = rs \ {d}
  OBVIOUS
<1>11. PICK m2 : Runs(fn, args, s, m, rs, m2, rs2) /\ OnlyAt(m, m2, d, Machine!Value("i32", k))
  BY <1>10, <1>rs
<1>12. Reaches(fn, args, blocks', current', State(m2, rs2))
  <2>1. current' = Append(current, s) /\ blocks' = blocks /\ TypeOK
    BY <1>3, <1>d, <1>s, <1>k DEF Lowering
  <2> QED BY <1>1, <1>11, <2>1, WroteOne
<1>13. /\ Holds(localMap, m2, env, H)
       /\ m2[Top.dest] = g[n].value
       /\ \A l \in Nat : l # Top.dest => m2[l] = m[l]
  BY <1>4, <1>7, <1>11, <1>d DEF Holds, OnlyAt
<1>14. Memory(m2) /\ rs \ {Top.dest} \subseteq rs2
  BY <1>11, <1>d, <1>rs DEF Runs
<1> QED BY <1>1, <1>2, <1>3, <1>4, <1>7, <1>12, <1>13, <1>14, EndsCall

\* lower_expr_into, a variable: its value is moved to where it is awaited.
LEMMA VarRuns ==
  ASSUME Lowering, args' = args, Running, LowerVar
  PROVE  Running'
<1>1. PICK m, rs, env, g, H : /\ Memory(m) /\ Reaches(fn, args, blocks, current, State(m, rs))
                              /\ Tracks(fn, args, next, frames, localMap, m, rs, env, g, H)
  BY Zenon DEF Running
<1>2. PICK n \in Nat : n = Len(frames)
  BY Numbers DEF Lowering
<1>3. /\ Active("eval") /\ Top.expr.k = "Var" /\ blocks' = blocks /\ frames' = Popped
      /\ Bound(Top.expr.name)
      /\ current' = Append(current, Use(Top.dest, Move(localMap[Top.expr.name])))
      /\ UNCHANGED <<fn, next, localMap>>
  BY DEF LowerVar
<1>4. /\ n # 0 /\ Top = frames[n] /\ Top.f # "dead" /\ Owned(Top) = {}
      /\ Top.expr \in Exprs /\ Top.dest \in Nat /\ Allowed(fn, Top.expr, H)
      /\ g[n] = Source!Eval(Top.expr, env) /\ g[n].value.type # "none"
      /\ Variables(fn, env) /\ Holds(localMap, m, env, H)
      /\ \A x \in Names \ H : localMap[x] # Top.dest
      /\ Top.dest = 0 => g[n].value.type = fn.output
  BY <1>1, <1>2, <1>3, EvalKnown
<1>e. PICK e \in Exprs : e = Top.expr
  BY <1>4
<1>x. PICK x : x = e.name
  OBVIOUS
<1>5. x \in Names \ H
  <2>1. x \in Names
    BY <1>3, <1>e, <1>x, ExprsAssumption DEF IsExprUniverse
  <2>2. x \notin H
    BY <1>3, <1>4, <1>e, <1>x DEF Allowed, FinePoint, Fine
  <2> QED BY <2>1, <2>2
<1>6. Source!Eval(e, env) = Source!EvalAtom(e, env)
  <2>1. ~Source!IsVecNew(e) /\ ~Source!IsPush(e) /\ ~Source!IsLen(e) /\ e.k # "StructLit"
    BY <1>3, <1>e DEF Source!IsVecNew, Source!IsPush, Source!IsLen
  <2> QED BY <2>1 DEF Source!Eval, Source!EvalPoint
<1>7. /\ g[n].value = env[x]
      /\ g[n].env = IF env[x].type \in CopyTypes THEN env ELSE [env EXCEPT ![x] = Source!None]
  BY <1>3, <1>4, <1>6, <1>e, <1>x, MeansVar
<1>d. PICK d \in Nat : d = Top.dest
  BY <1>4
<1>v. PICK v \in Nat : v = localMap[x]
  BY <1>4, <1>5, <1>7 DEF Holds
<1>s. PICK s : s = Use(d, Move(v))
  OBVIOUS
<1>8. m[v] = env[x] /\ m[v].type # "none" /\ v # d /\ m[v].type # "uninit" /\ (d = 0 => fn.output = m[v].type)
  <2>1. m[v] = env[x] /\ m[v].type # "none" /\ v # d /\ (d = 0 => fn.output = m[v].type)
    BY <1>4, <1>5, <1>7, <1>d, <1>v DEF Holds
  <2>2. Proper(env[x])
    BY <1>4, <1>5, <2>1 DEF Variables
  <2> QED BY <2>1, <2>2 DEF Proper, Types
<1>9. Memory(m)
  BY <1>1
<1>10. \E m2 : Runs(fn, args, s, m, rs, m2, rs \ {d}) /\ Moves(m, m2, d, v)
  BY <1>8, <1>9, <1>s, DoMove
<1>rs. PICK rs2 : rs2 = rs \ {d}
  OBVIOUS
<1>11. PICK m2 : Runs(fn, args, s, m, rs, m2, rs2) /\ Moves(m, m2, d, v)
  BY <1>10, <1>rs
<1>12. Reaches(fn, args, blocks', current', State(m2, rs2))
  <2>1. current' = Append(current, s) /\ blocks' = blocks /\ TypeOK
    BY <1>3, <1>d, <1>s, <1>e, <1>x, <1>v DEF Lowering
  <2> QED BY <1>1, <1>11, <2>1, WroteOne
<1>e2. PICK e2 : e2 = g[n].env
  OBVIOUS
<1>13. Variables(fn, e2)
  <2>1. env = [y \in Names |-> env[y]]
    BY <1>4 DEF Variables
  <2>2. Drops(env, e2)
    BY <1>4, <1>6, <1>e, <1>e2, <2>1, AtomDrops
  <2> QED BY <1>4, <2>2, DropsVariables
<1>14. Holds(localMap, m2, e2, H)
  <2> SUFFICES ASSUME NEW y \in Names \ H, e2[y].type # "none"
               PROVE  localMap[y] \in Nat /\ m2[localMap[y]] = e2[y]
    BY DEF Holds
  <2>0. Source!None.type = "none"
    BY DEF Source!None, Source!Value
  <2>1. e2[y] = env[y] /\ (y = x => m[v].type \in CopyTypes)
    <3>1. CASE env[x].type \in CopyTypes
      BY <1>7, <1>8, <1>e2, <3>1
    <3>2. CASE env[x].type \notin CopyTypes
      <4>1. PICK N : N = Source!None
        OBVIOUS
      <4>2. e2 = [env EXCEPT ![x] = N]
        BY <1>7, <1>e2, <3>2, <4>1
      <4>3. env = [z \in Names |-> env[z]]
        BY <1>4 DEF Variables
      <4>4. \A z \in Names : e2[z] = IF z = x THEN N ELSE env[z]
        BY <4>2, <4>3
      <4> QED BY <2>0, <4>1, <4>4
    <3> QED BY <3>1, <3>2
  <2>2. localMap[y] \in Nat /\ m[localMap[y]] = env[y]
    BY <1>4, <2>1 DEF Holds
  <2>3. localMap[y] # d
    BY <1>4, <1>d
  <2>4. localMap[y] = v => y = x
    BY <1>5, <1>v DEF Lowering, NameInv, Unbound
  <2> QED BY <1>11, <2>1, <2>2, <2>3, <2>4 DEF Moves
<1>15. m2[Top.dest] = g[n].value
  BY <1>7, <1>8, <1>11, <1>d DEF Moves
<1>16. \A l \in Nat : l # Top.dest /\ l \notin Owned(Top) /\ (\A y \in Names : l # localMap[y]) => m2[l] = m[l]
  BY <1>5, <1>11, <1>d, <1>v DEF Moves
<1>17. Memory(m2) /\ rs \ {Top.dest} \subseteq rs2
  BY <1>11, <1>d, <1>rs DEF Runs
<1>18. UNCHANGED <<fn, next, localMap>> /\ frames' = Popped
  BY <1>3
<1> QED BY <1>1, <1>2, <1>4, <1>12, <1>13, <1>14, <1>15, <1>16, <1>17, <1>18, <1>e2, EndsCall

\* One instruction that gives the innermost call its value, and changes nothing else.
LEMMA GivesValue ==
  ASSUME Lowering, args' = args, frames' = Popped, UNCHANGED <<fn, next, localMap>>,
         NEW m, NEW rs, NEW env, NEW g, NEW H, NEW n \in Nat, n = Len(frames),
         Active("eval"), Tracks(fn, args, next, frames, localMap, m, rs, env, g, H),
         g[n].env = env, NEW s, NEW m2, NEW rs2, rs2 = rs \ {Top.dest},
         Runs(fn, args, s, m, rs, m2, rs2), OnlyAt(m, m2, Top.dest, g[n].value),
         Reaches(fn, args, blocks', current', State(m2, rs2))
  PROVE  Running'
<1>1. /\ n # 0 /\ Top.f # "dead" /\ Owned(Top) = {} /\ Top.dest \in Nat
      /\ Variables(fn, env) /\ Holds(localMap, m, env, H)
      /\ \A x \in Names \ H : localMap[x] # Top.dest
  BY EvalKnown
<1>2. /\ Holds(localMap, m2, env, H)
      /\ m2[Top.dest] = g[n].value
      /\ \A l \in Nat : l # Top.dest => m2[l] = m[l]
  BY <1>1 DEF Holds, OnlyAt
<1>3. Memory(m2) /\ rs \ {Top.dest} \subseteq rs2
  BY DEF Runs
<1> QED BY <1>1, <1>2, <1>3, EndsCall

\* lower_expr_into, Vec::new.
LEMMA VecNewRuns ==
  ASSUME Lowering, args' = args, Running, LowerVecNew
  PROVE  Running'
<1>1. PICK m, rs, env, g, H : /\ Memory(m) /\ Reaches(fn, args, blocks, current, State(m, rs))
                              /\ Tracks(fn, args, next, frames, localMap, m, rs, env, g, H)
  BY Zenon DEF Running
<1>2. PICK n \in Nat : n = Len(frames)
  BY Numbers DEF Lowering
<1>3. /\ Active("eval") /\ IsVecNew(Top.expr) /\ frames' = Popped
      /\ Finalize(Call("new", << >>, Top.dest, NextBlock), << >>)
      /\ UNCHANGED <<fn, next, localMap>>
  BY DEF LowerVecNew
<1>4. /\ Top.dest \in Nat /\ g[n] = Source!Eval(Top.expr, env) /\ g[n].value.type # "none"
      /\ Top.dest = 0 => g[n].value.type = fn.output
  BY <1>1, <1>2, <1>3, EvalKnown
<1>7. g[n].value = Machine!Value("Vec", << >>) /\ g[n].env = env
  BY <1>3, <1>4, MeansNew
<1>d. PICK d \in Nat : d = Top.dest
  BY <1>4
<1>t. PICK t : t = NextBlock
  OBVIOUS
<1>s. PICK s : s = Call("new", << >>, d, t)
  OBVIOUS
<1>8. d = 0 => fn.output = "Vec"
  BY <1>4, <1>7, <1>d DEF Machine!Value
<1>9. Memory(m)
  BY <1>1
<1>10. \E m2 : Runs(fn, args, s, m, rs, m2, rs \ {d}) /\ OnlyAt(m, m2, d, Machine!Value("Vec", << >>))
  BY <1>8, <1>9, <1>s, DoNew
<1>rs. PICK rs2 : rs2 = rs \ {d}
  OBVIOUS
<1>11. PICK m2 : Runs(fn, args, s, m, rs, m2, rs2) /\ OnlyAt(m, m2, d, g[n].value)
  BY <1>7, <1>10, <1>rs
<1>12. Reaches(fn, args, blocks', current', State(m2, rs2))
  <2>1. blocks' = Append(blocks, BasicBlock(current, s)) /\ current' = << >> /\ TypeOK
    BY <1>3, <1>d, <1>s, <1>t DEF Lowering, Finalize
  <2> QED BY <1>1, <1>11, <2>1, WroteCall
<1> QED BY <1>1, <1>2, <1>3, <1>7, <1>11, <1>12, <1>d, <1>rs, GivesValue

\* lower_expr_into, len on a parameter of type &Vec.
LEMMA LenRuns ==
  ASSUME Lowering, args' = args, Running, LowerLen
  PROVE  Running'
<1>1. PICK m, rs, env, g, H : /\ Memory(m) /\ Reaches(fn, args, blocks, current, State(m, rs))
                              /\ Tracks(fn, args, next, frames, localMap, m, rs, env, g, H)
  BY Zenon DEF Running
<1>2. PICK n \in Nat : n = Len(frames)
  BY Numbers DEF Lowering
<1>3. /\ Active("eval") /\ IsLen(Top.expr) /\ frames' = Popped
      /\ Finalize(Call("len", <<Copy(localMap[Top.expr.receiver.name])>>, Top.dest, NextBlock), << >>)
      /\ UNCHANGED <<fn, next, localMap>>
  BY DEF LowerLen
<1>4. /\ Top.expr \in Exprs /\ Top.dest \in Nat /\ Allowed(fn, Top.expr, H)
      /\ g[n] = Source!Eval(Top.expr, env) /\ g[n].value.type # "none"
      /\ Variables(fn, env) /\ Holds(localMap, m, env, H)
      /\ Top.dest = 0 => g[n].value.type = fn.output
  BY <1>1, <1>2, <1>3, EvalKnown
<1>e. PICK e \in Exprs : e = Top.expr
  BY <1>4
<1>x. PICK x : x = e.receiver.name
  OBVIOUS
<1>5. e.receiver.k = "Var" /\ env[x].type \in {"Vec", "&Vec"}
      /\ g[n].value = Machine!Value("usize", Len(env[x].is)) /\ g[n].env = env
  BY <1>3, <1>4, <1>e, <1>x, MeansLen
<1>6. x \in Names \ H /\ x \notin LetNames(fn) /\ \A p \in DOMAIN fn.params : fn.params[p] = x => fn.inputs[p] = "&Vec"
  <2>1. e.receiver \in Exprs /\ e.k = "MethodCall"
    BY <1>3, <1>e, ExprsAssumption DEF IsExprUniverse, IsLen
  <2>2. x \in Names
    BY <1>5, <1>x, <2>1, ExprsAssumption DEF IsExprUniverse
  <2>3. Fine(fn, e, H) /\ Fine(fn, e.receiver, H)
    BY <1>4, <1>e, <2>1 DEF Allowed, FinePoint
  <2>4. x \notin H
    BY <1>5, <1>x, <2>3 DEF Fine
  <2>5. IsLen(e)
    BY <1>3, <1>e
  <2>6. x \notin LetNames(fn) /\ \A p \in DOMAIN fn.params : fn.params[p] = x => fn.inputs[p] = "&Vec"
    BY <1>x, <2>3, <2>5 DEF Fine
  <2> QED BY <2>2, <2>4, <2>6
<1>7. env[x].type = "&Vec" /\ localMap[x] \in Nat /\ m[localMap[x]] = env[x]
  BY <1>4, <1>5, <1>6 DEF Variables, Holds
<1>d. PICK d \in Nat : d = Top.dest
  BY <1>4
<1>v. PICK v \in Nat : v = localMap[x]
  BY <1>7
<1>t. PICK t : t = NextBlock
  OBVIOUS
<1>s. PICK s : s = Call("len", <<Copy(v)>>, d, t)
  OBVIOUS
<1>8. (d = 0 => fn.output = "usize") /\ m[v].type = "&Vec" /\ Memory(m)
  BY <1>1, <1>4, <1>5, <1>7, <1>d, <1>v DEF Machine!Value
<1>10. \E m2 : Runs(fn, args, s, m, rs, m2, rs \ {d}) /\ OnlyAt(m, m2, d, Machine!Value("usize", Len(m[v].is)))
  BY <1>8, <1>s, DoLen
<1>9. g[n].value = Machine!Value("usize", Len(m[v].is))
  BY <1>5, <1>7, <1>v
<1>rs. PICK rs2 : rs2 = rs \ {d}
  OBVIOUS
<1>11. PICK m2 : Runs(fn, args, s, m, rs, m2, rs2) /\ OnlyAt(m, m2, d, g[n].value)
  BY <1>9, <1>10, <1>rs
<1>12. Reaches(fn, args, blocks', current', State(m2, rs2))
  <2>1. blocks' = Append(blocks, BasicBlock(current, s)) /\ current' = << >> /\ TypeOK
    BY <1>3, <1>d, <1>s, <1>t, <1>e, <1>x, <1>v DEF Lowering, Finalize
  <2> QED BY <1>1, <1>11, <2>1, WroteCall
<1> QED BY <1>1, <1>2, <1>3, <1>5, <1>11, <1>12, <1>d, <1>rs, GivesValue

-----------------------------------------------------------------------------
(* Statements.                                                               *)

\* What the restrictions ask of every part, they ask of the whole.
LEMMA NodesAllowed ==
  ASSUME NEW f, NEW e \in Exprs, NEW H, \A x \in Nodes(e) : Fine(f, x, H)
  PROVE  Allowed(f, e, H)
<1>1. Fine(f, e, H)
  BY DEF Nodes
<1>2. ASSUME NEW p \in Parts(e) PROVE FinePoint(f, p, H)
  <2>1. Fine(f, p, H)
    BY DEF Nodes
  <2>2. ASSUME p.k = "StructLit", NEW i \in 1 .. Len(p.fields) PROVE Fine(f, p.fields[i].expr, H)
    <3>1. p.fields[i].expr \in Parts(p)
      BY <2>2 DEF Parts
    <3> QED BY <3>1 DEF Nodes
  <2> QED BY <2>1, <2>2 DEF FinePoint
<1>3. e.k = "StructLit" => \A i \in 1 .. Len(e.fields) : Fine(f, e.fields[i].expr, H)
  <2> SUFFICES ASSUME e.k = "StructLit", NEW i \in 1 .. Len(e.fields) PROVE Fine(f, e.fields[i].expr, H)
    OBVIOUS
  <2>1. e.fields[i].expr \in Parts(e)
    BY DEF Parts
  <2> QED BY <1>2, <2>1 DEF FinePoint
<1>4. ASSUME e.k = "MethodCall"
      PROVE  Fine(f, e.receiver, H) /\ \A i \in DOMAIN e.args : FinePoint(f, e.args[i], H)
  <2>1. Parts(e) = {e.receiver} \cup {e.args[i] : i \in DOMAIN e.args}
    BY <1>4 DEF Parts
  <2>2. FinePoint(f, e.receiver, H) /\ \A i \in DOMAIN e.args : FinePoint(f, e.args[i], H)
    BY <1>2, <2>1
  <2> QED BY <2>2 DEF FinePoint
<1> QED BY <1>1, <1>3, <1>4 DEF Allowed, FinePoint

\* The name that statement s is about to bind.
Hidden(s) == IF s.k = "Let" THEN {s.name} ELSE {}

\* The expression of a statement is allowed there.
LEMMA StmtAllowed ==
  ASSUME NEW f, Supported(f), NEW i \in 1 .. Len(f.stmts), f.stmts[i].expr \in Exprs
  PROVE  Allowed(f, f.stmts[i].expr, Hidden(f.stmts[i]))
<1>s. PICK s : s = f.stmts[i]
  OBVIOUS
<1>1. Nodes(s.expr) \subseteq NodesOf(f)
  BY <1>s DEF NodesOf
<1>2. ASSUME NEW x \in Nodes(s.expr) PROVE Fine(f, x, Hidden(s))
  <2>1. x \in NodesOf(f)
    BY <1>1, <1>2
  <2>2. x.k = "Var" => x.name \notin Hidden(s)
    BY <1>s, <1>2 DEF Supported, InScope, Hidden
  <2>3. x.k = "StructLit" => \A j \in 1 .. Len(x.fields) : x.fields[j].field = <<"x", "y">>[j]
    BY <2>1 DEF Supported, InOrder
  <2>4. IsLen(x) => /\ x.receiver.name \notin LetNames(f)
                    /\ \A p \in DOMAIN f.params : f.params[p] = x.receiver.name => f.inputs[p] = "&Vec"
    BY <2>1 DEF Supported, OnReference
  <2> QED BY <2>2, <2>3, <2>4 DEF Fine
<1> QED BY <1>s, <1>2, NodesAllowed

\* So is the trailing expression.
LEMMA RetAllowed ==
  ASSUME NEW f, Supported(f), NEW i \in DOMAIN f.ret, f.ret[i] \in Exprs
  PROVE  Allowed(f, f.ret[i], {})
<1>s. PICK e \in Exprs : e = f.ret[i]
  OBVIOUS
<1>1. Nodes(e) \subseteq NodesOf(f)
  BY <1>s DEF NodesOf
<1>2. ASSUME NEW x \in Nodes(e) PROVE Fine(f, x, {})
  <2>1. x \in NodesOf(f)
    BY <1>1, <1>2
  <2>3. x.k = "StructLit" => \A j \in 1 .. Len(x.fields) : x.fields[j].field = <<"x", "y">>[j]
    BY <2>1 DEF Supported, InOrder
  <2>4. IsLen(x) => /\ x.receiver.name \notin LetNames(f)
                    /\ \A p \in DOMAIN f.params : f.params[p] = x.receiver.name => f.inputs[p] = "&Vec"
    BY <2>1 DEF Supported, OnReference
  <2> QED BY <2>3, <2>4 DEF Fine
<1> QED BY <1>s, <1>2, NodesAllowed

\* The outermost call of an expression begins.
LEMMA FirstCall ==
  ASSUME NEW f, NEW e, NEW d, NEW lm, NEW m, NEW rs, NEW env, NEW H,
         Allowed(f, e, H), Proper(Source!Eval(e, env).value)
  PROVE  \E g : g[1] = Source!Eval(e, env) /\ Calls(f, <<EvalFrame(e, d)>>, g, lm, m, rs, env, H)
<1>r. PICK r : r = Source!Eval(e, env)
  OBVIOUS
<1>fs. PICK c : c = EvalFrame(e, d)
  OBVIOUS
<1>1. c.f = "eval" /\ c.expr = e /\ Begins(c)
  BY <1>fs DEF EvalFrame, Begins
<1> DEFINE g == [j \in {1} |-> r]
           fs == <<c>>
<1>2. g[1] = r /\ fs[1] = c /\ Len(fs) = 1 /\ \A j \in 1 .. Len(fs) : j = 1
  OBVIOUS
<1> HIDE DEF g, fs
<1>3. Calls(f, fs, g, lm, m, rs, env, H)
  <2> SUFFICES ASSUME NEW j \in 1 .. Len(fs)
               PROVE  /\ Proper(g[j].value)
                      /\ fs[j].f = "dead" => j = 1
                      /\ Begins(fs[j]) /\ j = Len(fs) /\ Allowed(f, fs[j].expr, H)
                      /\ fs[j].f = "fields" => fs[j].tmps = << >>
                      /\ g[j] = IF fs[j].f = "eval" THEN Source!Eval(fs[j].expr, env)
                                                    ELSE Source!EvalLit(fs[j].expr, env)
    BY DEF Calls
  <2> QED BY <1>r, <1>1, <1>2
<1> QED BY <1>r, <1>fs, <1>2, <1>3 DEF fs

\* That of an expression statement waits for its value to declare it dead.
LEMMA FirstCalls ==
  ASSUME NEW f, NEW e, NEW t, NEW lm, NEW m, NEW rs, NEW env, NEW H,
         Allowed(f, e, H), Proper(Source!Eval(e, env).value)
  PROVE  \E g : /\ g[1] = Source!Eval(e, env)
                /\ Calls(f, <<DeadFrame(t), EvalFrame(e, t)>>, g, lm, m, rs, env, H)
<1>r. PICK r : r = Source!Eval(e, env)
  OBVIOUS
<1>fs. PICK b, c : b = DeadFrame(t) /\ c = EvalFrame(e, t)
  OBVIOUS
<1>1. /\ c.f = "eval" /\ c.expr = e /\ Begins(c) /\ c.dest = t
      /\ b.f = "dead" /\ b.tmp = t /\ ~Begins(b) /\ Awaits(b) = t
  BY <1>fs DEF EvalFrame, DeadFrame, Begins, Awaits
<1> DEFINE g == [j \in {1, 2} |-> r]
           fs == <<b, c>>
<1>2. g[1] = r /\ g[2] = r /\ fs[1] = b /\ fs[2] = c /\ Len(fs) = 2 /\ \A j \in 1 .. Len(fs) : j = 1 \/ j = 2
  OBVIOUS
<1> HIDE DEF g, fs
<1>3. Link(f, b, r, r, lm, m, rs, H)
  BY <1>1 DEF Link
<1>4. Calls(f, fs, g, lm, m, rs, env, H)
  <2>1. ASSUME NEW j \in 1 .. Len(fs)
        PROVE  /\ Proper(g[j].value)
               /\ fs[j].f = "dead" => j = 1
               /\ IF Begins(fs[j])
                    THEN /\ j = Len(fs) /\ Allowed(f, fs[j].expr, H)
                         /\ fs[j].f = "fields" => fs[j].tmps = << >>
                         /\ g[j] = IF fs[j].f = "eval" THEN Source!Eval(fs[j].expr, env)
                                                       ELSE Source!EvalLit(fs[j].expr, env)
                    ELSE /\ Link(f, fs[j], g[j], g[j + 1], lm, m, rs, H)
                         /\ IF j = Len(fs) THEN g[j + 1].env = env /\ g[j + 1].value = m[Awaits(fs[j])]
                                           ELSE fs[j + 1].dest = Awaits(fs[j])
    <3>1. CASE j = 1
      BY <1>r, <1>1, <1>2, <1>3, <3>1
    <3>2. CASE j = 2
      BY <1>r, <1>1, <1>2, <3>2
    <3> QED BY <1>2, <3>1, <3>2
  <2> QED BY <2>1 DEF Calls
<1> QED BY <1>r, <1>fs, <1>2, <1>4 DEF fs

\* Between two statements.
LEMMA IdleKnown ==
  ASSUME Lowering, frames = << >>, NEW m, NEW rs, NEW env, NEW g, NEW H,
         Tracks(fn, args, next, frames, localMap, m, rs, env, g, H)
  PROVE  /\ H = {} /\ Variables(fn, env) /\ Holds(localMap, m, env, {})
         /\ next \in 1 .. Len(fn.stmts) + 1 => env = EnvAfter(fn, args, next - 1)
         /\ next = Len(fn.stmts) + 2 /\ fn.ret # << >> => m[0] = Source!Meaning(fn, args) /\ Proper(m[0])
         /\ fn \in Functions /\ next \in Nat /\ next # 0 /\ Len(fn.stmts) \in Nat
<1>1. Bottom(fn, args, next, frames, g, localMap, m, env, H) /\ Variables(fn, env) /\ Holds(localMap, m, env, H)
  BY DEF Tracks
<1>2. fn \in Functions /\ next \in Nat /\ next # 0
  BY DEF Lowering, TypeOK
<1>3. Len(fn.stmts) \in Nat
  BY <1>2, FunctionsAssumption
<1> QED BY <1>1, <1>2, <1>3 DEF Bottom

\* The new local of a statement: nothing else changes.
LEMMA FreshApart ==
  ASSUME TypeOK, NEW d, d = Fresh, NEW m, NEW m2, OnlyAt(m, m2, d, Machine!Uninit)
  PROVE  /\ d \in Nat
         /\ \A x \in Names : localMap[x] # d
         /\ \A env, H : Holds(localMap, m, env, H) => Holds(localMap, m2, env, H)
<1>1. d \in Nat /\ \A x \in Names : localMap[x] # d
  BY DEF TypeOK, Fresh, Locals, Unbound
<1>2. \A x \in Names : localMap[x] \in Nat => m2[localMap[x]] = m[localMap[x]]
  BY <1>1 DEF OnlyAt
<1> QED BY <1>1, <1>2 DEF Holds

\* A statement begins: its temporary gets storage.
LEMMA ExprStmtRuns ==
  ASSUME Lowering, args' = args, Running, LowerExprStmt
  PROVE  Running'
<1>1. PICK m, rs, env, g, H : /\ Memory(m) /\ Reaches(fn, args, blocks, current, State(m, rs))
                              /\ Tracks(fn, args, next, frames, localMap, m, rs, env, g, H)
  BY Zenon DEF Running
<1>d. PICK d : d = Fresh
  OBVIOUS
<1>e. PICK e : e = fn.stmts[next].expr
  OBVIOUS
<1>2. /\ frames = << >> /\ next <= Len(fn.stmts) /\ fn.stmts[next].k = "ExprStmt"
      /\ current' = Append(current, StorageLive(d)) /\ blocks' = blocks
      /\ frames' = <<DeadFrame(d), EvalFrame(e, d)>>
      /\ next' = next + 1 /\ UNCHANGED <<fn, localMap>>
  BY <1>d, <1>e DEF LowerExprStmt, Idle
<1>3. /\ H = {} /\ Variables(fn, env) /\ Holds(localMap, m, env, {})
      /\ next \in 1 .. Len(fn.stmts) + 1 => env = EnvAfter(fn, args, next - 1)
      /\ fn \in Functions /\ next \in Nat /\ next # 0 /\ Len(fn.stmts) \in Nat
  BY <1>1, <1>2, IdleKnown
<1>4. next \in 1 .. Len(fn.stmts) /\ next \in 1 .. Len(fn.stmts) + 1
  BY <1>2, <1>3
<1>5. TypeOK /\ Sense(fn, args) /\ Supported(fn)
  BY DEF Lowering
<1>6. e \in Exprs
  BY <1>2, <1>5, <1>e, StmtParts
<1>7. Allowed(fn, e, {})
  <2>1. fn.stmts[next].expr \in Exprs
    BY <1>6, <1>e
  <2>2. Allowed(fn, fn.stmts[next].expr, Hidden(fn.stmts[next]))
    BY <1>4, <1>5, <2>1, StmtAllowed
  <2>3. Hidden(fn.stmts[next]) = {}
    BY <1>2 DEF Hidden
  <2> QED BY <1>e, <2>2, <2>3
<1>r. PICK r : r = Source!Eval(e, env)
  OBVIOUS
<1>8. r.value.type # "none" /\ EnvAfter(fn, args, next) = r.env
  BY <1>2, <1>3, <1>4, <1>5, <1>e, <1>r DEF Sense
<1>9. Proper(r.value)
  BY <1>3, <1>6, <1>8, <1>r, ValueProper
<1>10. PICK m2 : Runs(fn, args, StorageLive(d), m, rs, m2, rs) /\ OnlyAt(m, m2, d, Machine!Uninit)
  <2>1. d \in Nat
    BY <1>5, <1>d DEF TypeOK, Fresh
  <2>2. Memory(m)
    BY <1>1
  <2>3. PICK s \in {StorageLive(d), StorageDead(d)} : s = StorageLive(d)
    OBVIOUS
  <2>4. \E m2 : Runs(fn, args, s, m, rs, m2, rs) /\ OnlyAt(m, m2, d, Machine!Uninit)
    BY <2>1, <2>2, DoStorage
  <2> QED BY <2>3, <2>4
<1>11. Reaches(fn, args, blocks', current', State(m2, rs)) /\ Memory(m2)
  <2>1. PICK s : s = StorageLive(d)
    OBVIOUS
  <2>2. current' = Append(current, s) /\ blocks' = blocks /\ Runs(fn, args, s, m, rs, m2, rs)
    BY <1>2, <1>10, <2>1
  <2> QED BY <1>1, <1>5, <2>2, WroteOne DEF Runs
<1>12. Holds(localMap, m2, env, {})
  BY <1>3, <1>5, <1>10, <1>d, FreshApart
<1>13. PICK g2 : g2[1] = r /\ Calls(fn, <<DeadFrame(d), EvalFrame(e, d)>>, g2, localMap, m2, rs, env, {})
  BY <1>7, <1>9, <1>r, FirstCalls
<1>14. PICK fs : fs = <<DeadFrame(d), EvalFrame(e, d)>>
  OBVIOUS
<1>15. fs # << >> /\ fs[1].f = "dead"
  BY <1>14 DEF DeadFrame
<1>n. PICK n \in Nat : n = next + 1
  BY <1>3
<1>16. Bottom(fn, args, n, fs, g2, localMap, m2, env, {})
  <2>1. n - 1 = next
    BY <1>3, <1>n
  <2>2. fn.stmts[next].k # "Let"
    BY <1>2
  <2> QED BY <1>4, <1>8, <1>13, <1>15, <2>1, <2>2 DEF Bottom
<1>17. Tracks(fn, args, n, fs, localMap, m2, rs, env, g2, {})
  BY <1>3, <1>12, <1>13, <1>14, <1>16 DEF Tracks
<1>18. fn' = fn /\ args' = args /\ next' = n /\ frames' = fs /\ localMap' = localMap
  BY <1>2, <1>14, <1>n
<1> QED BY <1>11, <1>17, <1>18, Zenon DEF Running

\* A let begins: its local gets storage and the name, which the initialiser does not mention.
LEMMA LetRuns ==
  ASSUME Lowering, args' = args, Running, LowerLet
  PROVE  Running'
<1>1. PICK m, rs, env, g, H : /\ Memory(m) /\ Reaches(fn, args, blocks, current, State(m, rs))
                              /\ Tracks(fn, args, next, frames, localMap, m, rs, env, g, H)
  BY Zenon DEF Running
<1>d. PICK d : d = Fresh
  OBVIOUS
<1>e. PICK e : e = fn.stmts[next].expr
  OBVIOUS
<1>x. PICK x : x = fn.stmts[next].name
  OBVIOUS
<1>2. /\ frames = << >> /\ next <= Len(fn.stmts) /\ fn.stmts[next].k = "Let"
      /\ current' = Append(current, StorageLive(d)) /\ blocks' = blocks
      /\ frames' = <<EvalFrame(e, d)>>
      /\ next' = next + 1 /\ fn' = fn /\ localMap' = [localMap EXCEPT ![x] = d]
  BY <1>d, <1>e, <1>x DEF LowerLet, Idle
<1>3. /\ H = {} /\ Variables(fn, env) /\ Holds(localMap, m, env, {})
      /\ next \in 1 .. Len(fn.stmts) + 1 => env = EnvAfter(fn, args, next - 1)
      /\ fn \in Functions /\ next \in Nat /\ next # 0 /\ Len(fn.stmts) \in Nat
  BY <1>1, <1>2, IdleKnown
<1>4. next \in 1 .. Len(fn.stmts) /\ next \in 1 .. Len(fn.stmts) + 1
  BY <1>2, <1>3
<1>5. TypeOK /\ Sense(fn, args) /\ Supported(fn)
  BY DEF Lowering
<1>6. e \in Exprs /\ x \in Names
  BY <1>2, <1>5, <1>e, <1>x, StmtParts
<1>7. Allowed(fn, e, {x})
  <2>1. fn.stmts[next].expr \in Exprs
    BY <1>6, <1>e
  <2>2. Allowed(fn, fn.stmts[next].expr, Hidden(fn.stmts[next]))
    BY <1>4, <1>5, <2>1, StmtAllowed
  <2>3. Hidden(fn.stmts[next]) = {x}
    BY <1>2, <1>x DEF Hidden
  <2> QED BY <1>e, <2>2, <2>3
<1>r. PICK r : r = Source!Eval(e, env)
  OBVIOUS
<1>8. r.value.type # "none" /\ EnvAfter(fn, args, next) = Named(r, x)
  BY <1>2, <1>3, <1>4, <1>5, <1>e, <1>r, <1>x DEF Sense
<1>9. Proper(r.value)
  BY <1>3, <1>6, <1>8, <1>r, ValueProper
<1>10. PICK m2 : Runs(fn, args, StorageLive(d), m, rs, m2, rs) /\ OnlyAt(m, m2, d, Machine!Uninit)
  <2>1. d \in Nat
    BY <1>5, <1>d DEF TypeOK, Fresh
  <2>2. Memory(m)
    BY <1>1
  <2>3. PICK s \in {StorageLive(d), StorageDead(d)} : s = StorageLive(d)
    OBVIOUS
  <2>4. \E m2 : Runs(fn, args, s, m, rs, m2, rs) /\ OnlyAt(m, m2, d, Machine!Uninit)
    BY <2>1, <2>2, DoStorage
  <2> QED BY <2>3, <2>4
<1>11. Reaches(fn, args, blocks', current', State(m2, rs)) /\ Memory(m2)
  <2>1. PICK s : s = StorageLive(d)
    OBVIOUS
  <2>2. current' = Append(current, s) /\ blocks' = blocks /\ Runs(fn, args, s, m, rs, m2, rs)
    BY <1>2, <1>10, <2>1
  <2> QED BY <1>1, <1>5, <2>2, WroteOne DEF Runs
<1>lm. PICK lm : lm = [localMap EXCEPT ![x] = d]
  OBVIOUS
<1>m. /\ \A y \in Names : y # x => lm[y] = localMap[y]
      /\ lm[x] = d
  BY <1>5, <1>6, <1>lm DEF TypeOK
<1>12. Holds(lm, m2, env, {x})
  <2>1. Holds(localMap, m2, env, {})
    BY <1>3, <1>5, <1>10, <1>d, FreshApart
  <2> QED BY <1>m, <2>1 DEF Holds
<1>13. PICK g2 : g2[1] = r /\ Calls(fn, <<EvalFrame(e, d)>>, g2, lm, m2, rs, env, {x})
  BY <1>7, <1>9, <1>r, FirstCall
<1>14. PICK fs : fs = <<EvalFrame(e, d)>>
  OBVIOUS
<1>15. fs # << >> /\ fs[1].f # "dead" /\ fs[1].dest = d
  BY <1>14 DEF EvalFrame
<1>n. PICK n \in Nat : n = next + 1
  BY <1>3
<1>16. Bottom(fn, args, n, fs, g2, lm, m2, env, {x})
  <2>1. n - 1 = next
    BY <1>3, <1>n
  <2> QED BY <1>2, <1>4, <1>8, <1>13, <1>15, <1>m, <1>x, <2>1 DEF Bottom
<1>17. Tracks(fn, args, n, fs, lm, m2, rs, env, g2, {x})
  BY <1>3, <1>12, <1>13, <1>14, <1>16 DEF Tracks
<1>18. fn' = fn /\ args' = args /\ next' = n /\ frames' = fs /\ localMap' = lm
  BY <1>2, <1>14, <1>n, <1>lm
<1> QED BY <1>11, <1>17, <1>18, Zenon DEF Running

\* The trailing expression begins, into the return place.
LEMMA RetRuns ==
  ASSUME Lowering, args' = args, Running, LowerRet
  PROVE  Running'
<1>1. PICK m, rs, env, g, H : /\ Memory(m) /\ Reaches(fn, args, blocks, current, State(m, rs))
                              /\ Tracks(fn, args, next, frames, localMap, m, rs, env, g, H)
  BY Zenon DEF Running
<1>2. /\ frames = << >> /\ next = Len(fn.stmts) + 1
      /\ frames' = IF fn.ret = << >> THEN << >> ELSE <<EvalFrame(fn.ret[1], 0)>>
      /\ next' = next + 1 /\ UNCHANGED <<fn, localMap, blocks, current>>
  BY DEF LowerRet, Idle
<1>3. /\ H = {} /\ Variables(fn, env) /\ Holds(localMap, m, env, {})
      /\ next \in 1 .. Len(fn.stmts) + 1 => env = EnvAfter(fn, args, next - 1)
      /\ fn \in Functions /\ next \in Nat /\ next # 0 /\ Len(fn.stmts) \in Nat
  BY <1>1, <1>2, IdleKnown
<1>4. env = EnvAfter(fn, args, Len(fn.stmts))
  BY <1>2, <1>3
<1>5. TypeOK /\ Sense(fn, args) /\ Supported(fn)
  BY DEF Lowering
<1>n. PICK n \in Nat : n = Len(fn.stmts) + 2 /\ next' = n
  BY <1>2, <1>3
<1>nn. n # Len(fn.stmts) + 1 /\ n \notin 1 .. Len(fn.stmts) + 1
  BY <1>3, <1>n
<1>6. CASE fn.ret = << >>
  <2>fs. PICK fs : fs = << >>
    OBVIOUS
  <2>1. Calls(fn, fs, g, localMap, m, rs, env, {})
    <3>1. \A j : j \notin 1 .. Len(fs)
      BY <2>fs
    <3> QED BY <3>1 DEF Calls
  <2>2. Bottom(fn, args, n, fs, g, localMap, m, env, {})
    BY <1>6, <1>nn, <2>fs DEF Bottom
  <2>3. Tracks(fn, args, n, fs, localMap, m, rs, env, g, {})
    BY <1>3, <2>1, <2>2 DEF Tracks
  <2>4. fn' = fn /\ args' = args /\ next' = n /\ frames' = fs /\ localMap' = localMap
        /\ blocks' = blocks /\ current' = current
    BY <1>2, <1>6, <1>n, <2>fs
  <2> QED BY <1>1, <2>3, <2>4, Zenon DEF Running
<1>7. CASE fn.ret # << >>
  <2>1. fn.ret \in Seq(Exprs) /\ 1 \in DOMAIN fn.ret
    BY <1>3, <1>7, FunctionsAssumption
  <2>e. PICK e \in Exprs : e = fn.ret[1]
    BY <2>1
  <2>2. Allowed(fn, e, {})
    <3>1. fn.ret[1] \in Exprs
      BY <2>e
    <3> QED BY <1>5, <2>1, <2>e, <3>1, RetAllowed
  <2>r. PICK r : r = Source!Eval(e, env)
    OBVIOUS
  <2>3. r.value = Source!Meaning(fn, args) /\ r.value.type = fn.output
    BY <1>4, <1>5, <1>7, <2>e, <2>r DEF Sense
  <2>4. r.value.type # "none"
    <3>1. fn.output \in Types
      BY <1>3, FunctionsAssumption
    <3> QED BY <2>3, <3>1 DEF Types
  <2>5. Proper(r.value)
    BY <1>3, <2>4, <2>r, ValueProper
  <2>6. PICK g2 : g2[1] = r /\ Calls(fn, <<EvalFrame(e, 0)>>, g2, localMap, m, rs, env, {})
    BY <2>2, <2>5, <2>r, FirstCall
  <2>fs. PICK fs : fs = <<EvalFrame(e, 0)>>
    OBVIOUS
  <2>7. fs # << >> /\ fs[1].f # "dead" /\ fs[1].dest = 0
    BY <2>fs DEF EvalFrame
  <2>8. Bottom(fn, args, n, fs, g2, localMap, m, env, {})
    BY <1>7, <1>n, <2>3, <2>6, <2>7 DEF Bottom
  <2>9. Tracks(fn, args, n, fs, localMap, m, rs, env, g2, {})
    BY <1>3, <2>6, <2>8, <2>fs DEF Tracks
  <2>10. fn' = fn /\ args' = args /\ next' = n /\ frames' = fs /\ localMap' = localMap
        /\ blocks' = blocks /\ current' = current
    BY <1>2, <1>7, <1>n, <2>fs, <2>e
  <2> QED BY <1>1, <2>9, <2>10, Zenon DEF Running
<1> QED BY <1>6, <1>7

\* A statement ends: its temporary dies.
LEMMA EndExprStmtRuns ==
  ASSUME Lowering, args' = args, Running, EndExprStmt
  PROVE  Running'
<1>1. PICK m, rs, env, g, H : /\ Memory(m) /\ Reaches(fn, args, blocks, current, State(m, rs))
                              /\ Tracks(fn, args, next, frames, localMap, m, rs, env, g, H)
  BY Zenon DEF Running
<1>2. PICK n \in Nat : n = Len(frames)
  BY Numbers DEF Lowering
<1>3. /\ frames # << >> /\ Top.f = "dead" /\ frames' = Popped
      /\ current' = Append(current, StorageDead(Top.tmp))
      /\ UNCHANGED <<fn, next, localMap, blocks>>
  BY DEF EndExprStmt, Active
<1>4. TypeOK /\ StorageInv /\ NameInv /\ phase = "body" /\ Sense(fn, args)
  BY DEF Lowering
<1>5. n # 0
  BY <1>2, <1>3, <1>4, Numbers
<1>6. /\ Top = frames[n] /\ Popped = Outer(frames) /\ frames \in Seq(FrameOf(Len(locals)))
      /\ \A k \in Owned(frames[n]) : k \in Nat /\ \A x \in Names : localMap[x] < k
  BY <1>1, <1>2, <1>4, <1>5, Apart
<1>t. PICK t : t = Top.tmp
  OBVIOUS
<1>7. frames[n].f = "dead" /\ ~Begins(frames[n]) /\ Owned(frames[n]) = {t}
  BY <1>3, <1>6, <1>t DEF Begins, Owned
<1>8. t \in Nat /\ \A x \in Names : localMap[x] # t
  <2>1. \A x \in Names : localMap[x] \in Int
    BY <1>4, Numbers
  <2> QED BY <1>6, <1>7, <2>1
<1>c. Calls(fn, frames, g, localMap, m, rs, env, H) /\ Bottom(fn, args, next, frames, g, localMap, m, env, H)
      /\ Variables(fn, env) /\ Holds(localMap, m, env, H)
  BY <1>1 DEF Tracks
<1>9. n = 1 /\ g[2] = g[1] /\ g[2].env = env
  <2>0. n \in 1 .. Len(frames)
    BY <1>2, <1>5
  <2>1. n = 1
    BY <1>7, <1>c, <2>0 DEF Calls
  <2>2. g[n + 1].env = env /\ Link(fn, frames[n], g[n], g[n + 1], localMap, m, rs, H)
    BY <1>2, <1>7, <1>c, <2>0 DEF Calls
  <2>3. n + 1 = 2
    BY <2>1
  <2> QED BY <1>7, <2>1, <2>2, <2>3 DEF Link
<1>10. H = {} /\ next - 1 \in 1 .. Len(fn.stmts) /\ EnvAfter(fn, args, next - 1) = env
  BY <1>3, <1>7, <1>9, <1>c DEF Bottom
<1>11. PICK m2 : Runs(fn, args, StorageDead(t), m, rs, m2, rs) /\ OnlyAt(m, m2, t, Machine!Uninit)
  <2>2. Memory(m)
    BY <1>1
  <2>3. PICK s \in {StorageLive(t), StorageDead(t)} : s = StorageDead(t)
    OBVIOUS
  <2>4. \E m2 : Runs(fn, args, s, m, rs, m2, rs) /\ OnlyAt(m, m2, t, Machine!Uninit)
    BY <1>8, <2>2, DoStorage
  <2> QED BY <2>3, <2>4
<1>12. Reaches(fn, args, blocks', current', State(m2, rs)) /\ Memory(m2)
  <2>1. PICK s : s = StorageDead(t)
    OBVIOUS
  <2>2. current' = Append(current, s) /\ blocks' = blocks /\ Runs(fn, args, s, m, rs, m2, rs)
    BY <1>3, <1>11, <1>t, <2>1
  <2> QED BY <1>1, <1>4, <2>2, WroteOne DEF Runs
<1>13. Holds(localMap, m2, env, {})
  BY <1>8, <1>10, <1>11, <1>c DEF Holds, OnlyAt
<1>14. frames' = << >>
  BY <1>2, <1>3, <1>5, <1>6, <1>9, OuterIs
<1>fs. PICK fs : fs = << >>
  OBVIOUS
<1>15. Calls(fn, fs, g, localMap, m2, rs, env, {})
  <2>1. \A j : j \notin 1 .. Len(fs)
    BY <1>fs
  <2> QED BY <2>1 DEF Calls
<1>16. Bottom(fn, args, next, fs, g, localMap, m2, env, {})
  <2>1. next # Len(fn.stmts) + 2
    <3>1. fn \in Functions /\ next \in Nat
      BY <1>4 DEF TypeOK
    <3>2. Len(fn.stmts) \in Nat
      BY <3>1, FunctionsAssumption
    <3> QED BY <1>10, <3>1, <3>2
  <2> QED BY <1>10, <1>fs, <2>1 DEF Bottom
<1>17. Tracks(fn, args, next, fs, localMap, m2, rs, env, g, {})
  BY <1>13, <1>15, <1>16, <1>c DEF Tracks
<1>18. fn' = fn /\ args' = args /\ next' = next /\ frames' = fs /\ localMap' = localMap
  BY <1>3, <1>14, <1>fs
<1> QED BY <1>12, <1>17, <1>18, Zenon DEF Running

-----------------------------------------------------------------------------
(* Struct literals.                                                          *)

\* The innermost call goes on as c, which has not lowered anything yet either.
LEMMA GoesOn ==
  ASSUME NEW F, NEW fs \in Seq(F), NEW n \in Nat, n = Len(fs), n # 0,
         NEW f, NEW as, NEW nx, NEW g, NEW lm, NEW m, NEW rs, NEW env, NEW H,
         Tracks(f, as, nx, fs, lm, m, rs, env, g, H), fs[n].f # "dead",
         NEW c, c.f # "dead", c.dest = fs[n].dest, Begins(c), Allowed(f, c.expr, H),
         c.f = "fields" => c.tmps = << >>,
         g[n] = IF c.f = "eval" THEN Source!Eval(c.expr, env) ELSE Source!EvalLit(c.expr, env),
         NEW s, s = Append(Outer(fs), c)
  PROVE  Tracks(f, as, nx, s, lm, m, rs, env, g, H)
<1>1. (\A j \in 1 .. n - 1 : s[j] = fs[j]) /\ s[n] = c /\ Len(s) = n
  BY Replaced
<1>2. /\ Calls(f, fs, g, lm, m, rs, env, H) /\ Bottom(f, as, nx, fs, g, lm, m, env, H)
      /\ Variables(f, env) /\ Holds(lm, m, env, H)
  BY DEF Tracks
<1>3. Calls(f, s, g, lm, m, rs, env, H)
  <2>1. ASSUME NEW j \in 1 .. n
        PROVE  /\ Proper(g[j].value)
               /\ s[j].f = "dead" => j = 1
               /\ IF Begins(s[j])
                    THEN /\ j = n /\ Allowed(f, s[j].expr, H)
                         /\ s[j].f = "fields" => s[j].tmps = << >>
                         /\ g[j] = IF s[j].f = "eval" THEN Source!Eval(s[j].expr, env)
                                                      ELSE Source!EvalLit(s[j].expr, env)
                    ELSE /\ Link(f, s[j], g[j], g[j + 1], lm, m, rs, H)
                         /\ IF j = n THEN g[j + 1].env = env /\ g[j + 1].value = m[Awaits(s[j])]
                                     ELSE s[j + 1].dest = Awaits(s[j])
    <3>0. Proper(g[j].value)
      BY <1>2 DEF Calls
    <3>1. CASE j = n
      BY <1>1, <3>0, <3>1
    <3>2. CASE j # n
      <4>1. j \in 1 .. n - 1
        BY <3>2
      <4>2. /\ (fs[j].f = "dead" => j = 1) /\ ~Begins(fs[j])
            /\ Link(f, fs[j], g[j], g[j + 1], lm, m, rs, H)
            /\ fs[j + 1].dest = Awaits(fs[j])
        BY <1>2, <3>2 DEF Calls
      <4>3. s[j] = fs[j]
        BY <1>1, <4>1
      <4>4. s[j + 1].dest = fs[j + 1].dest
        <5>1. CASE j + 1 = n
          BY <1>1, <5>1
        <5>2. CASE j + 1 # n
          <6>1. j + 1 \in 1 .. n - 1
            BY <4>1, <5>2
          <6> QED BY <1>1, <6>1
        <5> QED BY <5>1, <5>2
      <4> QED BY <3>0, <3>2, <4>2, <4>3, <4>4
    <3> QED BY <3>1, <3>2
  <2> QED BY <1>1, <2>1 DEF Calls
<1>4. Bottom(f, as, nx, s, g, lm, m, env, H)
  <2>1. fs # << >> /\ s # << >>
    BY <1>1
  <2>2. (s[1].f = "dead" <=> fs[1].f = "dead") /\ (fs[1].f # "dead" => s[1].dest = fs[1].dest)
    <3>1. CASE n = 1
      BY <1>1, <3>1
    <3>2. CASE n # 1
      <4>1. 1 \in 1 .. n - 1
        BY <3>2
      <4> QED BY <1>1, <4>1
    <3> QED BY <3>1, <3>2
  <2> QED BY <1>2, <2>1, <2>2 DEF Bottom
<1> QED BY <1>2, <1>3, <1>4 DEF Tracks

\* A struct literal begins with its first field.
LEMMA BeginStructRuns ==
  ASSUME Lowering, args' = args, Running, BeginStruct
  PROVE  Running'
<1>1. PICK m, rs, env, g, H : /\ Memory(m) /\ Reaches(fn, args, blocks, current, State(m, rs))
                              /\ Tracks(fn, args, next, frames, localMap, m, rs, env, g, H)
  BY Zenon DEF Running
<1>2. PICK n \in Nat : n = Len(frames)
  BY Numbers DEF Lowering
<1>e. PICK e, d : e = Top.expr /\ d = Top.dest
  OBVIOUS
<1>c. PICK c : c = FieldsFrame(0, << >>, e, d)
  OBVIOUS
<1>3. /\ Active("eval") /\ e.k = "StructLit" /\ frames' = Append(Popped, c)
      /\ UNCHANGED <<fn, next, localMap, blocks, current>>
  BY <1>e, <1>c DEF BeginStruct
<1>4. /\ n # 0 /\ Top = frames[n] /\ Top.f # "dead"
      /\ e \in Exprs /\ Allowed(fn, e, H)
      /\ g[n] = Source!Eval(e, env) /\ g[n].value.type # "none"
  BY <1>1, <1>2, <1>3, <1>e, EvalKnown
<1>5. g[n] = Source!EvalLit(e, env)
  <2>1. ~Source!IsVecNew(e) /\ ~Source!IsPush(e) /\ ~Source!IsLen(e)
    BY <1>3 DEF Source!IsVecNew, Source!IsPush, Source!IsLen
  <2> QED BY <1>3, <1>4, <2>1 DEF Source!Eval, Source!EvalPoint
<1>6. /\ c.f # "dead" /\ c.f # "eval" /\ c.dest = d /\ c.expr = e /\ Begins(c) /\ c.tmps = << >>
  BY <1>c DEF FieldsFrame, Begins
<1>7. Popped = Outer(frames) /\ frames \in Seq(FrameOf(Len(locals)))
  BY DEF Popped, Outer, Lowering, TypeOK
<1>F. PICK F : frames \in Seq(F)
  BY <1>7
<1>fs. PICK fs : fs = Append(Outer(frames), c)
  OBVIOUS
<1>8. Tracks(fn, args, next, fs, localMap, m, rs, env, g, H)
  <2>1. /\ frames[n].f # "dead" /\ c.f # "dead" /\ c.dest = frames[n].dest /\ Allowed(fn, c.expr, H)
        /\ g[n] = IF c.f = "eval" THEN Source!Eval(c.expr, env) ELSE Source!EvalLit(c.expr, env)
    BY <1>4, <1>5, <1>6, <1>e
  <2> QED BY <1>1, <1>2, <1>4, <1>6, <1>F, <1>fs, <2>1, GoesOn
<1>9. fn' = fn /\ args' = args /\ next' = next /\ frames' = fs /\ localMap' = localMap
        /\ blocks' = blocks /\ current' = current
  BY <1>3, <1>7, <1>fs
<1> QED BY <1>1, <1>8, <1>9, Zenon DEF Running

\* What a call that waits for nothing has, and what one that awaits a value has.
LEMMA TopKnown ==
  ASSUME Lowering, NEW n \in Nat, n = Len(frames), n # 0, NEW m, NEW rs, NEW env, NEW g, NEW H,
         Tracks(fn, args, next, frames, localMap, m, rs, env, g, H), Top.f # "dead"
  PROVE  /\ Top = frames[n] /\ Top.dest \in Nat /\ Top.dest < Len(locals)
         /\ Proper(g[n].value)
         /\ Begins(Top) => Allowed(fn, Top.expr, H) /\ (Top.f = "fields" => Top.tmps = << >>)
              /\ g[n] = IF Top.f = "eval" THEN Source!Eval(Top.expr, env) ELSE Source!EvalLit(Top.expr, env)
         /\ ~Begins(Top) => Link(fn, Top, g[n], g[n + 1], localMap, m, rs, H)
              /\ g[n + 1].env = env /\ g[n + 1].value = m[Awaits(Top)]
         /\ Variables(fn, env) /\ Holds(localMap, m, env, H)
         /\ \A x \in Names \ H : localMap[x] # Top.dest
         /\ Top.dest = 0 => g[n].value.type = fn.output
         /\ \A k \in Owned(Top) : k \in Nat /\ k # 0 /\ k < Len(locals) /\ k # Top.dest /\ \A x \in Names : localMap[x] # k
         /\ Within(Top) /\ Top \in FrameOf(Len(locals))
<1>1. TypeOK /\ StorageInv /\ NameInv /\ phase = "body" /\ Sense(fn, args)
  BY DEF Lowering
<1>2. /\ Top = frames[n] /\ Within(frames[n]) /\ frames[n] \in FrameOf(Len(locals))
      /\ frames[n].f # "dead" => /\ frames[n].dest \in Nat /\ frames[n].dest < Len(locals)
                                 /\ \A x \in Names \ H : localMap[x] # frames[n].dest
                                 /\ frames[n].dest = 0 => g[n].value.type = fn.output
      /\ \A k \in Owned(frames[n]) : /\ k \in Nat /\ k # 0 /\ k < Len(locals)
                                     /\ \A x \in Names : localMap[x] < k
  BY <1>1, Apart
<1>3. \A x \in Names : localMap[x] \in Int
  BY <1>1, Numbers
<1>4. \A k \in Owned(Top) : k # Top.dest
  <2>1. \A k \in Owned(Top) : Top.dest < k
    BY <1>2 DEF Within, Dest
  <2> QED BY <1>2, <2>1
<1>5. n \in 1 .. Len(frames)
  OBVIOUS
<1>6. /\ Proper(g[n].value)
      /\ Begins(frames[n]) => Allowed(fn, frames[n].expr, H) /\ (frames[n].f = "fields" => frames[n].tmps = << >>)
              /\ g[n] = IF frames[n].f = "eval" THEN Source!Eval(frames[n].expr, env) ELSE Source!EvalLit(frames[n].expr, env)
      /\ ~Begins(frames[n]) => Link(fn, frames[n], g[n], g[n + 1], localMap, m, rs, H)
              /\ g[n + 1].env = env /\ g[n + 1].value = m[Awaits(frames[n])]
  BY <1>5 DEF Tracks, Calls
<1>7. Variables(fn, env) /\ Holds(localMap, m, env, H)
  BY DEF Tracks
<1>8. \A k \in Owned(Top) : \A x \in Names : localMap[x] # k
  BY <1>2, <1>3
<1>9. \A k \in Owned(Top) : k \in Nat /\ k # 0 /\ k < Len(locals)
  BY <1>2
<1>10. Begins(Top) => Allowed(fn, Top.expr, H) /\ (Top.f = "fields" => Top.tmps = << >>)
              /\ g[n] = IF Top.f = "eval" THEN Source!Eval(Top.expr, env) ELSE Source!EvalLit(Top.expr, env)
  BY <1>2, <1>6
<1>11. ~Begins(Top) => Link(fn, Top, g[n], g[n + 1], localMap, m, rs, H)
              /\ g[n + 1].env = env /\ g[n + 1].value = m[Awaits(Top)]
  BY <1>2, <1>6
<1> QED BY <1>2, <1>4, <1>6, <1>7, <1>8, <1>9, <1>10, <1>11

\* The innermost call lowers a part, with what is new in new locals.
LEMMA EntersCall ==
  ASSUME Lowering, args' = args, UNCHANGED <<fn, next, localMap>>,
         NEW n \in Nat, n = Len(frames), n # 0, Top.f # "dead",
         NEW m, NEW rs, NEW env, NEW g, NEW H,
         Tracks(fn, args, next, frames, localMap, m, rs, env, g, H),
         NEW c, NEW e, frames' = Append(Append(Popped, c), EvalFrame(e, Awaits(c))),
         c.f # "dead", c.dest = Top.dest, ~Begins(c),
         Allowed(fn, e, H), Proper(Source!Eval(e, env).value),
         NEW m2, NEW rs2, Memory(m2), rs \subseteq rs2,
         Reaches(fn, args, blocks', current', State(m2, rs2)),
         \A l \in Nat : l < Len(locals) => m2[l] = m[l],
         Link(fn, c, g[n], Source!Eval(e, env), localMap, m2, rs2, H)
  PROVE  Running'
<1>1. TypeOK /\ StorageInv /\ NameInv /\ phase = "body" /\ Sense(fn, args)
  BY DEF Lowering
<1>2. /\ Top = frames[n] /\ Popped = Outer(frames) /\ frames \in Seq(FrameOf(Len(locals)))
      /\ \A j \in 1 .. n - 1 : \A l \in Relies(frames[j]) : l \in Nat /\ l < Len(locals)
  BY <1>1, Apart
<1>3. Undisturbed(frames, m, m2, rs2)
  <2>1. ASSUME NEW j \in 1 .. n - 1
        PROVE  /\ \A l \in Relies(frames[j]) : m2[l] = m[l]
               /\ frames[j].f = "push" => frames[j].ref \in rs2
    <3>1. \A l \in Relies(frames[j]) : m2[l] = m[l]
      BY <1>2
    <3>2. ASSUME frames[j].f = "push" PROVE frames[j].ref \in rs2
      <4>1. j \in 1 .. n /\ j # n
        OBVIOUS
      <4>2. ~Begins(frames[j])
        BY <3>2 DEF Begins
      <4>3. Link(fn, frames[j], g[j], g[j + 1], localMap, m, rs, H)
        BY <4>1, <4>2 DEF Tracks, Calls
      <4> QED BY <3>2, <4>3 DEF Link
    <3> QED BY <3>1, <3>2
  <2> QED BY <2>1 DEF Undisturbed
<1>4. Holds(localMap, m2, env, H)
  <2>1. Holds(localMap, m, env, H)
    BY DEF Tracks
  <2>2. \A x \in Names : localMap[x] \in Nat => localMap[x] < Len(locals)
    BY <1>1, Numbers
  <2> QED BY <2>1, <2>2 DEF Holds
<1>5. Enters(fn, args, next, frames, localMap, m, rs, env, g, H, m2, rs2, c, e)
  BY <1>2, <1>3, <1>4 DEF Enters
<1>F. PICK F : frames \in Seq(F)
  BY <1>2
<1>6. PICK g2 : Tracks(fn, args, next, Onto(frames, c, EvalFrame(e, Awaits(c))), localMap, m2, rs2, env, g2, H)
  BY <1>5, <1>F, Entering
<1>fs. PICK fs : fs = Onto(frames, c, EvalFrame(e, Awaits(c)))
  OBVIOUS
<1>7. fn' = fn /\ args' = args /\ next' = next /\ frames' = fs /\ localMap' = localMap
  BY <1>2, <1>fs DEF Onto
<1> QED BY <1>6, <1>7, <1>fs, Zenon DEF Running

\* A part of a literal is an atom.
LEMMA AtomAllowed ==
  ASSUME NEW f, NEW e, NEW H, Fine(f, e, H), e.k \in {"IntLit", "Var"}
  PROVE  Allowed(f, e, H)
BY DEF Allowed, FinePoint

\* The next field of a literal begins.
LEMMA FieldRuns ==
  ASSUME Lowering, args' = args, Running, LowerField
  PROVE  Running'
<1>1. PICK m, rs, env, g, H : /\ Memory(m) /\ Reaches(fn, args, blocks, current, State(m, rs))
                              /\ Tracks(fn, args, next, frames, localMap, m, rs, env, g, H)
  BY Zenon DEF Running
<1>2. PICK n \in Nat : n = Len(frames)
  BY Numbers DEF Lowering
<1>t. PICK t : t = Fresh
  OBVIOUS
<1>k. PICK k : k = Top.done
  OBVIOUS
<1>l. PICK lit, d : lit = Top.expr /\ d = Top.dest
  OBVIOUS
<1>e. PICK e : e = lit.fields[k + 1].expr
  OBVIOUS
<1>ts. PICK ts : ts = Append(Top.tmps, t)
  OBVIOUS
<1>c. PICK c : c = FieldsFrame(k + 1, ts, lit, d)
  OBVIOUS
<1>3. /\ frames # << >> /\ Top.f = "fields" /\ k < Len(lit.fields)
      /\ current' = Append(current, StorageLive(t)) /\ blocks' = blocks
      /\ frames' = Append(Append(Popped, c), EvalFrame(e, t))
      /\ UNCHANGED <<fn, next, localMap>>
  BY <1>t, <1>k, <1>l, <1>e, <1>ts, <1>c DEF LowerField, Active
<1>4. TypeOK /\ StorageInv /\ NameInv /\ phase = "body" /\ Sense(fn, args)
  BY DEF Lowering
<1>5. n # 0
  BY <1>2, <1>3, <1>4, Numbers
<1>6. /\ Top.f # "dead" /\ Proper(g[n].value)
      /\ Begins(Top) => Allowed(fn, lit, H) /\ Top.tmps = << >> /\ g[n] = Source!EvalLit(lit, env)
      /\ ~Begins(Top) => Link(fn, Top, g[n], g[n + 1], localMap, m, rs, H)
              /\ g[n + 1].env = env /\ g[n + 1].value = m[Awaits(Top)]
      /\ Variables(fn, env) /\ Top \in FrameOf(Len(locals))
  <2>1. Top.f # "dead" /\ Top.f # "eval" /\ Top.f = "fields"
    BY <1>3
  <2>2. /\ Proper(g[n].value)
        /\ Begins(Top) => Allowed(fn, Top.expr, H) /\ (Top.f = "fields" => Top.tmps = << >>)
              /\ g[n] = IF Top.f = "eval" THEN Source!Eval(Top.expr, env) ELSE Source!EvalLit(Top.expr, env)
        /\ ~Begins(Top) => Link(fn, Top, g[n], g[n + 1], localMap, m, rs, H)
              /\ g[n + 1].env = env /\ g[n + 1].value = m[Awaits(Top)]
        /\ Variables(fn, env) /\ Top \in FrameOf(Len(locals))
    BY <1>1, <1>2, <1>5, <2>1, TopKnown
  <2> QED BY <1>l, <2>1, <2>2
<1>7. lit \in Exprs /\ lit.k = "StructLit" /\ k \in Nat /\ \A i \in 1 .. Len(lit.fields) : lit.fields[i].expr \in Exprs
  <2>1. lit \in StructLits /\ k \in Nat
    BY <1>3, <1>6, <1>k, <1>l DEF FrameOf
  <2>2. lit \in Exprs /\ lit.k = "StructLit"
    BY <2>1 DEF StructLits
  <2> QED BY <2>1, <2>2, ExprsAssumption DEF IsExprUniverse
<1>8. t \in Nat /\ t = Len(locals)
  BY <1>4, <1>t DEF TypeOK, Fresh
<1>9. PICK m2 : Runs(fn, args, StorageLive(t), m, rs, m2, rs) /\ OnlyAt(m, m2, t, Machine!Uninit)
  <2>2. Memory(m)
    BY <1>1
  <2>3. PICK s \in {StorageLive(t), StorageDead(t)} : s = StorageLive(t)
    OBVIOUS
  <2>4. \E m2 : Runs(fn, args, s, m, rs, m2, rs) /\ OnlyAt(m, m2, t, Machine!Uninit)
    BY <1>8, <2>2, DoStorage
  <2> QED BY <2>3, <2>4
<1>10. Reaches(fn, args, blocks', current', State(m2, rs)) /\ Memory(m2)
  <2>1. PICK s : s = StorageLive(t)
    OBVIOUS
  <2>2. current' = Append(current, s) /\ blocks' = blocks /\ Runs(fn, args, s, m, rs, m2, rs)
    BY <1>3, <1>9, <2>1
  <2> QED BY <1>1, <1>4, <2>2, WroteOne DEF Runs
<1>11. \A l \in Nat : l < Len(locals) => m2[l] = m[l]
  BY <1>8, <1>9 DEF OnlyAt
<1>12. c.f = "fields" /\ c.f # "dead" /\ c.dest = d /\ c.expr = lit /\ c.done = k + 1 /\ c.tmps = ts /\ ~Begins(c)
  BY <1>7, <1>c DEF FieldsFrame, Begins
<1>13. Top.tmps \in Seq(0 .. Len(locals) - 1)
  BY <1>3, <1>6 DEF FrameOf
<1>14. CASE k = 0
  <2>1. Begins(Top)
    BY <1>3, <1>14, <1>k DEF Begins
  <2>2. g[n] = Source!EvalLit(lit, env) /\ Allowed(fn, lit, H) /\ g[n].value.type # "none"
    BY <1>6, <2>1 DEF Proper, Types
  <2>3. /\ \A i \in 1 .. Len(lit.fields) : lit.fields[i].field = <<"x", "y">>[i]
        /\ \A i \in 1 .. Len(lit.fields) : Fine(fn, lit.fields[i].expr, H)
    BY <1>7, <2>2 DEF Allowed, FinePoint, Fine
  <2>e. PICK e2 : e2 = lit.fields[2].expr
    OBVIOUS
  <2>ee. e = lit.fields[1].expr
    BY <1>e, <1>14
  <2>p. PICK p : p = Source!EvalAtom(e, env)
    OBVIOUS
  <2>q. PICK q : q = Source!EvalAtom(e2, p.env)
    OBVIOUS
  <2>4. /\ Len(lit.fields) = 2 /\ p.value.type = "i32" /\ q.value.type = "i32"
        /\ g[n].value = Machine!Value("Point", <<p.value.is, q.value.is>>)
        /\ g[n].env = q.env
    <3>1. Source!EvalLit(lit, env).value.type # "none"
      BY <2>2
    <3> QED BY <2>2, <2>3, <2>e, <2>ee, <2>p, <2>q, <3>1, MeansLit
  <2>5. 1 \in 1 .. Len(lit.fields) /\ 2 \in 1 .. Len(lit.fields)
    BY <2>4
  <2>6. e \in Exprs /\ e2 \in Exprs /\ Fine(fn, e, H) /\ Fine(fn, e2, H)
    BY <1>7, <2>3, <2>5, <2>e, <2>ee
  <2>7. e.k \in {"IntLit", "Var"} /\ Source!Eval(e, env) = p
    <3>1. Source!EvalAtom(e, env).value.type # "none"
      BY <2>4, <2>p
    <3> QED BY <2>6, <2>p, <3>1, MeansAtom
  <2>8. Allowed(fn, e, H)
    BY <2>6, <2>7, AtomAllowed
  <2>9. Proper(Source!Eval(e, env).value)
    BY <1>6, <2>4, <2>6, <2>7, ValueProper
  <2>10. Len(ts) = 1 /\ ts[1] = t
    <3>1. Top.tmps = << >>
      BY <1>6, <2>1
    <3> QED BY <1>ts, <3>1
  <2>11. Awaits(c) = t
    BY <1>12, <1>14, <2>10 DEF Awaits
  <2>12. Link(fn, c, g[n], p, localMap, m2, rs, H)
    <3>1. c.done = 1 /\ Len(c.tmps) = 1 /\ Len(c.expr.fields) = 2 /\ c.expr.fields[2].expr = e2
      BY <1>12, <1>14, <2>4, <2>10, <2>e
    <3> QED BY <1>12, <2>4, <2>6, <2>q, <3>1 DEF Link
  <2>13. frames' = Append(Append(Popped, c), EvalFrame(e, Awaits(c))) /\ c.dest = Top.dest
    BY <1>3, <1>12, <1>l, <2>11
  <2>14. Link(fn, c, g[n], Source!Eval(e, env), localMap, m2, rs, H)
    BY <2>7, <2>12
  <2> QED BY <1>1, <1>2, <1>3, <1>5, <1>6, <1>10, <1>11, <1>12, <2>8, <2>9, <2>13, <2>14, EntersCall
<1>15. CASE k # 0
  <2>1. ~Begins(Top)
    BY <1>3, <1>15, <1>k DEF Begins
  <2>q. PICK q : q = g[n + 1]
    OBVIOUS
  <2>2. Link(fn, Top, g[n], q, localMap, m, rs, H) /\ q.env = env /\ q.value = m[Awaits(Top)]
    BY <1>6, <2>1, <2>q
  <2>e. PICK e2 : e2 = lit.fields[2].expr
    OBVIOUS
  <2>r. PICK r : r = Source!EvalAtom(e2, env)
    OBVIOUS
  <2>p. PICK p : p = m[Top.tmps[1]]
    OBVIOUS
  <2>t. PICK c1 : c1 = Top
    OBVIOUS
  <2>tt. c1.f = "fields" /\ c1.expr = lit /\ c1.done = k /\ Link(fn, c1, g[n], q, localMap, m, rs, H)
    BY <1>3, <1>k, <1>l, <2>2, <2>t
  <2>l. Len(lit.fields) = 2 /\ Len(c1.tmps) = k /\ (k = 1 \/ k = 2)
    BY <2>tt DEF Link
  <2>k. k = 1 /\ k # 2
    BY <1>3, <2>l
  <2>3. /\ Len(lit.fields) = 2 /\ q.value.type = "i32" /\ Len(Top.tmps) = k /\ k = 1
        /\ Fine(fn, e2, H) /\ r.value.type = "i32"
        /\ g[n].value = Machine!Value("Point", <<q.value.is, r.value.is>>)
        /\ g[n].env = r.env
    <3>1. c1.f # "dead" /\ c1.f # "push" /\ c1.done = 1 /\ c1.done # 2
      BY <2>tt, <2>k
    <3>2. q.value.type = "i32"
      BY <2>tt, <3>1 DEF Link
    <3>3. /\ Fine(fn, c1.expr.fields[2].expr, H)
          /\ Source!EvalAtom(c1.expr.fields[2].expr, q.env).value.type = "i32"
          /\ g[n].env = Source!EvalAtom(c1.expr.fields[2].expr, q.env).env
      BY <2>tt, <3>1, Zenon DEF Link
    <3>4. g[n].value = Machine!Value("Point", <<q.value.is, Source!EvalAtom(c1.expr.fields[2].expr, q.env).value.is>>)
      BY <2>tt, <3>1, Zenon DEF Link
    <3>5. Source!EvalAtom(c1.expr.fields[2].expr, q.env) = r /\ c1.expr.fields[2].expr = e2
      BY <2>2, <2>e, <2>r, <2>tt
    <3> QED BY <2>l, <2>k, <2>t, <3>2, <3>3, <3>4, <3>5
  <2>4. q.value = p
    BY <1>3, <1>k, <2>2, <2>3, <2>p DEF Awaits
  <2>5. e = e2 /\ e \in Exprs
    <3>1. 2 \in 1 .. Len(lit.fields)
      BY <2>3
    <3> QED BY <1>7, <1>e, <2>3, <2>e, <3>1
  <2>7. e.k \in {"IntLit", "Var"} /\ Source!Eval(e, env) = r
    <3>1. Source!EvalAtom(e, env).value.type # "none"
      BY <2>3, <2>5, <2>r
    <3> QED BY <2>5, <2>r, <3>1, MeansAtom
  <2>8. Allowed(fn, e, H)
    BY <2>3, <2>5, <2>7, AtomAllowed
  <2>9. Proper(Source!Eval(e, env).value)
    BY <1>6, <2>3, <2>5, <2>7, ValueProper
  <2>10. Len(ts) = 2 /\ ts[1] = Top.tmps[1] /\ ts[2] = t /\ Top.tmps[1] \in Nat /\ Top.tmps[1] < Len(locals)
    <3>1. 1 \in 1 .. Len(Top.tmps) /\ Len(Top.tmps) = 1
      BY <2>3
    <3>2. Top.tmps[1] \in 0 .. Len(locals) - 1
      BY <1>13, <3>1
    <3>3. Len(ts) = 1 + 1 /\ ts[1] = Top.tmps[1] /\ ts[1 + 1] = t
      BY <1>13, <1>ts, <3>1, AppendOne
    <3>4. Len(locals) \in Nat
      BY <1>8
    <3> QED BY <3>2, <3>3, <3>4
  <2>11. Awaits(c) = t
    BY <1>12, <2>3, <2>10 DEF Awaits
  <2>12. Link(fn, c, g[n], r, localMap, m2, rs, H)
    <3>1. c.done = 2 /\ Len(c.tmps) = 2 /\ Len(c.expr.fields) = 2
      BY <1>12, <2>3, <2>10
    <3>2. m2[c.tmps[1]] = p
      BY <1>11, <1>12, <2>10, <2>p
    <3> QED BY <1>12, <2>3, <2>4, <3>1, <3>2 DEF Link
  <2>13. frames' = Append(Append(Popped, c), EvalFrame(e, Awaits(c))) /\ c.dest = Top.dest
    BY <1>3, <1>12, <1>l, <2>11
  <2>14. Link(fn, c, g[n], Source!Eval(e, env), localMap, m2, rs, H)
    BY <2>7, <2>12
  <2> QED BY <1>1, <1>2, <1>3, <1>5, <1>6, <1>10, <1>11, <1>12, <2>8, <2>9, <2>13, <2>14, EntersCall
<1> QED BY <1>14, <1>15

\* Three appends make a concatenation.
LEMMA ThreeMore ==
  ASSUME NEW S, NEW s \in Seq(S), NEW x, NEW y, NEW z, NEW ds, ds = [i \in 1 .. 2 |-> IF i = 1 THEN y ELSE z],
         NEW t, t = s \o <<x>> \o ds
  PROVE  t = Append(Append(Append(s, x), y), z)
<1>k. PICK k \in Nat : k = Len(s)
  OBVIOUS
<1> DEFINE T == S \cup {x, y, z}
<1>1. s \in Seq(T) /\ <<x>> \in Seq(T) /\ ds \in Seq(T) /\ Len(ds) = 2 /\ ds[1] = y /\ ds[2] = z
  OBVIOUS
<1> HIDE DEF T
<1>u. PICK u : u = s \o <<x>>
  OBVIOUS
<1>2. u \in Seq(T) /\ Len(u) = k + 1 /\ u[k + 1] = x /\ \A i \in 1 .. k : u[i] = s[i]
  BY <1>k, <1>1, <1>u
<1>3. t \in Seq(T) /\ Len(t) = k + 3
  <2>1. t = u \o ds
    BY <1>u
  <2> QED BY <1>1, <1>2, <2>1
<1>4. /\ \A i \in 1 .. k + 1 : t[i] = u[i]
      /\ t[k + 2] = y /\ t[k + 3] = z
  <2>1. t = u \o ds
    BY <1>u
  <2>2. /\ \A i \in 1 .. Len(u) : t[i] = u[i]
        /\ \A i \in Len(u) + 1 .. Len(u) + Len(ds) : t[i] = ds[i - Len(u)]
    <3>1. \E V : u \in Seq(V) /\ ds \in Seq(V)
      BY <1>1, <1>2
    <3>2. PICK V : u \in Seq(V) /\ ds \in Seq(V)
      BY <3>1
    <3> QED BY <2>1, <3>2, ConcatParts
  <2>3. /\ k + 2 \in Len(u) + 1 .. Len(u) + Len(ds) /\ (k + 2) - Len(u) = 1
        /\ k + 3 \in Len(u) + 1 .. Len(u) + Len(ds) /\ (k + 3) - Len(u) = 2
    BY <1>1, <1>2
  <2> QED BY <1>1, <1>2, <2>2, <2>3
<1>v. PICK v : v = Append(Append(Append(s, x), y), z)
  OBVIOUS
<1>5. v \in Seq(T)
  BY <1>1, <1>v DEF T
<1>6. Len(v) = k + 3 /\ (\A i \in 1 .. k : v[i] = s[i]) /\ v[k + 1] = x /\ v[k + 2] = y /\ v[k + 3] = z
  BY <1>k, <1>v, AppendThree
<1>7. \A i \in 1 .. k + 3 : t[i] = v[i]
  <2>1. \A i \in 1 .. k : t[i] = v[i]
    <3>1. \A i \in 1 .. k : i \in 1 .. k + 1
      OBVIOUS
    <3> QED BY <1>2, <1>4, <1>6, <3>1
  <2>2. t[k + 1] = v[k + 1]
    <3>1. k + 1 \in 1 .. k + 1
      OBVIOUS
    <3> QED BY <1>2, <1>4, <1>6, <3>1
  <2>3. \A i \in 1 .. k + 3 : i \in 1 .. k \/ i = k + 1 \/ i = k + 2 \/ i = k + 3
    OBVIOUS
  <2> QED BY <1>4, <1>6, <2>1, <2>2, <2>3
<1>8. t = v
  BY <1>3, <1>5, <1>6, <1>7
<1> QED BY <1>8, <1>v

\* Two temporaries are released.
Dies(f, as, m, rs, l, p, m1, m2) ==
  /\ Runs(f, as, StorageDead(l), m, rs, m1, rs) /\ Runs(f, as, StorageDead(p), m1, rs, m2, rs)
  /\ \A k \in Nat : k # l /\ k # p => m2[k] = m[k]

\* Two temporaries die.
LEMMA TwoDie ==
  ASSUME NEW f, NEW as, NEW m, Memory(m), NEW rs, NEW l \in Nat, NEW p \in Nat
  PROVE  \E m1, m2 : Dies(f, as, m, rs, l, p, m1, m2)
<1>1. PICK m1 : Runs(f, as, StorageDead(l), m, rs, m1, rs) /\ OnlyAt(m, m1, l, Machine!Uninit)
  <2>1. PICK s \in {StorageLive(l), StorageDead(l)} : s = StorageDead(l)
    OBVIOUS
  <2>2. \E m1 : Runs(f, as, s, m, rs, m1, rs) /\ OnlyAt(m, m1, l, Machine!Uninit)
    BY DoStorage
  <2> QED BY <2>1, <2>2
<1>2. Memory(m1)
  BY <1>1 DEF Runs
<1>3. PICK m2 : Runs(f, as, StorageDead(p), m1, rs, m2, rs) /\ OnlyAt(m1, m2, p, Machine!Uninit)
  <2>1. PICK s \in {StorageLive(p), StorageDead(p)} : s = StorageDead(p)
    OBVIOUS
  <2>2. \E m2 : Runs(f, as, s, m1, rs, m2, rs) /\ OnlyAt(m1, m2, p, Machine!Uninit)
    BY <1>2, DoStorage
  <2> QED BY <2>1, <2>2
<1>4. \A k \in Nat : k # l /\ k # p => m2[k] = m[k]
  BY <1>1, <1>3 DEF OnlyAt
<1> QED BY <1>1, <1>3, <1>4 DEF Dies

\* A literal with both fields is put together, and the fields die.
LEMMA FinishStructRuns ==
  ASSUME Lowering, args' = args, Running, FinishStruct
  PROVE  Running'
<1>1. PICK m, rs, env, g, H : /\ Memory(m) /\ Reaches(fn, args, blocks, current, State(m, rs))
                              /\ Tracks(fn, args, next, frames, localMap, m, rs, env, g, H)
  BY Zenon DEF Running
<1>2. PICK n \in Nat : n = Len(frames)
  BY Numbers DEF Lowering
<1>c. PICK c : c = Top
  OBVIOUS
<1>l. PICK lit, d, ts, k : lit = c.expr /\ d = c.dest /\ ts = c.tmps /\ k = c.done
  OBVIOUS
<1>3. /\ frames # << >> /\ c.f = "fields" /\ k = Len(lit.fields) /\ frames' = Popped
      /\ current' = current \o <<Aggregate(d, [i \in 1 .. Len(ts) |-> Move(ts[i])])>>
                          \o [i \in 1 .. Len(ts) |-> StorageDead(ts[i])]
      /\ UNCHANGED <<fn, next, localMap, blocks>>
  BY <1>c, <1>l DEF FinishStruct, Active
<1>4. TypeOK
  BY DEF Lowering
<1>5. n # 0
  BY <1>2, <1>3, <1>4, Numbers
<1>6. /\ Proper(g[n].value) /\ d \in Nat
      /\ Begins(c) => Allowed(fn, lit, H) /\ g[n] = Source!EvalLit(lit, env)
      /\ ~Begins(c) => Link(fn, c, g[n], g[n + 1], localMap, m, rs, H)
              /\ g[n + 1].env = env /\ g[n + 1].value = m[Awaits(c)]
      /\ Variables(fn, env) /\ Holds(localMap, m, env, H) /\ c \in FrameOf(Len(locals))
      /\ d = 0 => g[n].value.type = fn.output
      /\ \A x \in Names \ H : localMap[x] # d
      /\ \A l \in Owned(c) : l \in Nat /\ l # d /\ \A x \in Names : localMap[x] # l
  <2>1. Top.f # "dead" /\ Top.f # "eval" /\ Top.f = "fields"
    BY <1>3, <1>c
  <2>2. /\ Proper(g[n].value) /\ Top.dest \in Nat
        /\ Begins(Top) => Allowed(fn, Top.expr, H) /\ (Top.f = "fields" => Top.tmps = << >>)
              /\ g[n] = IF Top.f = "eval" THEN Source!Eval(Top.expr, env) ELSE Source!EvalLit(Top.expr, env)
        /\ ~Begins(Top) => Link(fn, Top, g[n], g[n + 1], localMap, m, rs, H)
              /\ g[n + 1].env = env /\ g[n + 1].value = m[Awaits(Top)]
        /\ Variables(fn, env) /\ Holds(localMap, m, env, H) /\ Top \in FrameOf(Len(locals))
        /\ Top.dest = 0 => g[n].value.type = fn.output
        /\ \A x \in Names \ H : localMap[x] # Top.dest
        /\ \A l \in Owned(Top) : l \in Nat /\ l # Top.dest /\ \A x \in Names : localMap[x] # l
    BY <1>1, <1>2, <1>5, <2>1, TopKnown
  <2> QED BY <1>c, <1>l, <2>1, <2>2
<1>7. lit.k = "StructLit"
  BY <1>3, <1>6, <1>l DEF FrameOf, StructLits
<1>8. ~Begins(c)
  <2> SUFFICES ASSUME Begins(c) PROVE FALSE
    OBVIOUS
  <2>1. g[n] = Source!EvalLit(lit, env) /\ Allowed(fn, lit, H) /\ g[n].value.type # "none" /\ k = 0
    BY <1>3, <1>6, <1>l DEF Begins, Proper, Types
  <2>2. \A i \in 1 .. Len(lit.fields) : lit.fields[i].field = <<"x", "y">>[i]
    BY <1>7, <2>1 DEF Allowed, FinePoint, Fine
  <2>p. PICK p : p = Source!EvalAtom(lit.fields[1].expr, env)
    OBVIOUS
  <2>q. PICK q : q = Source!EvalAtom(lit.fields[2].expr, p.env)
    OBVIOUS
  <2>3. Len(lit.fields) = 2
    <3>1. Source!EvalLit(lit, env).value.type # "none"
      BY <2>1
    <3> QED BY <2>2, <2>p, <2>q, <3>1, MeansLit
  <2>4. k = Len(lit.fields)
    BY <1>3
  <2> QED BY <2>1, <2>3, <2>4
<1>q. PICK q : q = g[n + 1]
  OBVIOUS
<1>9. Link(fn, c, g[n], q, localMap, m, rs, H) /\ q.env = env /\ q.value = m[Awaits(c)]
  BY <1>6, <1>8, <1>q
<1>10. /\ Len(lit.fields) = 2 /\ k = 2 /\ Len(ts) = 2
  BY <1>3, <1>9, <1>l DEF Link
<1>t. PICK t1, t2 : t1 = ts[1] /\ t2 = ts[2]
  OBVIOUS
<1>11. /\ q.value.type = "i32" /\ m[t1].type = "i32"
       /\ g[n].value = Machine!Value("Point", <<m[t1].is, q.value.is>>)
       /\ g[n].env = env
  <2>1. c.f # "dead" /\ c.f # "push" /\ c.done = 2 /\ c.done # 1 /\ c.tmps = ts
    BY <1>3, <1>l, <1>10
  <2>2. q.value.type = "i32"
    BY <1>9, <2>1 DEF Link
  <2>3. m[c.tmps[1]].type = "i32" /\ g[n].env = q.env
    BY <1>9, <2>1, Zenon DEF Link
  <2>4. g[n].value = Machine!Value("Point", <<m[c.tmps[1]].is, q.value.is>>)
    BY <1>9, <2>1, Zenon DEF Link
  <2> QED BY <1>9, <1>t, <2>1, <2>2, <2>3, <2>4
<1>12. q.value = m[t2]
  BY <1>3, <1>9, <1>10, <1>l, <1>t DEF Awaits
<1>13. t1 \in Owned(c) /\ t2 \in Owned(c)
  <2>1. 1 \in 1 .. Len(ts) /\ 2 \in 1 .. Len(ts)
    BY <1>10
  <2> QED BY <1>3, <1>l, <1>t, <2>1 DEF Owned
<1>14. t1 \in Nat /\ t2 \in Nat /\ t1 # d /\ t2 # d /\ \A x \in Names : localMap[x] # t1 /\ localMap[x] # t2
  BY <1>6, <1>13
<1>s. PICK s : s = Aggregate(d, [i \in 1 .. 2 |-> Move(ts[i])])
  OBVIOUS
<1>15. \E m1 : Runs(fn, args, s, m, rs, m1, rs \ {d}) /\ OnlyAt(m, m1, d, g[n].value)
  <2>1. ts[1] \in Nat /\ ts[2] \in Nat /\ m[ts[1]].type = "i32" /\ m[ts[2]].type = "i32"
    BY <1>11, <1>12, <1>14, <1>t
  <2>2. d = 0 => fn.output = "Point"
    BY <1>6, <1>11 DEF Machine!Value
  <2>3. Memory(m)
    BY <1>1
  <2>4. g[n].value = Machine!Value("Point", <<m[ts[1]].is, m[ts[2]].is>>)
    BY <1>11, <1>12, <1>t
  <2>5. \E m1 : Runs(fn, args, s, m, rs, m1, rs \ {d}) /\ OnlyAt(m, m1, d, Machine!Value("Point", <<m[ts[1]].is, m[ts[2]].is>>))
    BY <1>6, <1>s, <2>1, <2>2, <2>3, DoAggregate
  <2> QED BY <2>4, <2>5
<1>rs. PICK rs2 : rs2 = rs \ {d}
  OBVIOUS
<1>16. PICK m1 : Runs(fn, args, s, m, rs, m1, rs2) /\ OnlyAt(m, m1, d, g[n].value)
  BY <1>15, <1>rs
<1>17. Memory(m1)
  BY <1>16 DEF Runs
<1>die. PICK m2, m3 : Dies(fn, args, m1, rs2, t1, t2, m2, m3)
  BY <1>14, <1>17, TwoDie
<1>18.               /\ Runs(fn, args, StorageDead(t1), m1, rs2, m2, rs2)
                     /\ Runs(fn, args, StorageDead(t2), m2, rs2, m3, rs2)
                     /\ \A l \in Nat : l # t1 /\ l # t2 => m3[l] = m1[l]
  BY <1>die DEF Dies
<1>d. PICK d1, d2 : d1 = StorageDead(t1) /\ d2 = StorageDead(t2)
  OBVIOUS
<1>19. current' = Append(Append(Append(current, s), d1), d2)
  <2>1. PICK ds : ds = [i \in 1 .. 2 |-> StorageDead(ts[i])]
    OBVIOUS
  <2>2. ds = [i \in 1 .. 2 |-> IF i = 1 THEN d1 ELSE d2]
    BY <1>d, <1>t, <2>1
  <2>3. current' = current \o <<s>> \o ds
    BY <1>3, <1>10, <1>s, <2>1
  <2>4. current \in Seq(StatementOf(Len(locals)))
    BY <1>4 DEF TypeOK
  <2> QED BY <2>2, <2>3, <2>4, ThreeMore
<1>20. Reaches(fn, args, blocks', current', State(m3, rs2))
  <2>1. blocks \in Seq(BlockOf(Len(locals))) /\ current \in Seq(StatementOf(Len(locals)))
    BY <1>4 DEF TypeOK
  <2>2. \A b \in 1 .. Len(blocks) : Len(blocks[b].statements) \in Nat
    BY <2>1, BlocksMeasured
  <2>c. PICK c1, c2 : c1 = Append(current, s) /\ c2 = Append(c1, d1)
    OBVIOUS
  <2>3. Reaches(fn, args, blocks, c1, State(m1, rs2))
    BY <1>1, <1>16, <2>1, <2>2, <2>c, WroteOn
  <2>4. c1 \in Seq(StatementOf(Len(locals)) \cup {s})
    BY <2>1, <2>c, AppendOne
  <2>5. Reaches(fn, args, blocks, c2, State(m2, rs2))
    BY <1>18, <1>d, <2>1, <2>2, <2>3, <2>4, <2>c, WroteOn
  <2>6. c2 \in Seq((StatementOf(Len(locals)) \cup {s}) \cup {d1})
    BY <2>4, <2>c, AppendOne
  <2>7. Reaches(fn, args, blocks, Append(c2, d2), State(m3, rs2))
    BY <1>18, <1>d, <2>1, <2>2, <2>5, <2>6, WroteOn
  <2> QED BY <1>3, <1>19, <2>7, <2>c
<1>21. Memory(m3)
  BY <1>18 DEF Runs
<1>22. /\ Holds(localMap, m3, env, H)
       /\ m3[d] = g[n].value
       /\ \A l \in Nat : l # d /\ l # t1 /\ l # t2 => m3[l] = m[l]
  <2>1. m3[d] = g[n].value /\ \A l \in Nat : l # d /\ l # t1 /\ l # t2 => m3[l] = m[l]
    BY <1>6, <1>14, <1>16, <1>18 DEF OnlyAt
  <2>2. Holds(localMap, m3, env, H)
    BY <1>6, <1>14, <2>1 DEF Holds
  <2> QED BY <2>1, <2>2
<1>23. \A l \in Nat : l # Top.dest /\ l \notin Owned(Top) /\ (\A x \in Names : l # localMap[x]) => m3[l] = m[l]
  BY <1>13, <1>22, <1>c, <1>l
<1>24. /\ rs \ {Top.dest} \subseteq rs2 /\ m3[Top.dest] = g[n].value /\ Top.f # "dead"
       /\ UNCHANGED <<fn, next, localMap>> /\ frames' = Popped
  BY <1>3, <1>22, <1>c, <1>l, <1>rs
<1> QED BY <1>1, <1>2, <1>5, <1>6, <1>11, <1>20, <1>21, <1>22, <1>23, <1>24, EndsCall

-----------------------------------------------------------------------------
(* push.                                                                     *)

\* A borrow of v in r, and room for the argument in a.
Borrows(f, as, m, rs, r, v, a, m1, m2, m3) ==
  /\ Runs(f, as, StorageLive(r), m, rs, m1, rs)
  /\ Runs(f, as, Ref(r, v), m1, rs, m2, rs \cup {r})
  /\ Runs(f, as, StorageLive(a), m2, rs \cup {r}, m3, rs \cup {r})
  /\ m3[r] = Machine!Value("&mutVec", v)
  /\ \A k \in Nat : k # r /\ k # a => m3[k] = m[k]

\* The receiver of a push is borrowed, and its argument gets storage.
LEMMA BorrowsDone ==
  ASSUME NEW f, NEW as, NEW m, Memory(m), NEW rs, NEW r \in Nat, r # 0, NEW v \in Nat, v # r,
         NEW a \in Nat, a # r, m[v].type = "Vec"
  PROVE  \E m1, m2, m3 : Borrows(f, as, m, rs, r, v, a, m1, m2, m3)
<1>1. PICK m1 : Runs(f, as, StorageLive(r), m, rs, m1, rs) /\ OnlyAt(m, m1, r, Machine!Uninit)
  <2>1. PICK s \in {StorageLive(r), StorageDead(r)} : s = StorageLive(r)
    OBVIOUS
  <2>2. \E m1 : Runs(f, as, s, m, rs, m1, rs) /\ OnlyAt(m, m1, r, Machine!Uninit)
    BY DoStorage
  <2> QED BY <2>1, <2>2
<1>2. Memory(m1) /\ m1[v].type = "Vec"
  BY <1>1 DEF Runs, OnlyAt
<1>3. PICK m2 : /\ Runs(f, as, Ref(r, v), m1, rs, m2, rs \cup {r})
                /\ OnlyAt(m1, m2, r, Machine!Value("&mutVec", v))
  <2>1. PICK s : s = Ref(r, v)
    OBVIOUS
  <2>2. \E m2 : Runs(f, as, s, m1, rs, m2, rs \cup {r}) /\ OnlyAt(m1, m2, r, Machine!Value("&mutVec", v))
    BY <1>2, <2>1, DoRef
  <2> QED BY <2>1, <2>2
<1>4. Memory(m2)
  BY <1>3 DEF Runs
<1>rs. PICK rs2 : rs2 = rs \cup {r}
  OBVIOUS
<1>5. PICK m3 : Runs(f, as, StorageLive(a), m2, rs2, m3, rs2) /\ OnlyAt(m2, m3, a, Machine!Uninit)
  <2>1. PICK s \in {StorageLive(a), StorageDead(a)} : s = StorageLive(a)
    OBVIOUS
  <2>2. \E m3 : Runs(f, as, s, m2, rs2, m3, rs2) /\ OnlyAt(m2, m3, a, Machine!Uninit)
    BY <1>4, DoStorage
  <2> QED BY <2>1, <2>2
<1>6. m3[r] = Machine!Value("&mutVec", v)
  BY <1>3, <1>5 DEF OnlyAt
<1>7. \A k \in Nat : k # r /\ k # a => m3[k] = m[k]
  BY <1>1, <1>3, <1>5 DEF OnlyAt
<1>8. Runs(f, as, StorageLive(a), m2, rs \cup {r}, m3, rs \cup {r})
  BY <1>5, <1>rs
<1> QED BY <1>1, <1>3, <1>6, <1>7, <1>8 DEF Borrows

\* A push begins: the borrow is there before the argument is evaluated.
LEMMA BeginPushRuns ==
  ASSUME Lowering, args' = args, Running, BeginPush
  PROVE  Running'
<1>1. PICK m, rs, env, g, H : /\ Memory(m) /\ Reaches(fn, args, blocks, current, State(m, rs))
                              /\ Tracks(fn, args, next, frames, localMap, m, rs, env, g, H)
  BY Zenon DEF Running
<1>2. PICK n \in Nat : n = Len(frames)
  BY Numbers DEF Lowering
<1>e. PICK e, d : e = Top.expr /\ d = Top.dest
  OBVIOUS
<1>x. PICK x, arg : x = e.receiver.name /\ arg = e.args[1]
  OBVIOUS
<1>r. PICK r, a : r = Fresh /\ a = Fresh + 1
  OBVIOUS
<1>v. PICK v : v = localMap[x]
  OBVIOUS
<1>c. PICK c : c = PushFrame(r, a, d)
  OBVIOUS
<1>3. /\ Active("eval") /\ IsPush(e)
      /\ current' = Append(Append(Append(current, StorageLive(r)), Ref(r, v)), StorageLive(a))
      /\ frames' = Append(Append(Popped, c), EvalFrame(arg, a))
      /\ UNCHANGED <<fn, next, localMap, blocks>>
  BY <1>e, <1>x, <1>r, <1>v, <1>c DEF BeginPush
<1>4. /\ n # 0 /\ Top.f # "dead" /\ e \in Exprs /\ Allowed(fn, e, H)
      /\ g[n] = Source!Eval(e, env) /\ g[n].value.type # "none"
      /\ Variables(fn, env) /\ Holds(localMap, m, env, H)
  BY <1>1, <1>2, <1>3, <1>e, EvalKnown
<1>p. PICK p : p = Source!EvalPoint(arg, env)
  OBVIOUS
<1>5. /\ e.receiver.k = "Var" /\ e.receiver \in Exprs /\ x \in Names
      /\ Len(e.args) = 1 /\ arg \in Exprs
      /\ p.env[x].type = "Vec" /\ p.value.type = "Point"
      /\ g[n].value = Machine!Unit
      /\ g[n].env = [p.env EXCEPT ![x] = Machine!Value("Vec", Append(p.env[x].is, p.value.is))]
  <2>1. Source!Eval(e, env).value.type # "none" /\ p = Source!EvalPoint(e.args[1], env)
    BY <1>4, <1>p, <1>x
  <2>2. /\ e.receiver.k = "Var" /\ e.receiver \in Exprs /\ x \in Names
        /\ Len(e.args) = 1 /\ e.args # << >> /\ e.args[1] \in Exprs
        /\ p.env[x].type = "Vec" /\ p.value.type = "Point"
        /\ Source!Eval(e, env).value = Machine!Unit
        /\ Source!Eval(e, env).env = [p.env EXCEPT ![x] = Machine!Value("Vec", Append(p.env[x].is, p.value.is))]
    BY <1>3, <1>4, <1>x, <2>1, MeansPush
  <2> QED BY <1>4, <1>x, <2>2
<1>6. arg.k \in {"IntLit", "Var", "StructLit"} /\ Source!Eval(arg, env) = p
  <2>1. Source!EvalPoint(arg, env).value.type # "none"
    BY <1>5, <1>p
  <2> QED BY <1>5, <1>p, <2>1, MeansPoint
<1>7. env[x].type = "Vec"
  <2>1. env = [y \in Names |-> env[y]]
    BY <1>4 DEF Variables
  <2>2. Drops(env, p.env)
    BY <1>p, <2>1, PointDrops
  <2>3. Source!None.type # "Vec"
    BY DEF Source!None, Source!Value
  <2> QED BY <1>5, <2>2, <2>3 DEF Drops
<1>8. x \notin H /\ Allowed(fn, arg, H)
  <2>0. e.k = "MethodCall" /\ e.args \in Seq(Exprs)
    BY <1>3, <1>4, ExprsAssumption DEF IsExprUniverse, IsPush
  <2>1. 1 \in DOMAIN e.args
    BY <1>5, <2>0
  <2>2. Fine(fn, e.receiver, H) /\ FinePoint(fn, e.args[1], H)
    BY <1>4, <2>0, <2>1 DEF Allowed
  <2>3. x \notin H
    BY <1>5, <1>x, <2>2 DEF Fine
  <2>4. Allowed(fn, arg, H)
    BY <1>6, <1>x, <2>2 DEF Allowed
  <2> QED BY <2>3, <2>4
<1>9. /\ TypeOK /\ v \in Nat /\ v < Len(locals) /\ m[v].type = "Vec" /\ r \in Nat /\ r # 0 /\ a \in Nat /\ a # r /\ v # r
      /\ r = Len(locals) /\ a = r + 1
  <2>1. TypeOK /\ NameInv /\ phase = "body"
    BY DEF Lowering
  <2>2. Len(locals) \in Nat /\ localMap[x] < Len(locals)
    BY <1>5, <2>1, Numbers
  <2>3. Len(locals) >= 1
    BY <2>1 DEF NameInv
  <2>4. v \in Nat /\ m[v].type = "Vec"
    BY <1>4, <1>5, <1>7, <1>8, <1>v DEF Holds
  <2> QED BY <1>r, <1>v, <2>1, <2>2, <2>3, <2>4 DEF Fresh
<1>10. Memory(m)
  BY <1>1
<1>11. PICK m1, m2, m3 : Borrows(fn, args, m, rs, r, v, a, m1, m2, m3)
  BY <1>9, <1>10, BorrowsDone
<1>rs. PICK rs2 : rs2 = rs \cup {r}
  OBVIOUS
<1>12. /\ Runs(fn, args, StorageLive(r), m, rs, m1, rs)
       /\ Runs(fn, args, Ref(r, v), m1, rs, m2, rs2)
       /\ Runs(fn, args, StorageLive(a), m2, rs2, m3, rs2)
       /\ m3[r] = Machine!Value("&mutVec", v)
       /\ \A k \in Nat : k # r /\ k # a => m3[k] = m[k]
  BY <1>11, <1>rs DEF Borrows
<1>s. PICK s1, s2, s3 : s1 = StorageLive(r) /\ s2 = Ref(r, v) /\ s3 = StorageLive(a)
  OBVIOUS
<1>13. Reaches(fn, args, blocks', current', State(m3, rs2))
  <2>1. blocks \in Seq(BlockOf(Len(locals))) /\ current \in Seq(StatementOf(Len(locals)))
    BY <1>9 DEF TypeOK
  <2>2. \A b \in 1 .. Len(blocks) : Len(blocks[b].statements) \in Nat
    BY <2>1, BlocksMeasured
  <2>c. PICK c1, c2 : c1 = Append(current, s1) /\ c2 = Append(c1, s2)
    OBVIOUS
  <2>3. Reaches(fn, args, blocks, c1, State(m1, rs))
    BY <1>1, <1>12, <1>s, <2>1, <2>2, <2>c, WroteOn
  <2>4. c1 \in Seq(StatementOf(Len(locals)) \cup {s1})
    BY <2>1, <2>c, AppendOne
  <2>5. Reaches(fn, args, blocks, c2, State(m2, rs2))
    BY <1>12, <1>s, <2>1, <2>2, <2>3, <2>4, <2>c, WroteOn
  <2>6. c2 \in Seq((StatementOf(Len(locals)) \cup {s1}) \cup {s2})
    BY <2>4, <2>c, AppendOne
  <2>7. Reaches(fn, args, blocks, Append(c2, s3), State(m3, rs2))
    BY <1>12, <1>s, <2>1, <2>2, <2>5, <2>6, WroteOn
  <2> QED BY <1>3, <1>s, <2>7, <2>c
<1>14. Memory(m3)
  BY <1>12 DEF Runs
<1>15. /\ c.f = "push" /\ c.f # "dead" /\ c.ref = r /\ c.arg = a /\ c.dest = Top.dest /\ ~Begins(c) /\ Awaits(c) = a
  BY <1>c, <1>e DEF PushFrame, Begins, Awaits
<1>16. Link(fn, c, g[n], p, localMap, m3, rs2, H)
  <2>1. r \in rs2 /\ m3[c.ref] = Machine!Value("&mutVec", localMap[x]) /\ x \in Names \ H
    BY <1>5, <1>8, <1>12, <1>15, <1>rs, <1>v
  <2> QED BY <1>5, <1>15, <2>1 DEF Link
<1>17. Proper(Source!Eval(arg, env).value)
  <2>1. Source!Eval(arg, env).value.type # "none"
    BY <1>5, <1>6
  <2> QED BY <1>4, <1>5, <2>1, ValueProper
<1>18. \A l \in Nat : l < Len(locals) => m3[l] = m[l]
  BY <1>9, <1>12
<1>19. /\ frames' = Append(Append(Popped, c), EvalFrame(arg, Awaits(c))) /\ UNCHANGED <<fn, next, localMap>>
       /\ rs \subseteq rs2 /\ Link(fn, c, g[n], Source!Eval(arg, env), localMap, m3, rs2, H)
  BY <1>3, <1>6, <1>15, <1>16, <1>rs
<1> QED BY <1>1, <1>2, <1>4, <1>8, <1>13, <1>14, <1>15, <1>17, <1>18, <1>19, EntersCall

\* A block that starts with two statements.
LEMMA TwoFirst ==
  ASSUME NEW x, NEW y
  PROVE  <<x, y>> = Append(Append(<< >>, x), y)
OBVIOUS

\* A push with its argument is called: the Vec that was borrowed is as it was, so it grows as the source says.
LEMMA FinishPushRuns ==
  ASSUME Lowering, args' = args, Running, FinishPush
  PROVE  Running'
<1>1. PICK m, rs, env, g, H : /\ Memory(m) /\ Reaches(fn, args, blocks, current, State(m, rs))
                              /\ Tracks(fn, args, next, frames, localMap, m, rs, env, g, H)
  BY Zenon DEF Running
<1>2. PICK n \in Nat : n = Len(frames)
  BY Numbers DEF Lowering
<1>c. PICK c : c = Top
  OBVIOUS
<1>r. PICK r, a, d : r = c.ref /\ a = c.arg /\ d = c.dest
  OBVIOUS
<1>t. PICK t : t = NextBlock
  OBVIOUS
<1>s. PICK s, s1, s2 : s = Call("push", <<Move(r), Move(a)>>, d, t) /\ s1 = StorageDead(a) /\ s2 = StorageDead(r)
  OBVIOUS
<1>3. /\ frames # << >> /\ c.f = "push" /\ frames' = Popped
      /\ blocks' = Append(blocks, BasicBlock(current, s)) /\ current' = <<s1, s2>>
      /\ UNCHANGED <<fn, next, localMap>>
  BY <1>c, <1>r, <1>s, <1>t DEF FinishPush, Active, Finalize
<1>4. TypeOK
  BY DEF Lowering
<1>5. n # 0
  BY <1>2, <1>3, <1>4, Numbers
<1>q. PICK q : q = g[n + 1]
  OBVIOUS
<1>6. /\ d \in Nat
      /\ Link(fn, c, g[n], q, localMap, m, rs, H) /\ q.env = env /\ q.value = m[a]
      /\ Variables(fn, env) /\ Holds(localMap, m, env, H)
      /\ d = 0 => g[n].value.type = fn.output
      /\ \A x \in Names \ H : localMap[x] # d
      /\ \A l \in {r, a} : l \in Nat /\ l # d /\ \A x \in Names : localMap[x] # l
      /\ r < a
  <2>1. Top.f # "dead" /\ Top.f # "eval" /\ Top.f = "push" /\ ~Begins(Top) /\ Awaits(Top) = a /\ Owned(Top) = {r, a}
    BY <1>3, <1>c, <1>r DEF Begins, Awaits, Owned
  <2>2. /\ Top.dest \in Nat
        /\ ~Begins(Top) => Link(fn, Top, g[n], g[n + 1], localMap, m, rs, H)
              /\ g[n + 1].env = env /\ g[n + 1].value = m[Awaits(Top)]
        /\ Variables(fn, env) /\ Holds(localMap, m, env, H) /\ Within(Top)
        /\ Top.dest = 0 => g[n].value.type = fn.output
        /\ \A x \in Names \ H : localMap[x] # Top.dest
        /\ \A l \in Owned(Top) : l \in Nat /\ l # Top.dest /\ \A x \in Names : localMap[x] # l
    BY <1>1, <1>2, <1>5, <2>1, TopKnown
  <2>3. r < a
    BY <1>c, <1>r, <2>1, <2>2 DEF Within
  <2> QED BY <1>c, <1>r, <1>q, <2>1, <2>2, <2>3
<1>7. /\ r \in rs /\ q.value.type = "Point" /\ g[n].value = Machine!Unit
      /\ \E x \in Names \ H :
           /\ m[r] = Machine!Value("&mutVec", localMap[x])
           /\ env[x].type = "Vec"
           /\ g[n].env = [env EXCEPT ![x] = Machine!Value("Vec", Append(env[x].is, q.value.is))]
  <2>1. c.f # "dead" /\ c.f # "fields"
    BY <1>3
  <2>2. /\ c.ref \in rs /\ q.value.type = "Point" /\ g[n].value = Machine!Unit
        /\ \E x \in Names \ H :
           /\ m[c.ref] = Machine!Value("&mutVec", localMap[x])
           /\ q.env[x].type = "Vec"
           /\ g[n].env = [q.env EXCEPT ![x] = Machine!Value("Vec", Append(q.env[x].is, q.value.is))]
    BY <1>6, <2>1, Zenon DEF Link
  <2> QED BY <1>6, <1>r, <2>2
<1>x. PICK x \in Names \ H : /\ m[r] = Machine!Value("&mutVec", localMap[x])
           /\ env[x].type = "Vec"
           /\ g[n].env = [env EXCEPT ![x] = Machine!Value("Vec", Append(env[x].is, q.value.is))]
  BY <1>7
<1>v. PICK v \in Nat : v = localMap[x]
  BY <1>6, <1>x DEF Holds
<1>8. m[v] = env[x] /\ m[v].type = "Vec" /\ m[r] = Machine!Value("&mutVec", v) /\ m[a].type = "Point"
      /\ v # d /\ v # r /\ v # a /\ r \in Nat /\ a \in Nat /\ r # a /\ r # d /\ a # d
  <2>1. m[v] = env[x]
    BY <1>6, <1>x, <1>v DEF Holds
  <2>2. r \in Nat /\ a \in Nat /\ r # d /\ a # d /\ v # r /\ v # a
    <3>1. r \in {r, a} /\ a \in {r, a}
      OBVIOUS
    <3> QED BY <1>6, <1>x, <1>v, <3>1
  <2>3. v # d
    BY <1>6, <1>x, <1>v
  <2>4. r # a
    BY <1>6, <2>2
  <2>5. m[a].type = "Point"
    BY <1>6, <1>7
  <2> QED BY <1>x, <1>v, <2>1, <2>2, <2>3, <2>4, <2>5
<1>rs. PICK rs2 : rs2 = rs \ {d}
  OBVIOUS
<1>9. PICK m1 : Runs(fn, args, s, m, rs, m1, rs2) /\ Pushes(m, m1, d, r, a, v)
  <2>1. d = 0 => fn.output = "unit"
    BY <1>6, <1>7 DEF Machine!Unit, Machine!Value
  <2>2. Memory(m)
    BY <1>1
  <2>3. \E m1 : Runs(fn, args, s, m, rs, m1, rs \ {d}) /\ Pushes(m, m1, d, r, a, v)
    BY <1>6, <1>7, <1>8, <1>s, <2>1, <2>2, DoPush
  <2> QED BY <1>rs, <2>3
<1>10. Memory(m1)
  BY <1>9 DEF Runs
<1>11. PICK m2, m3 : Dies(fn, args, m1, rs2, a, r, m2, m3)
  BY <1>8, <1>10, TwoDie
<1>12. /\ Runs(fn, args, s1, m1, rs2, m2, rs2)
       /\ Runs(fn, args, s2, m2, rs2, m3, rs2)
       /\ \A k \in Nat : k # a /\ k # r => m3[k] = m1[k]
  BY <1>11, <1>s DEF Dies
<1>13. Reaches(fn, args, blocks', current', State(m3, rs2))
  <2>1. blocks \in Seq(BlockOf(Len(locals))) /\ current \in Seq(StatementOf(Len(locals)))
    BY <1>4 DEF TypeOK
  <2>2. \A b \in 1 .. Len(blocks) : Len(blocks[b].statements) \in Nat
    BY <2>1, BlocksMeasured
  <2>b. PICK b1, bs : b1 = BasicBlock(current, s) /\ bs = Append(blocks, b1)
    OBVIOUS
  <2>3. Reaches(fn, args, bs, << >>, State(m1, rs2))
    BY <1>1, <1>9, <2>1, <2>2, <2>b, ClosedOn
  <2>4. /\ bs \in Seq(BlockOf(Len(locals)) \cup {b1}) /\ Len(bs) = Len(blocks) + 1
        /\ \A i \in 1 .. Len(blocks) : bs[i] = blocks[i]
        /\ bs[Len(blocks) + 1] = b1
    BY <2>1, <2>b, AppendOne
  <2>5. \A b \in 1 .. Len(bs) : Len(bs[b].statements) \in Nat
    <3>1. b1.statements = current /\ Len(current) \in Nat /\ Len(blocks) \in Nat
      BY <2>1, <2>b DEF BasicBlock
    <3>2. \A b \in 1 .. Len(bs) : b \in 1 .. Len(blocks) \/ b = Len(blocks) + 1
      BY <2>4, <3>1
    <3> QED BY <2>2, <2>4, <3>1, <3>2
  <2>c. PICK c0, c1, c2 : c0 = << >> /\ c1 = Append(c0, s1) /\ c2 = Append(c1, s2)
    OBVIOUS
  <2>6. c0 \in Seq({s1}) /\ c1 \in Seq({s1})
    BY <2>c
  <2>7. Reaches(fn, args, bs, c1, State(m2, rs2))
    BY <1>12, <2>3, <2>4, <2>5, <2>6, <2>c, WroteOn
  <2>8. Reaches(fn, args, bs, c2, State(m3, rs2))
    BY <1>12, <2>4, <2>5, <2>6, <2>7, <2>c, WroteOn
  <2>9. c2 = <<s1, s2>>
    BY <2>c, TwoFirst
  <2> QED BY <1>3, <2>8, <2>9, <2>b
<1>14. Memory(m3)
  BY <1>12 DEF Runs
<1>V. PICK V : V = Machine!Value("Vec", Append(env[x].is, q.value.is))
  OBVIOUS
<1>15. /\ m3[v] = V /\ m3[d] = Machine!Unit
       /\ \A k \in Nat : k # v /\ k # d /\ k # r /\ k # a => m3[k] = m[k]
  <2>1. m1[v] = V
    BY <1>6, <1>8, <1>9, <1>V DEF Pushes
  <2>2. m1[d] = Machine!Unit
    BY <1>6, <1>8, <1>9 DEF Pushes
  <2>3. \A k \in Nat : k # v /\ k # d /\ k # r /\ k # a => m1[k] = m[k]
    BY <1>9 DEF Pushes
  <2> QED BY <1>6, <1>8, <1>12, <2>1, <2>2, <2>3
<1>e2. PICK e2 : e2 = g[n].env
  OBVIOUS
<1>16. /\ e2 = [y \in Names |-> e2[y]]
       /\ \A y \in Names : e2[y] = IF y = x THEN V ELSE env[y]
  <2>1. env = [y \in Names |-> env[y]]
    BY <1>6 DEF Variables
  <2>2. e2 = [env EXCEPT ![x] = V]
    BY <1>x, <1>V, <1>e2
  <2> QED BY <2>1, <2>2
<1>17. Variables(fn, e2)
  <2>1. V.type = "Vec" /\ Proper(V)
    BY <1>V DEF Proper, Machine!Value, Types
  <2> QED BY <1>6, <1>16, <1>x, <2>1 DEF Variables
<1>18. Holds(localMap, m3, e2, H)
  <2> SUFFICES ASSUME NEW y \in Names \ H, e2[y].type # "none"
               PROVE  localMap[y] \in Nat /\ m3[localMap[y]] = e2[y]
    BY DEF Holds
  <2>1. CASE y = x
    BY <1>15, <1>16, <1>v, <2>1
  <2>2. CASE y # x
    <3>1. localMap[y] \in Nat /\ m[localMap[y]] = env[y] /\ e2[y] = env[y]
      BY <1>6, <1>16, <2>2 DEF Holds
    <3>2. localMap[y] # d /\ localMap[y] # r /\ localMap[y] # a
      BY <1>6
    <3>3. localMap[y] # v
      <4>1. \A z, w \in Names : z # w /\ localMap[z] = localMap[w] => localMap[z] = Unbound
        BY DEF Lowering, NameInv
      <4> QED BY <1>v, <2>2, <3>1, <4>1 DEF Unbound
    <3> QED BY <1>15, <3>1, <3>2, <3>3
  <2> QED BY <2>1, <2>2
<1>19. \A l \in Nat : l # Top.dest /\ l \notin Owned(Top) /\ (\A y \in Names : l # localMap[y]) => m3[l] = m[l]
  <2>1. Owned(Top) = {r, a}
    BY <1>3, <1>c, <1>r DEF Owned
  <2> QED BY <1>15, <1>c, <1>r, <1>v, <2>1
<1>20. /\ rs \ {Top.dest} \subseteq rs2 /\ m3[Top.dest] = g[n].value /\ Top.f # "dead"
       /\ UNCHANGED <<fn, next, localMap>> /\ frames' = Popped
  BY <1>3, <1>7, <1>15, <1>c, <1>r, <1>rs
<1> QED BY <1>1, <1>2, <1>5, <1>13, <1>14, <1>17, <1>18, <1>19, <1>20, <1>e2, EndsCall

-----------------------------------------------------------------------------
(* The first and the last step of a body.                                    *)

\* A return, when the value is there.
LEMMA DoReturn ==
  ASSUME NEW f, NEW as, NEW m, Memory(m), NEW rs,
         IF f.output = "unit" THEN Source!Meaning(f, as) = Machine!Unit
                              ELSE m[0].type # "uninit" /\ m[0] = Source!Meaning(f, as)
  PROVE  Runs(f, as, Return, m, rs, m, rs)
<1>r. PICK s : s = Return
  OBVIOUS
<1>1. s.op = "Return" /\ s.operands = << >> /\ s.func = "none"
  BY <1>r DEF Return
<1>2. ReadBy(s) = {}
  BY <1>1 DEF ReadBy
<1>3. s.op \notin Storage /\ s.op \notin {"Ref", "Aggregate", "Call"}
  BY <1>1 DEF Storage
<1>4. State(m, rs).mem = m
  BY DEF State
<1>5. Fit(f, as, s, State(m, rs))
  BY <1>1, <1>2, <1>3, <1>4 DEF Fit, IsPushCall
<1>6. Does(s, m) = m /\ Refs(s, rs) = rs
  BY <1>1, <1>3 DEF Does, Refs
<1> QED BY <1>r, <1>5, <1>6 DEF Runs

\* The body is closed with a return, when _0 holds what the function means.
LEMMA ReturnRuns ==
  ASSUME Lowering, args' = args, Running, EmitReturn
  PROVE  \E c : Reaches(fn', args', blocks', current', c)
<1>1. PICK m, rs, env, g, H : /\ Memory(m) /\ Reaches(fn, args, blocks, current, State(m, rs))
                              /\ Tracks(fn, args, next, frames, localMap, m, rs, env, g, H)
  BY Zenon DEF Running
<1>2. /\ frames = << >> /\ next = Len(fn.stmts) + 2 /\ fn' = fn
      /\ blocks' = Append(blocks, BasicBlock(current, Return)) /\ current' = << >>
  BY DEF EmitReturn, Idle, Finalize
<1>3. /\ next = Len(fn.stmts) + 2 /\ fn.ret # << >> => m[0] = Source!Meaning(fn, args) /\ Proper(m[0])
      /\ fn \in Functions
  BY <1>1, <1>2, IdleKnown
<1>4. TypeOK /\ Sense(fn, args)
  BY DEF Lowering
<1>v. PICK v : v = Source!Meaning(fn, args)
  OBVIOUS
<1>5. v.type = fn.output /\ (fn.ret = << >> => v = Machine!Unit)
  BY <1>4, <1>v DEF Sense
<1>6. fn.ret = << >> => fn.output = "unit"
  BY <1>5 DEF Machine!Unit, Machine!Value
<1>7. IF fn.output = "unit" THEN v = Machine!Unit ELSE m[0].type # "uninit" /\ m[0] = v
  <2>1. CASE fn.ret = << >>
    BY <1>5, <1>6, <2>1
  <2>2. CASE fn.ret # << >>
    <3>1. m[0] = v /\ Proper(m[0])
      BY <1>2, <1>3, <1>v, <2>2
    <3>2. m[0].type # "uninit"
      BY <3>1 DEF Proper, Types
    <3> QED BY <1>5, <3>1, <3>2 DEF Proper
  <2> QED BY <2>1, <2>2
<1>8. Runs(fn, args, Return, m, rs, m, rs)
  <2>1. Memory(m)
    BY <1>1
  <2>2. IF fn.output = "unit" THEN Source!Meaning(fn, args) = Machine!Unit
                              ELSE m[0].type # "uninit" /\ m[0] = Source!Meaning(fn, args)
    BY <1>7, <1>v
  <2> QED BY <2>1, <2>2, DoReturn
<1>9. Reaches(fn, args, blocks', current', State(m, rs))
  <2>1. PICK s : s = Return
    OBVIOUS
  <2>2. blocks' = Append(blocks, BasicBlock(current, s)) /\ current' = << >> /\ Runs(fn, args, s, m, rs, m, rs)
    BY <1>2, <1>8, <2>1
  <2> QED BY <1>1, <1>4, <2>2, WroteCall
<1> QED BY <1>2, <1>9, Zenon

\* The argument that a name stands for.
LEMMA ArgOfIs ==
  ASSUME NEW f, NEW as, NEW x, Len(f.params) \in Nat
  PROVE  /\ (\A p \in 1 .. Len(f.params) : f.params[p] # x) => ArgOf(f, as, x) = Source!None
         /\ \A p \in 1 .. Len(f.params) :
              f.params[p] = x /\ (\A q \in 1 .. Len(f.params) : f.params[q] = x => q <= p)
                => ArgOf(f, as, x) = as[p]
<1>s. PICK ps : ps = {p \in 1 .. Len(f.params) : f.params[p] = x}
  OBVIOUS
<1>1. ArgOf(f, as, x) = IF ps = {} THEN Source!None ELSE as[CHOOSE p \in ps : \A q \in ps : q <= p]
  BY <1>s DEF ArgOf
<1>2. ASSUME NEW p \in 1 .. Len(f.params), f.params[p] = x,
             \A q \in 1 .. Len(f.params) : f.params[q] = x => q <= p
      PROVE  ArgOf(f, as, x) = as[p]
  <2>1. p \in ps /\ \A q \in ps : q <= p
    BY <1>s, <1>2
  <2>2. \A o \in ps : (\A q \in ps : q <= o) => o = p
    <3>1. ps \subseteq Int
      BY <1>s
    <3> QED BY <2>1, <3>1
  <2>3. (CHOOSE o \in ps : \A q \in ps : q <= o) = p
    BY <2>1, <2>2
  <2> QED BY <1>1, <2>1, <2>3
<1> QED BY <1>1, <1>2, <1>s

\* The arguments are values.
LEMMA ArgProper ==
  ASSUME NEW f \in Functions, NEW as \in Arguments(f), NEW i \in 1 .. Len(f.inputs)
  PROVE  Proper(as[i]) /\ as[i].type = f.inputs[i]
<1>1. f.inputs \in Seq(Types)
  BY FunctionsAssumption
<1>2. as \in [1 .. Len(f.inputs) -> UNION {ArgValues(t) : t \in Types}]
      /\ \A j \in DOMAIN as : as[j].type = f.inputs[j]
  BY DEF Arguments
<1>3. as[i].type = f.inputs[i] /\ \E t \in Types : as[i] \in ArgValues(t)
  BY <1>2
<1>4. as[i].type \in Types
  BY <1>1, <1>3
<1> QED BY <1>3, <1>4, ArgValuesAssumption DEF Proper

\* The body begins with the arguments in the locals of their names.
LEMMA StartRuns ==
  ASSUME TypeOK, Prologue, NameInv, Sense(fn, args), args \in Arguments(fn), args' = args, StartBody
  PROVE  Running'
<1>1. /\ phase = "params" /\ next > ArgPairs /\ next' = 1
      /\ fn' = fn /\ localMap' = localMap /\ blocks' = blocks /\ current' = current /\ frames' = frames
  BY DEF StartBody
<1>2. blocks = << >> /\ current = << >> /\ frames = << >> /\ next <= ArgPairs + 1
  BY <1>1 DEF Prologue
<1>3. /\ fn \in Functions /\ next \in Nat
      /\ fn.params \in Seq(Names) /\ fn.inputs \in Seq(Types) /\ Len(fn.stmts) \in Nat
      /\ ArgPairs \in Nat
  BY FunctionsAssumption, Numbers DEF TypeOK
<1>4. /\ Len(fn.params) = Len(fn.inputs)
      /\ EnvAfter(fn, args, 0) = [x \in Names |-> ArgOf(fn, args, x)]
  BY DEF Sense
<1>n. PICK n \in Nat : n = Len(fn.params) /\ n = Len(fn.inputs)
  BY <1>3, <1>4
<1>5. ArgPairs = n /\ next = n + 1
  BY <1>1, <1>2, <1>3, <1>n DEF ArgPairs
<1>e. PICK env : env = [x \in Names |-> ArgOf(fn, args, x)]
  OBVIOUS
<1>6. DOMAIN args = 1 .. n /\ Len(args) = n
  <2>1. args \in [1 .. n -> UNION {ArgValues(t) : t \in Types}]
    BY <1>n DEF Arguments
  <2>2. args \in Seq(UNION {ArgValues(t) : t \in Types})
    BY <2>1
  <2> QED BY <2>1, <2>2
<1>d. DOMAIN fn.params = 1 .. n
  <2>1. PICK s \in Seq(Names) : s = fn.params
    BY <1>3
  <2>2. DOMAIN s = 1 .. Len(s)
    OBVIOUS
  <2> QED BY <1>n, <2>1, <2>2
<1>7. ASSUME NEW x \in Names
      PROVE  \/ localMap[x] = Unbound /\ env[x] = Source!None
             \/ /\ localMap[x] \in 1 .. n /\ fn.params[localMap[x]] = x
                /\ env[x] = args[localMap[x]]
  <2>p. PICK p : p = localMap[x]
    OBVIOUS
  <2>1. /\ \A q \in 1 .. n : fn.params[q] = x => q <= p
        /\ p # Unbound => p \in 1 .. n /\ fn.params[p] = x
    <3>1. next - 1 = n
      BY <1>5
    <3> QED BY <1>1, <2>p, <3>1 DEF NameInv
  <2>2. env[x] = ArgOf(fn, args, x)
    BY <1>e
  <2>0. /\ (\A q \in 1 .. n : fn.params[q] # x) => ArgOf(fn, args, x) = Source!None
        /\ \A o \in 1 .. n :
             fn.params[o] = x /\ (\A q \in 1 .. n : fn.params[q] = x => q <= o)
               => ArgOf(fn, args, x) = args[o]
    <3>1. Len(fn.params) \in Nat
      BY <1>n
    <3>2. /\ (\A q \in 1 .. Len(fn.params) : fn.params[q] # x) => ArgOf(fn, args, x) = Source!None
          /\ \A o \in 1 .. Len(fn.params) :
               fn.params[o] = x /\ (\A q \in 1 .. Len(fn.params) : fn.params[q] = x => q <= o)
                 => ArgOf(fn, args, x) = args[o]
      BY <3>1, ArgOfIs
    <3> QED BY <1>n, <3>2
  <2>3. CASE p = Unbound
    <3>1. \A q \in 1 .. n : fn.params[q] # x
      BY <2>1, <2>3 DEF Unbound
    <3> QED BY <2>0, <2>2, <2>3, <2>p, <3>1
  <2>4. CASE p # Unbound
    BY <2>0, <2>1, <2>2, <2>4, <2>p
  <2> QED BY <2>3, <2>4
<1>8. Variables(fn, env)
  <2>1. ASSUME NEW x \in Names, env[x].type # "none"
        PROVE  Proper(env[x]) /\ \E p \in DOMAIN fn.params : fn.params[p] = x /\ env[x].type = fn.inputs[p]
    <3>1. Source!None.type = "none"
      BY DEF Source!None, Source!Value
    <3>p. PICK p : p = localMap[x]
      OBVIOUS
    <3>2. p \in 1 .. n /\ fn.params[p] = x /\ env[x] = args[p]
      BY <1>7, <2>1, <3>1, <3>p
    <3>3. Proper(args[p]) /\ args[p].type = fn.inputs[p]
      BY <1>3, <1>n, <3>2, ArgProper
    <3>4. p \in DOMAIN fn.params
      BY <1>d, <3>2
    <3> QED BY <3>2, <3>3, <3>4
  <2>2. env = [x \in Names |-> env[x]]
    BY <1>e
  <2> QED BY <2>1, <2>2 DEF Variables
<1>m. PICK m : m = [l \in Nat |-> IF l \in 1 .. Len(args) THEN args[l] ELSE Machine!Uninit]
  OBVIOUS
<1>9. Memory(m) /\ State(m, {}) = Start(args) /\ \A l \in 1 .. n : m[l] = args[l]
  BY <1>6, <1>m DEF Memory, Start
<1>10. Holds(localMap, m, env, {})
  <2>1. Source!None.type = "none"
    BY DEF Source!None, Source!Value
  <2>2. ASSUME NEW x \in Names, env[x].type # "none" PROVE localMap[x] \in Nat /\ m[localMap[x]] = env[x]
    <3>p. PICK p : p = localMap[x]
      OBVIOUS
    <3>2. p \in 1 .. n /\ env[x] = args[p]
      BY <1>7, <2>1, <2>2, <3>p
    <3> QED BY <1>9, <3>2, <3>p
  <2> QED BY <2>2 DEF Holds
<1>11. Reaches(fn, args, blocks, current, State(m, {}))
  BY <1>2, <1>9, ReachesStart
<1>fs. PICK fs : fs = << >>
  OBVIOUS
<1>g. PICK g : g = << >>
  OBVIOUS
<1>12. Calls(fn, fs, g, localMap, m, {}, env, {})
  <2>1. \A j : j \notin 1 .. Len(fs)
    BY <1>fs
  <2> QED BY <2>1 DEF Calls
<1>k. PICK k \in Nat : k = 1
  OBVIOUS
<1>13. Bottom(fn, args, k, fs, g, localMap, m, env, {})
  <2>1. k - 1 = 0 /\ k # Len(fn.stmts) + 2
    BY <1>3, <1>k
  <2> QED BY <1>4, <1>e, <1>fs, <2>1 DEF Bottom
<1>14. Tracks(fn, args, k, fs, localMap, m, {}, env, g, {})
  BY <1>8, <1>10, <1>12, <1>13 DEF Tracks
<1>15. fn' = fn /\ args' = args /\ next' = k /\ frames' = fs /\ localMap' = localMap
       /\ blocks' = blocks /\ current' = current
  BY <1>1, <1>2, <1>fs, <1>k
<1>16. Memory(m)
  BY <1>9
<1> QED BY <1>11, <1>14, <1>15, <1>16, Zenon DEF Running

-----------------------------------------------------------------------------
(* The trace is kept by every step.                                          *)

TraceInvMeans == Supported(fn) => /\ phase = "body" => Running
                                  /\ phase = "done" => \E c : Reaches(fn, args, blocks, current, c)

\* The trace invariant, with its parts named.
LEMMA TraceMeans == TraceInv <=> TraceInvMeans
BY Zenon DEF TraceInv, TraceInvMeans, Running

\* What a supported function means, it means for these arguments.
LEMMA SupportedSense ==
  ASSUME TypeOK, args \in Arguments(fn), Supported(fn)
  PROVE  Sense(fn, args)
<1>1. fn \in Functions
  BY DEF TypeOK
<1>2. Len(fn.stmts) \in Nat /\ fn.point \in BOOLEAN
  BY <1>1, FunctionsAssumption
<1>3. Source!Meaningful(fn, args)
  BY DEF Supported, MeansSomething
<1> QED BY <1>2, <1>3, MeaningSense

\* Every step of build_body keeps the trace, and the last one leaves a whole one.
LEMMA BodyStep ==
  ASSUME Lowering, args' = args, Running, Next
  PROVE  /\ phase' = "body" => Running'
         /\ phase' = "done" => \E c : Reaches(fn', args', blocks', current', c)
<1>1. phase = "body"
  BY DEF Lowering
<1>2. CASE EmitReturn
  <2>1. phase' = "done"
    BY <1>2 DEF EmitReturn
  <2> QED BY <1>2, <2>1, ReturnRuns
<1>3. CASE Panic
  BY <1>3 DEF Panic
<1>4. ASSUME Running', phase' = phase
      PROVE  /\ phase' = "body" => Running'
             /\ phase' = "done" => \E c : Reaches(fn', args', blocks', current', c)
  BY <1>1, <1>4
<1>5. ~Resolve /\ ~BindParam /\ ~StartBody
  BY <1>1 DEF Resolve, BindParam, StartBody
<1>6. CASE LowerLet
  BY <1>4, <1>6, LetRuns DEF LowerLet
<1>7. CASE LowerExprStmt
  BY <1>4, <1>7, ExprStmtRuns DEF LowerExprStmt
<1>8. CASE EndExprStmt
  BY <1>4, <1>8, EndExprStmtRuns DEF EndExprStmt
<1>9. CASE LowerIntLit
  BY <1>4, <1>9, IntLitRuns DEF LowerIntLit
<1>10. CASE LowerVar
  BY <1>4, <1>10, VarRuns DEF LowerVar
<1>11. CASE BeginStruct
  BY <1>4, <1>11, BeginStructRuns DEF BeginStruct
<1>12. CASE LowerField
  BY <1>4, <1>12, FieldRuns DEF LowerField
<1>13. CASE FinishStruct
  BY <1>4, <1>13, FinishStructRuns DEF FinishStruct
<1>14. CASE LowerVecNew
  BY <1>4, <1>14, VecNewRuns DEF LowerVecNew
<1>15. CASE BeginPush
  BY <1>4, <1>15, BeginPushRuns DEF BeginPush
<1>16. CASE FinishPush
  BY <1>4, <1>16, FinishPushRuns DEF FinishPush
<1>17. CASE LowerLen
  BY <1>4, <1>17, LenRuns DEF LowerLen
<1>18. CASE LowerRet
  BY <1>4, <1>18, RetRuns DEF LowerRet
<1> QED BY <1>2, <1>3, <1>5, <1>6, <1>7, <1>8, <1>9, <1>10, <1>11, <1>12, <1>13, <1>14, <1>15, <1>16,
           <1>17, <1>18 DEF Next

\* Every step of the compiler and of the program keeps the trace.
LEMMA TraceInvNext ==
  TextInv /\ RunInv /\ NameInv /\ TraceInv /\ [CompileNext]_system => TraceInv'
<1> SUFFICES ASSUME TextInv, RunInv, NameInv, TraceInv, [CompileNext]_system, Supported(fn)'
             PROVE  /\ phase' = "body" => Running'
                    /\ phase' = "done" => \E c : Reaches(fn', args', blocks', current', c)
  <2>1. TraceInvMeans' => TraceInv'
    BY TraceMeans, PTL
  <2> QED BY <2>1, Zenon DEF TraceInvMeans
<1>1. args' = args /\ (Next \/ UNCHANGED vars)
  BY DEF CompileNext, Compile, CallIt, Run, system
<1>2. fn' = fn
  BY <1>1 DEF Next, vars, Resolve, BindParam, StartBody, LowerLet, LowerExprStmt, EndExprStmt,
         LowerIntLit, LowerVar, BeginStruct, LowerField, FinishStruct, LowerVecNew, BeginPush,
         FinishPush, LowerLen, LowerRet, EmitReturn, Panic
<1>3. Supported(fn)
  BY <1>2, Zenon
<1>4. TypeOK /\ Prologue /\ StorageInv /\ args \in Arguments(fn)
  BY DEF TextInv, RunInv
<1>5. Sense(fn, args)
  BY <1>3, <1>4, SupportedSense
<1>6. /\ phase = "body" => Running
      /\ phase = "done" => \E c : Reaches(fn, args, blocks, current, c)
  BY <1>3, TraceMeans DEF TraceInvMeans
<1>7. CASE UNCHANGED vars
  <2>1. /\ phase' = phase /\ fn' = fn /\ blocks' = blocks /\ current' = current
        /\ next' = next /\ frames' = frames /\ localMap' = localMap
    BY <1>7 DEF vars
  <2>2. Running => Running'
    BY <1>1, <2>1, Zenon DEF Running
  <2> QED BY <1>1, <1>6, <2>1, <2>2
<1>8. CASE Next /\ phase = "body"
  <2>1. Lowering
    BY <1>3, <1>4, <1>5, <1>8 DEF Lowering
  <2> QED BY <1>1, <1>6, <1>8, <2>1, BodyStep
<1>9. CASE Next /\ phase # "body"
  <2>1. Resolve \/ BindParam \/ StartBody \/ Panic
    BY <1>9 DEF Next, LowerLet, LowerExprStmt, EndExprStmt,
         LowerIntLit, LowerVar, BeginStruct, LowerField, FinishStruct, LowerVecNew, BeginPush,
         FinishPush, LowerLen, LowerRet, EmitReturn, Idle, Active
  <2>2. CASE StartBody
    <3>1. phase' = "body"
      BY <2>2 DEF StartBody
    <3>2. Running'
      BY <1>1, <1>4, <1>5, <2>2, StartRuns
    <3> QED BY <3>1, <3>2
  <2>3. CASE Resolve \/ BindParam \/ Panic
    BY <2>3 DEF Resolve, BindParam, Panic
  <2> QED BY <2>1, <2>2, <2>3
<1> QED BY <1>1, <1>7, <1>8, <1>9

\* Before the body there is none to speak of.
LEMMA TraceInvInit == Init => TraceInv
BY DEF Init, TraceInv

\* All of it together.
CompileInv == TextInv /\ RunInv /\ NameInv /\ TraceInv

\* It is an invariant.
LEMMA CompileInvHolds == CompileSpec => []CompileInv
<1>1. CompileInit => CompileInv
  <2>1. CompileInit => Init
    BY DEF CompileInit
  <2> QED BY <2>1, InvInit, NameInvInit, TraceInvInit DEF CompileInv
<1>2. CompileInv /\ [CompileNext]_system => CompileInv'
  <2>1. [CompileNext]_system => [Next]_vars
    BY DEF CompileNext, Compile, CallIt, Run, system
  <2>2. TextInv /\ NameInv /\ [CompileNext]_system => NameInv'
    BY <2>1, NameInvNext DEF TextInv
  <2> QED BY <2>2, TextInvNext, RunInvNext, TraceInvNext DEF CompileInv
<1> QED BY <1>1, <1>2, PTL DEF CompileSpec

-----------------------------------------------------------------------------
(* From site to site.                                                        *)

NextSite(p, n) ==
  Precedes(p, n) /\ \A c \in Sites : Precedes(c, n) => Precedes(c, p) \/ c = p

\* Lengths, and the sites in them.
LEMMA SiteBounds ==
  ASSUME TypeOK
  PROVE  /\ Len(blocks) \in Nat /\ Len(current) \in Nat
         /\ \A b \in 1 .. Len(blocks) : Len(blocks[b].statements) \in Nat
         /\ \A b, i : <<b, i>> \in Sites <=> IsSite(blocks, current, b, i)
         /\ \A b, i : IsSite(blocks, current, b, i) =>
              b \in Nat \ {0} /\ i \in Nat \ {0} /\ At(<<b, i>>) = Instruction(blocks, current, b, i)
<1>k. PICK k \in Nat : k = Len(blocks)
  BY TextTypedHolds DEF TextTyped
<1>1. \A b \in 1 .. k : Len(blocks[b].statements) \in Nat
  <2>1. \A b \in 1 .. k : blocks[b] \in BlockOf(Len(locals))
    BY <1>k DEF TypeOK
  <2>2. \A b \in 1 .. k : blocks[b].statements \in Seq(StatementOf(Len(locals)))
    BY <2>1 DEF BlockOf
  <2> QED BY <2>2
<1>2. Len(current) \in Nat
  BY TextTypedHolds DEF TextTyped
<1>3. \A b, i : IsSite(blocks, current, b, i) => b \in Nat \ {0} /\ i \in Nat \ {0}
  BY <1>k, <1>1, <1>2 DEF IsSite
<1>4. SitesView
  BY SitesViewHolds
<1>5. \A b, i : IsSite(blocks, current, b, i) => At(<<b, i>>) = Instruction(blocks, current, b, i)
  BY <1>4 DEF SitesView
<1>6. ASSUME NEW b, NEW i, <<b, i>> \in Sites PROVE IsSite(blocks, current, b, i)
  <2>1. PICK c, j : <<b, i>> = <<c, j>> /\ IsSite(blocks, current, c, j)
    BY <1>4, <1>6 DEF SitesView
  <2> QED BY <2>1
<1>7. ASSUME NEW b, NEW i, IsSite(blocks, current, b, i) PROVE <<b, i>> \in Sites
  BY <1>4, <1>7 DEF SitesView
<1> QED BY <1>k, <1>1, <1>2, <1>3, <1>5, <1>6, <1>7

\* What holds of the first site, and of the next site of each, holds of all.
LEMMA SiteInduction ==
  ASSUME TypeOK, NEW S, <<1, 1>> \in S,
         \A b, i : IsSite(blocks, current, b, i) /\ <<b, i>> \in S /\ SiteAfter(blocks, b, i) \in Sites
                     => SiteAfter(blocks, b, i) \in S
  PROVE  \A b, i : IsSite(blocks, current, b, i) => <<b, i>> \in S
<1>k. PICK k \in Nat : k = Len(blocks)
  BY SiteBounds
<1>1. /\ Len(current) \in Nat
      /\ \A b \in 1 .. k : Len(blocks[b].statements) \in Nat
      /\ \A b, i : IsSite(blocks, current, b, i) => b \in Nat \ {0} /\ i \in Nat \ {0} /\ <<b, i>> \in Sites
  BY <1>k, SiteBounds
<1> DEFINE Bad(b, i) == IsSite(blocks, current, b, i) /\ <<b, i>> \notin S
           B == {b \in Nat : \E i \in Nat : Bad(b, i)}
<1> SUFFICES ASSUME B # {} PROVE FALSE
  BY <1>1
<1>2. PICK b \in B : \A o \in B : b <= o
  <2>1. B \subseteq Nat
    OBVIOUS
  <2> HIDE DEF B
  <2> QED BY <2>1, FirstOf
<1> DEFINE I == {i \in Nat : Bad(b, i)}
<1>3. PICK i \in I : \A o \in I : i <= o
  <2>1. I \subseteq Nat /\ I # {}
    OBVIOUS
  <2> HIDE DEF I
  <2> QED BY <2>1, FirstOf
<1>4. b \in Nat \ {0} /\ i \in Nat \ {0} /\ IsSite(blocks, current, b, i) /\ <<b, i>> \notin S /\ <<b, i>> \in Sites
  BY <1>1, <1>2, <1>3
<1>5. \A j \in Nat : j < i => ~Bad(b, j)
  BY <1>3, <1>4
<1>6. \A c \in Nat : c < b => \A j \in Nat : ~Bad(c, j)
  BY <1>2, <1>4
<1> HIDE DEF B, I
<1>7. CASE i > 1
  <2>1. i - 1 \in Nat /\ i - 1 < i /\ (i - 1) + 1 = i
    BY <1>4, <1>7
  <2>2. IsSite(blocks, current, b, i - 1)
    BY <1>1, <1>4, <1>7, <1>k DEF IsSite
  <2>3. SiteAfter(blocks, b, i - 1) = <<b, i>>
    BY <1>1, <1>4, <1>7, <1>k, <2>1 DEF IsSite, SiteAfter
  <2> QED BY <1>4, <1>5, <2>1, <2>2, <2>3
<1>8. CASE i = 1 /\ b > 1
  <2>c. PICK c \in Nat : c = b - 1 /\ c + 1 = b /\ c < b
    BY <1>4, <1>8
  <2>1. c \in 1 .. k
    BY <1>4, <1>8, <1>k, <2>c DEF IsSite
  <2>m. PICK m \in Nat : m = Len(blocks[c].statements)
    BY <1>1, <2>1
  <2>2. IsSite(blocks, current, c, m + 1)
    BY <1>k, <2>1, <2>m DEF IsSite
  <2>3. SiteAfter(blocks, c, m + 1) = <<b, i>>
    BY <1>8, <1>k, <2>1, <2>m, <2>c DEF SiteAfter
  <2>4. m + 1 \in Nat
    OBVIOUS
  <2> QED BY <1>4, <1>6, <2>c, <2>2, <2>3, <2>4
<1>9. i = 1 /\ b = 1 => FALSE
  BY <1>4
<1> QED BY <1>4, <1>7, <1>8, <1>9

\* The site after a site is the next one.
LEMMA AfterSite ==
  ASSUME TypeOK, NEW b, NEW i, IsSite(blocks, current, b, i)
  PROVE  NextSite(<<b, i>>, SiteAfter(blocks, b, i))
<1>k. PICK k \in Nat : k = Len(blocks)
  BY SiteBounds
<1>1. /\ Len(current) \in Nat
      /\ \A c \in 1 .. k : Len(blocks[c].statements) \in Nat
      /\ b \in Nat \ {0} /\ i \in Nat \ {0}
  BY <1>k, SiteBounds
<1>2. \A p \in Sites : \E c, j \in Nat \ {0} : p = <<c, j>> /\ IsSite(blocks, current, c, j)
  BY SitesArePairs
<1>3. CASE b <= k /\ i = Len(blocks[b].statements) + 1
  <2>m. PICK m \in Nat : m = Len(blocks[b].statements)
    BY <1>1, <1>3
  <2>1. SiteAfter(blocks, b, i) = <<b + 1, 1>>
    BY <1>3, <1>k DEF SiteAfter
  <2>2. Precedes(<<b, i>>, <<b + 1, 1>>)
    BY <1>1 DEF Precedes
  <2>3. ASSUME NEW c \in Nat \ {0}, NEW j \in Nat \ {0}, IsSite(blocks, current, c, j), Precedes(<<c, j>>, <<b + 1, 1>>)
        PROVE  Precedes(<<c, j>>, <<b, i>>) \/ <<c, j>> = <<b, i>>
    <3>1. c <= b
      BY <1>1, <2>3 DEF Precedes
    <3>2. c = b => j <= m + 1
      BY <1>1, <1>3, <1>k, <2>3, <2>m DEF IsSite
    <3> QED BY <1>1, <1>3, <2>m, <3>1, <3>2 DEF Precedes
  <2> QED BY <1>2, <2>1, <2>2, <2>3 DEF NextSite
<1>4. CASE ~(b <= k /\ i = Len(blocks[b].statements) + 1)
  <2>1. SiteAfter(blocks, b, i) = <<b, i + 1>>
    BY <1>4, <1>k DEF SiteAfter
  <2>2. Precedes(<<b, i>>, <<b, i + 1>>)
    BY <1>1 DEF Precedes
  <2>3. ASSUME NEW c \in Nat \ {0}, NEW j \in Nat \ {0}, Precedes(<<c, j>>, <<b, i + 1>>)
        PROVE  Precedes(<<c, j>>, <<b, i>>) \/ <<c, j>> = <<b, i>>
    BY <1>1, <2>3 DEF Precedes
  <2> QED BY <1>2, <2>1, <2>2, <2>3 DEF NextSite
<1> QED BY <1>3, <1>4

\* What holds of l up to p, and is not changed there, holds up to the next site.
LEMMA SinceOn ==
  ASSUME TypeOK, NEW p \in Sites, NEW n \in Sites, NextSite(p, n), NEW l
  PROVE  /\ \A q \in {Entry} \cup Sites : Since(q, p, l) /\ ~Changes(At(p), l) => Since(q, n, l)
         /\ Since(p, n, l)
         /\ Initialised(p, l) /\ ~Changes(At(p), l) => Initialised(n, l)
         /\ Writes(At(p), l) => Initialised(n, l)
<1>0. \A q \in {Entry} \cup Sites : \E b, i \in Nat : q = <<b, i>>
  BY SitesArePairs DEF Entry
<1>a. /\ \A b, c, d, i, j, k \in Nat : Precedes(<<b, i>>, <<c, j>>) /\ Precedes(<<c, j>>, <<d, k>>) => Precedes(<<b, i>>, <<d, k>>)
      /\ \A b, c, i, j \in Nat : ~(Precedes(<<b, i>>, <<c, j>>) /\ Precedes(<<c, j>>, <<b, i>>))
  BY DEF Precedes
<1>1. ASSUME NEW q \in {Entry} \cup Sites, Precedes(q, p) PROVE Precedes(q, n)
  <2>1. PICK b, i \in Nat : q = <<b, i>>
    BY <1>0
  <2>2. PICK c, j \in Nat : p = <<c, j>>
    BY <1>0
  <2>3. PICK d, k \in Nat : n = <<d, k>>
    BY <1>0
  <2>4. Precedes(p, n)
    BY DEF NextSite
  <2> QED BY <1>1, <2>1, <2>2, <2>3, <2>4 DEF Precedes
<1>2. \A c \in Sites : ~(Precedes(p, c) /\ Precedes(c, p))
  BY <1>0, <1>a
<1>3. \A c \in Sites : Precedes(c, n) => Precedes(c, p) \/ c = p
  BY DEF NextSite
<1>4. ASSUME NEW q \in {Entry} \cup Sites, Since(q, p, l), ~Changes(At(p), l) PROVE Since(q, n, l)
  BY <1>1, <1>3, <1>4 DEF Since
<1>5. Since(p, n, l)
  <2>1. Precedes(p, n) /\ ~Precedes(p, p)
    BY <1>2 DEF NextSite
  <2> QED BY <1>2, <1>3, <2>1 DEF Since
<1>6. ASSUME Initialised(p, l), ~Changes(At(p), l) PROVE Initialised(n, l)
  <2>1. CASE l \in 1 .. ArgPairs /\ Since(Entry, p, l)
    BY <1>4, <1>6, <2>1 DEF Initialised
  <2>2. CASE \E q \in Sites : Writes(At(q), l) /\ Since(q, p, l)
    BY <1>4, <1>6, <2>2 DEF Initialised
  <2> QED BY <1>6, <2>1, <2>2 DEF Initialised
<1>7. Writes(At(p), l) => Initialised(n, l)
  BY <1>5 DEF Initialised
<1> QED BY <1>4, <1>5, <1>6, <1>7

-----------------------------------------------------------------------------
(* What the trace says of the text.                                          *)

\* At the site p, every value is of its local's type, and the text gives it;
\* every borrow in refs is of the local that the text borrows.
Sound(p, m, rs) ==
  /\ Memory(m)
  /\ \A l \in Locals : m[l].type # "uninit" => m[l].type = TypeOf(l) /\ Initialised(p, l)
  /\ \A r \in Locals : r \in rs /\ m[r].type # "uninit" =>
       \E q \in Sites : /\ At(q).op = "Ref" /\ At(q).place = r /\ Since(q, p, r)
                        /\ m[r] = Machine!Value("&mutVec", At(q).operands[1].arg)

\* What the instruction s, from m and rs, may leave in memory.
Leaves(s, m, rs, m2, rs2) ==
  /\ Memory(m2)
  /\ \A l \in Locals : m2[l].type # "uninit" =>
       \/ Writes(s, l) /\ m2[l].type = TypeOf(l)
       \/ ~Changes(s, l) /\ m2[l].type = m[l].type
  /\ \A r \in Locals : r \in rs2 /\ m2[r].type # "uninit" =>
       \/ s.op = "Ref" /\ s.place = r /\ m2[r] = Machine!Value("&mutVec", s.operands[1].arg)
       \/ r \in rs /\ ~Changes(s, r) /\ m2[r] = m[r]

\* The next site is sound, after an instruction that leaves what it may.
LEMMA LeavesSound ==
  ASSUME TypeOK, NEW p \in Sites, NEW n \in Sites, NextSite(p, n),
         NEW m, NEW rs, NEW m2, NEW rs2, Sound(p, m, rs), Leaves(At(p), m, rs, m2, rs2)
  PROVE  Sound(n, m2, rs2)
<1>s. PICK s : s = At(p)
  OBVIOUS
<1>1. ASSUME NEW l \in Locals, m2[l].type # "uninit"
      PROVE  m2[l].type = TypeOf(l) /\ Initialised(n, l)
  <2>1. CASE Writes(s, l) /\ m2[l].type = TypeOf(l)
    BY <1>s, <2>1, SinceOn
  <2>2. CASE ~Changes(s, l) /\ m2[l].type = m[l].type
    <3>1. m[l].type = TypeOf(l) /\ Initialised(p, l)
      BY <1>1, <2>2 DEF Sound
    <3> QED BY <1>s, <2>2, <3>1, SinceOn
  <2> QED BY <1>1, <1>s, <2>1, <2>2 DEF Leaves
<1>2. ASSUME NEW r \in Locals, r \in rs2, m2[r].type # "uninit"
      PROVE  \E q \in Sites : /\ At(q).op = "Ref" /\ At(q).place = r /\ Since(q, n, r)
                              /\ m2[r] = Machine!Value("&mutVec", At(q).operands[1].arg)
  <2>1. CASE s.op = "Ref" /\ s.place = r /\ m2[r] = Machine!Value("&mutVec", s.operands[1].arg)
    <3>1. Since(p, n, r)
      BY SinceOn
    <3> QED BY <1>s, <2>1, <3>1
  <2>2. CASE r \in rs /\ ~Changes(s, r) /\ m2[r] = m[r]
    <3>1. PICK q \in Sites : /\ At(q).op = "Ref" /\ At(q).place = r /\ Since(q, p, r)
                             /\ m[r] = Machine!Value("&mutVec", At(q).operands[1].arg)
      BY <1>2, <2>2 DEF Sound
    <3>2. Since(q, n, r)
      BY <1>s, <2>2, <3>1, SinceOn
    <3> QED BY <2>2, <3>1, <3>2
  <2> QED BY <1>2, <1>s, <2>1, <2>2 DEF Leaves
<1> QED BY <1>1, <1>2 DEF Sound, Leaves

\* Memory after a write.
LEMMA PutLeaves ==
  ASSUME TypeOK, NEW s, s.op \notin Storage \cup {"Return"}, NEW m, NEW d, d = s.place, NEW v, v.type = TypeOf(d),
         \A l \in Locals : m[l].type # "uninit" => m[l].type = TypeOf(l),
         NEW m2, m2 = Put(m, s.operands, d, v)
  PROVE  /\ Memory(m2)
         /\ \A l \in Locals : m2[l].type # "uninit" =>
              \/ l = d /\ Writes(s, l) /\ m2[l] = v /\ m2[l].type = TypeOf(l)
              \/ l # d /\ ~Changes(s, l) /\ m2[l] = m[l]
<1>1. m2 = [n \in Nat |-> IF n = d THEN v ELSE IF n \in Lost(s.operands, m) THEN Machine!Uninit ELSE m[n]]
  BY DEF Put
<1>2. Memory(m2)
  BY <1>1 DEF Memory
<1>3. Locals \subseteq Nat
  BY DEF Locals
<1>4. ASSUME NEW l \in Locals, m2[l].type # "uninit", l # d
      PROVE  ~Changes(s, l) /\ m2[l] = m[l]
  <2>1. l \notin Lost(s.operands, m) /\ m2[l] = m[l]
    BY <1>1, <1>3, <1>4 DEF Machine!Uninit, Machine!Value
  <2>2. m[l].type = TypeOf(l)
    BY <1>4, <2>1
  <2>3. TypeOf(l) \in CopyTypes \/ ~\E i \in DOMAIN s.operands : s.operands[i] = Move(l)
    BY <1>3, <2>1, <2>2 DEF Lost
  <2>4. ~Writes(s, l) /\ ~Clears(s, l)
    BY <1>4, <2>3 DEF Writes, Clears
  <2> QED BY <2>1, <2>4 DEF Changes
<1>5. ASSUME NEW l \in Locals, l = d PROVE Writes(s, l) /\ m2[l] = v
  BY <1>1, <1>3, <1>5 DEF Writes
<1> QED BY <1>2, <1>4, <1>5

\* What an instruction makes is of its place's type.
LEMMA MadeTyped ==
  ASSUME TextInv, NameInv, phase = "done", NEW p \in Sites, NEW s, s = At(p), s.op \notin Storage \cup {"Return"},
         NEW m, NEW rs, Fit(fn, args, s, State(m, rs)),
         \A l \in Locals : m[l].type # "uninit" => m[l].type = TypeOf(l)
  PROVE  /\ Made(s, m).type = TypeOf(s.place) /\ s.place \in Locals /\ Made(s, m).type = Produced(s)
         /\ ReadBy(s) \subseteq Locals /\ \A l \in ReadBy(s) : m[l].type # "uninit"
<1>1. TypeOK /\ DeclaredTypeHolds /\ Shaped(ArgPairs, s)
  BY TypesInvMeans DEF TextInv, ShapeInv
<1>2. s.place \in Locals
  BY <1>1, PlaceIsLocal
<1>3. ReadBy(s) \subseteq Locals
  <2>1. UsedBy(s) \subseteq Locals
    BY <1>1, UsedIsLocal, SomeLocal
  <2>2. ReadBy(s) \subseteq UsedBy(s)
    BY DEF UsedBy
  <2> QED BY <2>1, <2>2
<1>m. State(m, rs).mem = m
  BY DEF State
<1>4. \A l \in ReadBy(s) : m[l].type # "uninit"
  BY <1>m DEF Fit
<1>p. Made(s, m).type = Produced(s)
  <2>0. s.op \in {"Use", "Ref", "Aggregate", "Call"}
    BY <1>1, FormOf
  <2>1. CASE s.op = "Ref"
    BY <2>1 DEF Made, Produced, Machine!Value
  <2>2. CASE s.op = "Aggregate"
    BY <2>2 DEF Made, Produced, Machine!Value
  <2>3. CASE s.op = "Call"
    <3>1. s.func \in {"new", "push", "len"}
      BY <1>1, <2>3, FormOf
    <3>2. CASE s.func = "new"
      BY <2>3, <3>2 DEF Made, Produced, Output, Machine!Value
    <3>3. CASE s.func = "push"
      BY <2>3, <3>3 DEF Made, Produced, Output, Machine!Unit, Machine!Value
    <3>4. CASE s.func = "len"
      BY <2>3, <3>4 DEF Made, Produced, Output, Machine!Value
    <3> QED BY <3>1, <3>2, <3>3, <3>4
  <2>4. CASE s.op = "Use"
    <3>0. (\E c : s.operands = <<Const(c)>>) \/ (\E v : s.operands = <<Move(v)>>)
      BY <1>1, <2>4, FormOf
    <3>1. ASSUME NEW c, s.operands = <<Const(c)>> PROVE Made(s, m).type = Produced(s)
      BY <2>4, <3>1 DEF Made, Produced, Operand, Const, Machine!Value
    <3>2. ASSUME NEW v, s.operands = <<Move(v)>> PROVE Made(s, m).type = Produced(s)
      <4>1. s.operands[1].mode = "move" /\ s.operands[1].arg = v /\ 1 \in DOMAIN s.operands
        BY <3>2 DEF Move
      <4>2. v \in ReadBy(s)
        BY <4>1 DEF ReadBy
      <4>3. m[v].type = TypeOf(v)
        BY <1>3, <1>4, <4>2
      <4>4. Made(s, m) = m[v]
        BY <2>4, <4>1 DEF Made, Operand
      <4>5. Produced(s) = TypeOf(v)
        BY <2>4, <4>1 DEF Produced
      <4> QED BY <4>3, <4>4, <4>5
    <3> QED BY <3>0, <3>1, <3>2
  <2> QED BY <2>0, <2>1, <2>2, <2>3, <2>4
<1>5. CASE s.place = 0
  <2>1. Made(s, m).type = fn.output
    BY <1>5, <1>m DEF Fit
  <2>2. TypeOf(0) = fn.output
    BY DEF NameInv, TypeOf
  <2> QED BY <1>2, <1>3, <1>4, <1>5, <1>p, <2>1, <2>2
<1>6. CASE s.place # 0
  <2>1. TypeOf(s.place) = Produced(s)
    BY <1>1, <1>6 DEF DeclaredTypeHolds, Sites
  <2> QED BY <1>2, <1>3, <1>4, <1>p, <2>1
<1> QED BY <1>5, <1>6

\* An instruction without moves that writes nothing.
LEMMA StillLeaves ==
  ASSUME NEW s, s.op \in Storage \cup {"Return"}, s.operands = << >>, NEW l, s.op \in Storage => l # s.place
  PROVE  ~Changes(s, l)
<1>1. \A i : i \notin DOMAIN s.operands
  OBVIOUS
<1>2. ~Writes(s, l)
  BY DEF Writes
<1>3. ~Clears(s, l)
  BY <1>1 DEF Clears, Storage
<1> QED BY <1>2, <1>3 DEF Changes

\* Storage statements and returns have no operands.
LEMMA QuietOperands ==
  ASSUME NEW n, NEW s, Shaped(n, s), s.op \in Storage \cup {"Return"}
  PROVE  s.operands = << >>
<1>1. s.op \notin {"Use", "Ref", "Aggregate", "Call"}
  BY DEF Storage
<1> QED BY <1>1 DEF Shaped, StorageLive, StorageDead, Use, Ref, Aggregate, Call, Return

\* They leave what they may.
LEMMA QuietSound ==
  ASSUME TextInv, NEW p \in Sites, NEW s, s = At(p), s.op \in Storage \cup {"Return"},
         NEW m, NEW rs, Sound(p, m, rs)
  PROVE  Leaves(s, m, rs, Does(s, m), Refs(s, rs))
<1>1. Shaped(ArgPairs, s)
  BY DEF TextInv, ShapeInv
<1>2. s.operands = << >>
  BY <1>1, QuietOperands
<1>3. Memory(m) /\ \A l \in Locals : m[l].type # "uninit" => m[l].type = TypeOf(l)
  BY DEF Sound
<1>4. Refs(s, rs) = rs
  BY DEF Refs
<1>5. Locals \subseteq Nat
  BY DEF Locals
<1>6. CASE s.op \in Storage
  <2>1. Does(s, m) = [m EXCEPT ![s.place] = Machine!Uninit]
    BY <1>6 DEF Does
  <2>d. PICK m2 : m2 = Does(s, m)
    OBVIOUS
  <2>2. Memory(m2)
    BY <1>3, <2>1, <2>d DEF Memory
  <2>3. \A l \in Nat : m2[l] = IF l = s.place THEN Machine!Uninit ELSE m[l]
    BY <1>3, <2>1, <2>d DEF Memory
  <2>4. ASSUME NEW l \in Locals, m2[l].type # "uninit" PROVE ~Changes(s, l) /\ m2[l] = m[l]
    <3>1. l # s.place /\ m2[l] = m[l]
      BY <1>5, <2>3, <2>4 DEF Machine!Uninit, Machine!Value
    <3> QED BY <1>2, <3>1, StillLeaves
  <2> QED BY <1>4, <2>2, <2>4, <2>d DEF Leaves
<1>7. CASE s.op \notin Storage
  <2>1. Does(s, m) = m
    BY <1>7 DEF Does
  <2>2. \A l : ~Changes(s, l)
    BY <1>2, <1>7, StillLeaves
  <2> QED BY <1>3, <1>4, <2>1, <2>2 DEF Leaves
<1> QED BY <1>6, <1>7

\* What is needed of a write: its place takes the value, the rest is as before.
LEMMA WriteSound ==
  ASSUME TextInv, NameInv, phase = "done", NEW p \in Sites, NEW s, s = At(p), s.op \notin Storage \cup {"Return"},
         NEW m, NEW rs, Sound(p, m, rs), Fit(fn, args, s, State(m, rs)), ~IsPushCall(s)
  PROVE  Leaves(s, m, rs, Does(s, m), Refs(s, rs))
<1>v. PICK v : v = Made(s, m)
  OBVIOUS
<1>1. TypeOK /\ \A l \in Locals : m[l].type # "uninit" => m[l].type = TypeOf(l)
  BY DEF TextInv, Sound
<1>2. v.type = TypeOf(s.place)
  BY <1>1, <1>v, MadeTyped
<1>3. Does(s, m) = Put(m, s.operands, s.place, v)
  BY <1>v DEF Does
<1>d. PICK m2 : m2 = Does(s, m)
  OBVIOUS
<1>4. /\ Memory(m2)
      /\ \A l \in Locals : m2[l].type # "uninit" =>
           \/ l = s.place /\ Writes(s, l) /\ m2[l] = v /\ m2[l].type = TypeOf(l)
           \/ l # s.place /\ ~Changes(s, l) /\ m2[l] = m[l]
  BY <1>1, <1>2, <1>3, <1>d, PutLeaves
<1>5. ASSUME NEW r \in Locals, r \in Refs(s, rs), m2[r].type # "uninit"
      PROVE  \/ s.op = "Ref" /\ s.place = r /\ m2[r] = Machine!Value("&mutVec", s.operands[1].arg)
             \/ r \in rs /\ ~Changes(s, r) /\ m2[r] = m[r]
  <2>1. CASE s.op = "Ref"
    <3>1. v = Machine!Value("&mutVec", s.operands[1].arg)
      BY <1>v, <2>1 DEF Made
    <3>2. r \in rs \/ r = s.place
      BY <1>5, <2>1 DEF Refs
    <3> QED BY <1>4, <1>5, <2>1, <3>1, <3>2
  <2>2. CASE s.op # "Ref"
    <3>1. r \in rs /\ r # s.place
      BY <1>5, <2>2 DEF Refs
    <3> QED BY <1>4, <1>5, <3>1
  <2> QED BY <2>1, <2>2
<1> QED BY <1>4, <1>5, <1>d DEF Leaves

\* The Vec that a push changes.
LEMMA PushSound ==
  ASSUME TextInv, NameInv, phase = "done", NEW p \in Sites, NEW s, s = At(p), s.op \notin Storage \cup {"Return"},
         NEW m, NEW rs, Sound(p, m, rs), Fit(fn, args, s, State(m, rs)), IsPushCall(s)
  PROVE  /\ Leaves(s, m, rs, Does(s, m), Refs(s, rs))
         /\ LET r == s.operands[1].arg
                vec == m[r].is
            IN /\ r \in Locals /\ r \in rs /\ m[r].type # "uninit"
               /\ vec \in Locals /\ vec # s.place /\ vec \notin Lost(s.operands, m) /\ m[vec].type = "Vec"
<1>v. PICK v : v = Made(s, m)
  OBVIOUS
<1>m. State(m, rs).mem = m /\ State(m, rs).refs = rs
  BY DEF State
<1>1. TypeOK /\ (\A l \in Locals : m[l].type # "uninit" => m[l].type = TypeOf(l)) /\ Shaped(ArgPairs, s)
  BY DEF TextInv, Sound, ShapeInv
<1>2. /\ v.type = TypeOf(s.place) /\ s.place \in Locals
      /\ ReadBy(s) \subseteq Locals /\ \A l \in ReadBy(s) : m[l].type # "uninit"
  BY <1>1, <1>v, MadeTyped
<1>c. s.op = "Call" /\ s.func = "push"
  BY DEF IsPushCall
<1>ra. PICK r, a : s.operands = <<Move(r), Move(a)>>
  BY <1>1, <1>c, FormOf
<1>3. /\ s.operands[1] = Move(r) /\ s.operands[2] = Move(a) /\ DOMAIN s.operands = {1, 2}
      /\ s.operands[1].arg = r /\ s.operands[2].arg = a
      /\ s.operands[1].mode = "move" /\ s.operands[2].mode = "move"
  BY <1>ra DEF Move
<1>4. r \in ReadBy(s) /\ a \in ReadBy(s)
  BY <1>3 DEF ReadBy
<1>5. m[r].type = "&mutVec" /\ m[a].type = "Point" /\ r \in rs /\ m[m[r].is].type = "Vec"
  <2>1. \A i \in DOMAIN s.operands : Operand(s.operands[i], m).type = Inputs(s.func)[i]
    BY <1>c, <1>m DEF Fit
  <2>2. Operand(s.operands[1], m) = m[r] /\ Operand(s.operands[2], m) = m[a]
    BY <1>3 DEF Operand
  <2>3. Inputs(s.func)[1] = "&mutVec" /\ Inputs(s.func)[2] = "Point"
    BY <1>c DEF Inputs
  <2>4. r \in rs /\ m[m[r].is].type = "Vec"
    BY <1>3, <1>m DEF Fit
  <2> QED BY <1>3, <2>1, <2>2, <2>3, <2>4
<1>6. r \in Locals /\ m[r].type # "uninit"
  BY <1>2, <1>4
<1>w. PICK vec : vec = m[r].is
  OBVIOUS
<1>7. vec \in Locals
  <2>1. PICK q \in Sites : At(q).op = "Ref" /\ m[r] = Machine!Value("&mutVec", At(q).operands[1].arg)
    BY <1>5, <1>6 DEF Sound
  <2>2. vec = At(q).operands[1].arg
    BY <1>w, <2>1 DEF Machine!Value
  <2>3. Shaped(ArgPairs, At(q))
    BY DEF TextInv, ShapeInv
  <2>4. PICK u : At(q).operands = <<Borrow(u)>>
    BY <2>1, <2>3, FormOf
  <2>5. vec \in UsedBy(At(q))
    <3>1. 1 \in DOMAIN At(q).operands /\ At(q).operands[1].mode # "const"
      BY <2>4 DEF Borrow
    <3>2. vec \in ReadBy(At(q))
      BY <2>2, <3>1 DEF ReadBy
    <3> QED BY <2>1, <3>2 DEF UsedBy, Storage
  <2> QED BY <1>1, <2>5, UsedIsLocal, SomeLocal
<1>8. vec # s.place
  <2>1. TypeOf(vec) = "Vec"
    BY <1>1, <1>5, <1>7, <1>w
  <2>2. v.type = "unit"
    BY <1>v, <1>c DEF Made, Machine!Unit, Machine!Value
  <2> QED BY <1>2, <2>1, <2>2
<1>9. vec \notin Lost(s.operands, m)
  <2>1. vec # r /\ vec # a
    BY <1>5, <1>w
  <2>2. Move(vec) # Move(r) /\ Move(vec) # Move(a)
    BY <2>1 DEF Move
  <2> QED BY <1>3, <2>2 DEF Lost
<1>10. m[vec].type = "Vec"
  BY <1>5, <1>w
<1>b. PICK m1 : m1 = Put(m, s.operands, s.place, v)
  OBVIOUS
<1>11. /\ Memory(m1)
       /\ \A l \in Locals : m1[l].type # "uninit" =>
            \/ l = s.place /\ Writes(s, l) /\ m1[l] = v /\ m1[l].type = TypeOf(l)
            \/ l # s.place /\ ~Changes(s, l) /\ m1[l] = m[l]
  BY <1>1, <1>2, <1>b, PutLeaves
<1>x. PICK x : x = Machine!Value("Vec", Append(m[vec].is, Operand(s.operands[2], m).is))
  OBVIOUS
<1>12. Does(s, m) = [m1 EXCEPT ![vec] = x]
  <2>1. Operand(s.operands[1], m) = m[r]
    BY <1>3 DEF Operand
  <2>2. s.op \notin Storage /\ s.op # "Return"
    OBVIOUS
  <2> QED BY <2>1, <2>2, <1>w, <1>x, <1>b, <1>v DEF Does
<1>d. PICK m2 : m2 = Does(s, m)
  OBVIOUS
<1>13. Locals \subseteq Nat
  BY DEF Locals
<1>14. Memory(m2) /\ \A l \in Nat : m2[l] = IF l = vec THEN x ELSE m1[l]
  BY <1>11, <1>12, <1>d DEF Memory
<1>15. ~Changes(s, vec) /\ x.type = m[vec].type
  <2>1. m1 = [n \in Nat |-> IF n = s.place THEN v ELSE IF n \in Lost(s.operands, m) THEN Machine!Uninit ELSE m[n]]
    BY <1>b DEF Put
  <2>2. m1[vec] = m[vec]
    BY <1>7, <1>8, <1>9, <1>13, <2>1
  <2>3. m1[vec].type # "uninit"
    BY <1>10, <2>2
  <2>4. x.type = "Vec"
    BY <1>x DEF Machine!Value
  <2> QED BY <1>7, <1>8, <1>10, <1>11, <2>3, <2>4
<1>16. ASSUME NEW l \in Locals, m2[l].type # "uninit"
       PROVE  \/ Writes(s, l) /\ m2[l].type = TypeOf(l)
              \/ ~Changes(s, l) /\ m2[l].type = m[l].type
  <2>1. CASE l = vec
    BY <1>13, <1>14, <1>15, <2>1
  <2>2. CASE l # vec
    <3>1. m2[l] = m1[l]
      BY <1>13, <1>14, <2>2
    <3> QED BY <1>11, <1>16, <3>1
  <2> QED BY <2>1, <2>2
<1>17. ASSUME NEW o \in Locals, o \in Refs(s, rs), m2[o].type # "uninit"
       PROVE  \/ s.op = "Ref" /\ s.place = o /\ m2[o] = Machine!Value("&mutVec", s.operands[1].arg)
              \/ o \in rs /\ ~Changes(s, o) /\ m2[o] = m[o]
  <2>1. o \in rs /\ o # s.place
    <3>1. s.op # "Ref"
      BY <1>c
    <3> QED BY <1>17, <3>1 DEF Refs
  <2>2. CASE o = vec
    <3>1. m[o].type # "uninit"
      BY <1>10, <2>2
    <3>2. m[o].type = "&mutVec"
      <4>1. PICK q \in Sites : m[o] = Machine!Value("&mutVec", At(q).operands[1].arg)
        BY <2>1, <3>1 DEF Sound
      <4> QED BY <4>1 DEF Machine!Value
    <3> QED BY <1>10, <2>2, <3>2
  <2>3. CASE o # vec
    <3>1. m2[o] = m1[o]
      BY <1>13, <1>14, <2>3
    <3> QED BY <1>11, <1>17, <2>1, <3>1
  <2> QED BY <2>2, <2>3
<1>18. Leaves(s, m, rs, m2, Refs(s, rs))
  BY <1>14, <1>16, <1>17 DEF Leaves
<1> QED BY <1>3, <1>5, <1>6, <1>7, <1>8, <1>9, <1>10, <1>18, <1>d, <1>w

\* From site to site the trace stays sound.
LEMMA SoundStep ==
  ASSUME TextInv, NameInv, phase = "done", NEW p \in Sites, NEW n \in Sites, NextSite(p, n),
         NEW m, NEW rs, Sound(p, m, rs), Fit(fn, args, At(p), State(m, rs))
  PROVE  Sound(n, Does(At(p), m), Refs(At(p), rs))
<1>s. PICK s : s = At(p)
  OBVIOUS
<1>1. Leaves(s, m, rs, Does(s, m), Refs(s, rs))
  BY <1>s, QuietSound, WriteSound, PushSound
<1>2. TypeOK
  BY DEF TextInv
<1>3. PICK m2, rs2 : m2 = Does(s, m) /\ rs2 = Refs(s, rs)
  OBVIOUS
<1>4. Leaves(At(p), m, rs, m2, rs2)
  BY <1>1, <1>3, <1>s
<1>5. Sound(n, m2, rs2)
  BY <1>2, <1>4, LeavesSound
<1> QED BY <1>3, <1>5, <1>s

\* The arguments are there at the first site.
LEMMA SoundStart ==
  ASSUME TextInv, phase = "done", Len(fn.inputs) = ArgPairs, args \in Arguments(fn),
         NEW m, m = Start(args).mem
  PROVE  Sound(<<1, 1>>, m, {})
<1>1. TypeOK /\ ArgPairs \in Nat /\ Len(locals) \in Nat
  BY Numbers DEF TextInv
<1>n. PICK n \in Nat : n = ArgPairs /\ n = Len(fn.inputs)
  BY <1>1
<1>2. DOMAIN args = 1 .. n /\ Len(args) = n /\ \A i \in 1 .. n : args[i].type = fn.inputs[i]
  <2>1. /\ args \in [1 .. n -> UNION {ArgValues(t) : t \in Types}]
        /\ \A i \in DOMAIN args : args[i].type = fn.inputs[i]
    BY <1>n DEF Arguments
  <2>2. args \in Seq(UNION {ArgValues(t) : t \in Types})
    BY <2>1
  <2> QED BY <2>1, <2>2
<1>3. m = [l \in Nat |-> IF l \in 1 .. n THEN args[l] ELSE Machine!Uninit]
  BY <1>2 DEF Start, State
<1>4. ASSUME NEW l \in Locals, m[l].type # "uninit"
      PROVE  m[l].type = TypeOf(l) /\ Initialised(<<1, 1>>, l)
  <2>1. l \in Nat /\ l < Len(locals)
    BY <1>1 DEF Locals
  <2>2. l \in 1 .. n /\ m[l] = args[l]
    BY <1>3, <1>4, <2>1 DEF Machine!Uninit, Machine!Value
  <2>3. locals[l + 1] = fn.inputs[l]
    BY <1>n, <2>1, <2>2 DEF TextInv, ShapeInv
  <2>4. Precedes(Entry, <<1, 1>>)
    BY DEF Precedes, Entry
  <2>5. \A c \in Sites : ~Precedes(c, <<1, 1>>)
    BY <1>1, EntryFirst
  <2>6. Since(Entry, <<1, 1>>, l)
    BY <2>4, <2>5 DEF Since
  <2> QED BY <1>2, <1>n, <2>2, <2>3, <2>6 DEF TypeOf, Initialised
<1>5. Memory(m)
  BY <1>3 DEF Memory
<1> QED BY <1>4, <1>5 DEF Sound

\* A trace is sound at every site.
LEMMA HistorySound ==
  ASSUME TextInv, NameInv, phase = "done", Len(fn.inputs) = ArgPairs, args \in Arguments(fn),
         NEW h, History(fn, args, blocks, current, h)
  PROVE  \A b, i : IsSite(blocks, current, b, i) =>
            /\ h[<<b, i>>] = State(h[<<b, i>>].mem, h[<<b, i>>].refs)
            /\ Sound(<<b, i>>, h[<<b, i>>].mem, h[<<b, i>>].refs)
<1> DEFINE Good(p) == h[p] = State(h[p].mem, h[p].refs) /\ Sound(p, h[p].mem, h[p].refs)
           S == {p \in Sites \cup {<<1, 1>>} : Good(p)}
<1>1. TypeOK
  BY DEF TextInv
<1>2. Good(<<1, 1>>)
  <2>m. PICK m : m = Start(args).mem
    OBVIOUS
  <2>1. h[<<1, 1>>] = Start(args)
    BY DEF History
  <2>2. Start(args) = State(m, {})
    BY <2>m DEF Start, State
  <2>3. h[<<1, 1>>].mem = m /\ h[<<1, 1>>].refs = {}
    BY <2>1, <2>2 DEF State
  <2>4. Sound(<<1, 1>>, m, {})
    BY <2>m, SoundStart
  <2> QED BY <2>1, <2>2, <2>3, <2>4
<1>3. ASSUME NEW b, NEW i, IsSite(blocks, current, b, i), <<b, i>> \in S, SiteAfter(blocks, b, i) \in Sites
      PROVE  SiteAfter(blocks, b, i) \in S
  <2>p. PICK p : p = <<b, i>>
    OBVIOUS
  <2>n. PICK n : n = SiteAfter(blocks, b, i)
    OBVIOUS
  <2>s. PICK s : s = At(p)
    OBVIOUS
  <2>1. p \in Sites /\ n \in Sites /\ s = Instruction(blocks, current, b, i) /\ NextSite(p, n)
    BY <1>1, <1>3, <2>p, <2>n, <2>s, SiteBounds, AfterSite
  <2>m. PICK m, rs : m = h[p].mem /\ rs = h[p].refs
    OBVIOUS
  <2>2. h[p] = State(m, rs) /\ Sound(p, m, rs)
    BY <1>3, <2>p, <2>m
  <2>3. Fit(fn, args, s, h[p]) /\ h[n] = Do(s, h[p])
    BY <1>3, <2>p, <2>n, <2>1 DEF History
  <2>4. Sound(n, Does(s, m), Refs(s, rs))
    <3>1. Fit(fn, args, At(p), State(m, rs))
      BY <2>2, <2>3, <2>s
    <3>2. Sound(n, Does(At(p), m), Refs(At(p), rs))
      BY <2>1, <2>2, <3>1, SoundStep
    <3> QED BY <2>s, <3>2
  <2>5. h[n] = State(Does(s, m), Refs(s, rs))
    BY <2>2, <2>3 DEF Do, State
  <2>6. h[n].mem = Does(s, m) /\ h[n].refs = Refs(s, rs)
    BY <2>5 DEF State
  <2>7. Good(n)
    BY <2>4, <2>5, <2>6
  <2> QED BY <2>1, <2>7, <2>n
<1>4. <<1, 1>> \in S
  BY <1>2
<1> HIDE DEF S
<1>5. \A b, i : IsSite(blocks, current, b, i) => <<b, i>> \in S
  BY <1>1, <1>3, <1>4, SiteInduction
<1> QED BY <1>5 DEF S

\* An instruction that fits the trace passes the checks.
LEMMA FitChecked ==
  ASSUME TextInv, NameInv, phase = "done", NEW p \in Sites,
         NEW m, NEW rs, Sound(p, m, rs), Fit(fn, args, At(p), State(m, rs))
  PROVE  Checked(p)
<1>s. PICK s : s = At(p)
  OBVIOUS
<1>m. State(m, rs).mem = m /\ State(m, rs).refs = rs
  BY DEF State
<1>1. TypeOK /\ Shaped(ArgPairs, s) /\ (\A l \in Locals : m[l].type # "uninit" => m[l].type = TypeOf(l) /\ Initialised(p, l))
  BY <1>s DEF TextInv, ShapeInv, Sound
<1>2. CASE s.op \in Storage \cup {"Return"}
  <2>1. s.operands = << >>
    BY <1>1, <1>2, QuietOperands
  <2>2. ReadBy(s) = {}
    <3>1. \A i : i \notin DOMAIN s.operands
      BY <2>1
    <3> QED BY <3>1 DEF ReadBy
  <2>3. s.op \notin {"Ref", "Aggregate", "Call"} /\ ~Writes(s, 0)
    BY <1>2 DEF Storage, Writes
  <2>4. OperandsTyped(s)
    BY <2>3 DEF OperandsTyped
  <2>5. s.op = "Return" => TypeOf(0) = "unit" \/ Initialised(p, 0)
    <3>1. TypeOf(0) = fn.output /\ 0 \in Locals
      BY <1>1, SomeLocal DEF NameInv, TypeOf
    <3>2. s.op = "Return" => fn.output = "unit" \/ m[0].type # "uninit"
      BY <1>s, <1>m DEF Fit
    <3> QED BY <1>1, <3>1, <3>2
  <2> QED BY <1>s, <2>2, <2>3, <2>4, <2>5 DEF Checked
<1>3. CASE s.op \notin Storage \cup {"Return"}
  <2>1. /\ Made(s, m).type = TypeOf(s.place) /\ s.place \in Locals /\ Made(s, m).type = Produced(s)
        /\ ReadBy(s) \subseteq Locals /\ \A l \in ReadBy(s) : m[l].type # "uninit"
    BY <1>1, <1>3, <1>s, MadeTyped
  <2>2. \A l \in ReadBy(s) : Initialised(p, l) /\ m[l].type = TypeOf(l)
    BY <1>1, <2>1
  <2>3. \A i \in DOMAIN s.operands : Operand(s.operands[i], m).type = OperandType(s.operands[i])
    <3> SUFFICES ASSUME NEW i \in DOMAIN s.operands PROVE Operand(s.operands[i], m).type = OperandType(s.operands[i])
      OBVIOUS
    <3>o. PICK o : o = s.operands[i]
      OBVIOUS
    <3>1. CASE o.mode = "const"
      BY <3>1, <3>o DEF Operand, OperandType, Machine!Value
    <3>2. CASE o.mode # "const"
      <4>1. o.arg \in ReadBy(s)
        BY <3>2, <3>o DEF ReadBy
      <4>2. m[o.arg].type = TypeOf(o.arg)
        BY <2>2, <4>1
      <4> QED BY <3>2, <3>o, <4>2 DEF Operand, OperandType
    <3> QED BY <3>1, <3>2
  <2>f. Fit(fn, args, s, State(m, rs))
    BY <1>s
  <2>4. OperandsTyped(s)
    <3>1. s.op = "Ref" => TypeOf(s.operands[1].arg) = "Vec"
      <4> SUFFICES ASSUME s.op = "Ref" PROVE TypeOf(s.operands[1].arg) = "Vec"
        OBVIOUS
      <4>1. PICK v : s.operands = <<Borrow(v)>>
        BY <1>1, FormOf
      <4>2. s.operands[1].arg = v /\ 1 \in DOMAIN s.operands /\ s.operands[1].mode # "const"
        BY <4>1 DEF Borrow
      <4>3. v \in ReadBy(s)
        BY <4>2 DEF ReadBy
      <4>4. m[v].type = "Vec"
        BY <1>m, <2>f, <4>2 DEF Fit
      <4> QED BY <2>2, <4>2, <4>3, <4>4
    <3>2. s.op = "Aggregate" => Len(s.operands) = 2 /\ \A i \in 1 .. 2 : OperandType(s.operands[i]) = "i32"
      <4> SUFFICES ASSUME s.op = "Aggregate"
                   PROVE  Len(s.operands) = 2 /\ \A i \in 1 .. 2 : OperandType(s.operands[i]) = "i32"
        OBVIOUS
      <4>1. Len(s.operands) = 2 /\ \A i \in 1 .. 2 : Operand(s.operands[i], m).type = "i32"
        BY <1>m, <2>f DEF Fit
      <4>2. DOMAIN s.operands = 1 .. 2
        <5>1. s \in StatementOf(Len(locals)) \cup TerminatorOf(Len(locals))
          BY <1>1, <1>s, SiteTyped
        <5>2. \E V : s.operands \in Seq(V)
          BY <5>1 DEF StatementOf, TerminatorOf
        <5> QED BY <4>1, <5>2
      <4> QED BY <2>3, <4>1, <4>2
    <3>3. s.op = "Call" => /\ Len(s.operands) = Len(Inputs(s.func))
                           /\ \A i \in DOMAIN s.operands : OperandType(s.operands[i]) = Inputs(s.func)[i]
      BY <1>m, <2>3, <2>f DEF Fit
    <3> QED BY <3>1, <3>2, <3>3 DEF OperandsTyped
  <2>5. Writes(s, 0) => TypeOf(0) = Produced(s)
    BY <2>1 DEF Writes
  <2>6. ASSUME s.op = "Call", s.func = "push" PROVE BorrowsVec(p, s.operands[1].arg)
    <3>0. IsPushCall(s)
      BY <2>6 DEF IsPushCall
    <3>r. PICK r, vec : r = s.operands[1].arg /\ vec = m[r].is
      OBVIOUS
    <3>1. /\ r \in Locals /\ r \in rs /\ m[r].type # "uninit"
          /\ vec \in Locals /\ m[vec].type = "Vec"
      BY <1>3, <1>s, <2>f, <3>0, <3>r, PushSound
    <3>2. PICK q \in Sites : /\ At(q).op = "Ref" /\ At(q).place = r /\ Since(q, p, r)
                             /\ m[r] = Machine!Value("&mutVec", At(q).operands[1].arg)
      BY <3>1 DEF Sound
    <3>3. vec = At(q).operands[1].arg
      BY <3>2, <3>r DEF Machine!Value
    <3>4. Initialised(p, vec)
      BY <1>1, <3>1
    <3> QED BY <3>2, <3>3, <3>4, <3>r DEF BorrowsVec
  <2> QED BY <1>3, <1>s, <2>2, <2>4, <2>5, <2>6 DEF Checked
<1> QED BY <1>2, <1>3

\* The body of a supported function passes the checks.
LEMMA CompiledPasses ==
  ASSUME CompileInv, Supported(fn), phase = "done"
  PROVE  PassesChecks
<1>1. TextInv /\ NameInv /\ TypeOK /\ args \in Arguments(fn)
  BY DEF CompileInv, TextInv, RunInv
<1>2. PICK c : Reaches(fn, args, blocks, current, c)
  BY TraceMeans DEF CompileInv, TraceInvMeans
<1>3. PICK h : History(fn, args, blocks, current, h)
  BY <1>2 DEF Reaches
<1>4. Len(fn.inputs) = ArgPairs
  <2>1. Len(fn.params) = Len(fn.inputs)
    BY <1>1, SupportedSense DEF Sense
  <2> QED BY <2>1 DEF ArgPairs
<1>5. ASSUME NEW p \in Sites PROVE Checked(p)
  <2>1. PICK b, i : p = <<b, i>> /\ IsSite(blocks, current, b, i)
    BY <1>1, SitesArePairs
  <2>m. PICK m, rs : m = h[p].mem /\ rs = h[p].refs
    OBVIOUS
  <2>2. h[p] = State(m, rs) /\ Sound(p, m, rs)
    BY <1>1, <1>3, <1>4, <2>1, <2>m, HistorySound
  <2>3. Fit(fn, args, Instruction(blocks, current, b, i), h[<<b, i>>])
    BY <1>3, <2>1 DEF History
  <2>4. At(p) = Instruction(blocks, current, b, i)
    BY <1>1, <2>1, SiteBounds
  <2>5. Fit(fn, args, At(p), State(m, rs))
    BY <2>1, <2>2, <2>3, <2>4
  <2> QED BY <1>1, <2>2, <2>5, FitChecked
<1> QED BY <1>4, <1>5 DEF PassesChecks

(* For every set of functions to compile, a supported one gets a body that   *)
(* the checks that mir_borrowck (borrowck.rs:26) spares it would accept:     *)
(* nothing is used before it has a value, after it was moved or after it     *)
(* died, whatever the nesting of literals and calls.                         *)
THEOREM SupportedBodiesPass == CompileSpec => [](Supported(fn) => BodiesPassChecks)
<1>1. CompileInv => (Supported(fn) => BodiesPassChecks)
  BY CompiledPasses DEF BodiesPassChecks
<1> QED BY <1>1, CompileInvHolds, PTL

-----------------------------------------------------------------------------
(* The machine does what the trace says.                                     *)

\* The machine is where the trace has memory m and borrows rs, and has m itself.
AtWork(m, rs) ==
  /\ TextInv /\ NameInv /\ phase = "done" /\ InBody
  /\ DOMAIN mem = Locals /\ \A l \in Locals : mem[l] = m[l]
  /\ Sound(Here, m, rs) /\ Fit(fn, args, At(Here), State(m, rs))

\* The machine goes from site to site.
LEMMA Goes ==
  ASSUME TextInv, phase = "done", InBody, Machine!Step
  PROVE  Machine!ExecReturn \/ Here' = SiteAfter(blocks, bb + 1, ip)
<1>0. TypeOK /\ ShapeInv /\ BlocksChained
  BY DEF TextInv
<1>k. PICK k \in Nat : k = Len(blocks)
  BY <1>0, SiteBounds
<1>b. PICK b \in 1 .. k : b = bb + 1
  BY <1>0, <1>k, AtHere
<1>n. PICK n \in Nat : n = Len(blocks[b].statements)
  BY <1>0, <1>b, <1>k, SiteBounds
<1>1. Machine!Block = blocks[b] /\ ip \in 1 .. n + 1
  <2>1. Machine!Block = blocks[b]
    BY <1>b DEF Machine!Block
  <2> QED BY <1>0, <1>n, <2>1, AtHere
<1>2. ASSUME ip <= n, bb' = bb, ip' = ip + 1 PROVE Here' = SiteAfter(blocks, bb + 1, ip)
  <2>1. SiteAfter(blocks, b, ip) = <<b, ip + 1>>
    BY <1>1, <1>2, <1>k, <1>n DEF SiteAfter
  <2> QED BY <1>2, <1>b, <2>1 DEF Here
<1>3. ASSUME ip = n + 1, Machine!Block.terminator.op = "Call", Machine!Jump
      PROVE  Here' = SiteAfter(blocks, bb + 1, ip)
  <2>1. b # k /\ blocks[b].terminator.target = b
    BY <1>0, <1>1, <1>3, <1>k, <1>b DEF BlocksChained, TypeOK
  <2>2. bb' = b /\ ip' = 1
    BY <1>1, <1>3, <2>1 DEF Machine!Jump
  <2>3. SiteAfter(blocks, b, ip) = <<b + 1, 1>>
    BY <1>3, <1>k, <1>n DEF SiteAfter
  <2> QED BY <1>b, <2>2, <2>3 DEF Here
<1>4. CASE \/ Machine!ExecStorageLive \/ Machine!ExecStorageDead
           \/ Machine!ExecUse \/ Machine!ExecRef \/ Machine!ExecAggregate
  <2>1. bb' = bb /\ ip' = ip + 1
    BY <1>4 DEF Machine!ExecStorageLive, Machine!ExecStorageDead, Machine!ExecUse,
                Machine!ExecRef, Machine!ExecAggregate
  <2>2. ip <= Len(Machine!Block.statements)
    BY <1>4 DEF Machine!ExecStorageLive, Machine!ExecStorageDead, Machine!ExecUse,
                Machine!ExecRef, Machine!ExecAggregate, Machine!CanStorageLive, Machine!AtStatement,
                Machine!CanStorageDead, Machine!CanUse, Machine!CanRef, Machine!CanAggregate
  <2> QED BY <1>1, <1>2, <1>n, <2>1, <2>2
<1>5. CASE Machine!CallNew \/ Machine!CallPush \/ Machine!CallLen
  <2>1. /\ Machine!Jump /\ ip = Len(Machine!Block.statements) + 1
        /\ Machine!Block.terminator.op = "Call"
    BY <1>5 DEF Machine!CallNew, Machine!CallPush, Machine!CallLen, Machine!CanPush,
                Machine!CanCall, Machine!AtCall
  <2> QED BY <1>1, <1>3, <1>n, <2>1
<1> QED BY <1>4, <1>5 DEF Machine!Step

\* What a write reads: the machine and the trace agree on it.
LEMMA OperandsAgree ==
  ASSUME NEW m, NEW rs, AtWork(m, rs), NEW s, s = At(Here), s.op \notin Storage \cup {"Return"}
  PROVE  /\ s.place \in Locals
         /\ \A i \in DOMAIN s.operands : Machine!Read(s.operands[i]) = Operand(s.operands[i], m)
         /\ \A l : (\E i \in DOMAIN s.operands : s.operands[i] = Move(l)) =>
              l \in Locals /\ m[l].type = TypeOf(l)
<1>1. /\ s.place \in Locals /\ ReadBy(s) \subseteq Locals
      /\ \A l \in ReadBy(s) : m[l].type # "uninit" /\ m[l].type = TypeOf(l)
  <2>1. \A l \in Locals : m[l].type # "uninit" => m[l].type = TypeOf(l)
    BY DEF AtWork, Sound
  <2>2. TextInv /\ NameInv /\ phase = "done" /\ Here \in Sites /\ Fit(fn, args, s, State(m, rs))
    BY DEF AtWork, InBody
  <2>3. /\ s.place \in Locals
        /\ ReadBy(s) \subseteq Locals /\ \A l \in ReadBy(s) : m[l].type # "uninit"
    BY <2>1, <2>2, MadeTyped
  <2> QED BY <2>1, <2>3
<1>2. \A l \in Locals : mem[l] = m[l]
  BY DEF AtWork
<1>3. ASSUME NEW i \in DOMAIN s.operands
      PROVE  Machine!Read(s.operands[i]) = Operand(s.operands[i], m)
  <2>o. PICK o : o = s.operands[i]
    OBVIOUS
  <2>1. CASE o.mode = "const"
    BY <2>1, <2>o DEF Operand, Machine!Read
  <2>2. CASE o.mode # "const"
    <3>1. o.arg \in ReadBy(s)
      BY <2>2, <2>o DEF ReadBy
    <3>2. mem[o.arg] = m[o.arg]
      BY <1>1, <1>2, <3>1
    <3> QED BY <2>2, <2>o, <3>2 DEF Operand, Machine!Read
  <2> QED BY <2>1, <2>2
<1>4. ASSUME NEW l, NEW i \in DOMAIN s.operands, s.operands[i] = Move(l)
      PROVE  l \in Locals /\ m[l].type = TypeOf(l)
  <2>1. s.operands[i].mode = "move" /\ s.operands[i].arg = l
    BY <1>4 DEF Move
  <2>2. l \in ReadBy(s)
    BY <2>1 DEF ReadBy
  <2> QED BY <1>1, <2>2
<1> QED BY <1>1, <1>3, <1>4

\* Storing v: the machine clears what is moved by its declared type, the trace
\* by its value's.
LEMMA StoredIsPut ==
  ASSUME NEW m, DOMAIN mem = Locals, \A l \in Locals : mem[l] = m[l], NEW os, NEW d, NEW v,
         \A l : (\E i \in DOMAIN os : os[i] = Move(l)) => l \in Locals /\ m[l].type = TypeOf(l)
  PROVE  /\ DOMAIN Machine!Stored(os, d, v) = Locals
         /\ \A l \in Locals : Machine!Stored(os, d, v)[l] = Put(m, os, d, v)[l]
<1>1. Locals \subseteq Nat
  BY DEF Locals
<1>2. \A l \in Locals : l \in Machine!MovedOut(os) <=> l \in Lost(os, m)
  BY <1>1, SameMir DEF Machine!MovedOut, Lost, TypeOf
<1>3. Machine!Stored(os, d, v) =
        [l \in Locals |-> IF l = d THEN v ELSE IF l \in Machine!MovedOut(os) THEN Machine!Uninit ELSE mem[l]]
  BY DEF Machine!Stored
<1>4. Put(m, os, d, v) = [n \in Nat |-> IF n = d THEN v ELSE IF n \in Lost(os, m) THEN Machine!Uninit ELSE m[n]]
  BY DEF Put
<1> QED BY <1>1, <1>2, <1>3, <1>4

\* Nothing is moved.
LEMMA PlaceIsPut ==
  ASSUME NEW m, DOMAIN mem = Locals, \A l \in Locals : mem[l] = m[l], NEW os, NEW d, NEW v,
         \A l : ~\E i \in DOMAIN os : os[i] = Move(l)
  PROVE  \A l \in Locals : [mem EXCEPT ![d] = v][l] = Put(m, os, d, v)[l]
<1>1. Locals \subseteq Nat
  BY DEF Locals
<1>2. Lost(os, m) = {}
  BY DEF Lost
<1>3. Put(m, os, d, v) = [n \in Nat |-> IF n = d THEN v ELSE m[n]]
  BY <1>2 DEF Put
<1> QED BY <1>1, <1>3

Agrees(m) == \A l \in Locals : mem'[l] = Does(At(Here), m)[l]

\* Storage statements do to the machine's memory what they do to the trace's.
LEMMA StorageAgrees ==
  ASSUME NEW m, NEW rs, AtWork(m, rs), Machine!ExecStorageLive \/ Machine!ExecStorageDead
  PROVE  Agrees(m)
<1>0. TypeOK /\ ShapeInv /\ phase = "done" /\ InBody /\ Memory(m) /\ DOMAIN mem = Locals /\ \A l \in Locals : mem[l] = m[l]
  BY DEF AtWork, TextInv, Sound
<1>s. PICK s : s = At(Here)
  OBVIOUS
<1>1. s = Machine!Stmt /\ s.op \in Storage /\ mem' = [mem EXCEPT ![s.place] = Machine!Uninit]
  <2>1. CASE Machine!ExecStorageLive
    <3>1. Machine!AtStatement("StorageLive") /\ mem' = [mem EXCEPT ![Machine!Stmt.place] = Machine!Uninit]
      BY <2>1 DEF Machine!ExecStorageLive, Machine!CanStorageLive
    <3> QED BY <1>0, <1>s, <3>1, StatementHere DEF Storage
  <2>2. CASE Machine!ExecStorageDead
    <3>1. Machine!AtStatement("StorageDead") /\ mem' = [mem EXCEPT ![Machine!Stmt.place] = Machine!Uninit]
      BY <2>2 DEF Machine!ExecStorageDead, Machine!CanStorageDead
    <3> QED BY <1>0, <1>s, <3>1, StatementHere DEF Storage
  <2> QED BY <2>1, <2>2
<1>2. Does(s, m) = [m EXCEPT ![s.place] = Machine!Uninit]
  BY <1>1 DEF Does
<1>3. \A l \in Locals : Does(s, m)[l] = IF l = s.place THEN Machine!Uninit ELSE m[l]
  BY <1>0, <1>2 DEF Memory, Locals
<1>4. \A l \in Locals : mem'[l] = IF l = s.place THEN Machine!Uninit ELSE mem[l]
  BY <1>0, <1>1
<1> QED BY <1>0, <1>3, <1>4, <1>s DEF Agrees

\* So do moves, constants and aggregates.
LEMMA UseAgrees ==
  ASSUME NEW m, NEW rs, AtWork(m, rs), Machine!ExecUse \/ Machine!ExecAggregate
  PROVE  Agrees(m)
<1>0. TypeOK /\ ShapeInv /\ phase = "done" /\ InBody /\ DOMAIN mem = Locals /\ \A l \in Locals : mem[l] = m[l]
  BY DEF AtWork, TextInv
<1>s. PICK s : s = At(Here)
  OBVIOUS
<1>os. PICK os : os = s.operands
  OBVIOUS
<1>d. PICK d : d = s.place
  OBVIOUS
<1>1. s = Machine!Stmt /\ s.op \in {"Use", "Aggregate"} /\ Shaped(ArgPairs, s)
  <2>1. CASE Machine!ExecUse
    BY <1>0, <1>s, <2>1, StatementHere DEF Machine!ExecUse, Machine!CanUse
  <2>2. CASE Machine!ExecAggregate
    BY <1>0, <1>s, <2>2, StatementHere DEF Machine!ExecAggregate, Machine!CanAggregate
  <2> QED BY <2>1, <2>2
<1>2. s.op \notin Storage \cup {"Return"} /\ ~IsPushCall(s)
  BY <1>1 DEF Storage, IsPushCall
<1>3. /\ \A i \in DOMAIN os : Machine!Read(os[i]) = Operand(os[i], m)
      /\ \A l : (\E i \in DOMAIN os : os[i] = Move(l)) => l \in Locals /\ m[l].type = TypeOf(l)
  BY <1>2, <1>s, <1>os, OperandsAgree
<1>v. PICK v : v = Made(s, m)
  OBVIOUS
<1>4. mem' = Machine!Stored(os, d, v)
  <2>1. CASE Machine!ExecUse
    <3>1. mem' = Machine!Stored(os, d, Machine!Read(os[1])) /\ s.op = "Use"
      BY <1>0, <1>s, <1>os, <1>d, <1>1, <2>1, StatementHere DEF Machine!ExecUse, Machine!CanUse
    <3>2. 1 \in DOMAIN os
      <4>1. (\E c : os = <<Const(c)>>) \/ \E c : os = <<Move(c)>>
        BY <1>1, <1>os, <3>1, FormOf
      <4> QED BY <4>1
    <3>3. v = Operand(os[1], m)
      BY <1>v, <1>os, <3>1 DEF Made
    <3> QED BY <1>3, <3>1, <3>2, <3>3
  <2>2. CASE Machine!ExecAggregate
    <3>1. /\ mem' = Machine!Stored(os, d, Machine!Value("Point", <<Machine!Read(os[1]).is, Machine!Read(os[2]).is>>))
          /\ s.op = "Aggregate" /\ Len(os) = 2
      BY <1>0, <1>s, <1>os, <1>d, <1>1, <2>2, StatementHere DEF Machine!ExecAggregate, Machine!CanAggregate
    <3>2. 1 \in DOMAIN os /\ 2 \in DOMAIN os
      <4>1. Here \in Sites
        BY <1>0 DEF InBody
      <4>2. s \in StatementOf(Len(locals)) \cup TerminatorOf(Len(locals))
        BY <1>0, <1>s, <4>1, SiteTyped
      <4>3. \E V : os \in Seq(V)
        BY <1>os, <4>2 DEF StatementOf, TerminatorOf
      <4> QED BY <3>1, <4>3
    <3>3. v = Machine!Value("Point", <<Operand(os[1], m).is, Operand(os[2], m).is>>)
      BY <1>v, <1>os, <3>1 DEF Made
    <3> QED BY <1>3, <3>1, <3>2, <3>3
  <2> QED BY <2>1, <2>2
<1>5. Does(s, m) = Put(m, os, d, v)
  BY <1>2, <1>os, <1>d, <1>v DEF Does
<1>6. \A l \in Locals : Machine!Stored(os, d, v)[l] = Put(m, os, d, v)[l]
  BY <1>0, <1>3, StoredIsPut
<1> QED BY <1>4, <1>5, <1>6, <1>s DEF Agrees

\* One operand, which is not moved.
LEMMA NoMoves ==
  ASSUME NEW o, o.mode # "move"
  PROVE  \A l : ~\E i \in DOMAIN <<o>> : <<o>>[i] = Move(l)
BY DEF Move

\* So does a borrow.
LEMMA RefAgrees ==
  ASSUME NEW m, NEW rs, AtWork(m, rs), Machine!ExecRef
  PROVE  Agrees(m)
<1>0. TypeOK /\ ShapeInv /\ phase = "done" /\ InBody /\ DOMAIN mem = Locals /\ \A l \in Locals : mem[l] = m[l]
  BY DEF AtWork, TextInv
<1>s. PICK s : s = At(Here)
  OBVIOUS
<1>1. s = Machine!Stmt /\ s.op = "Ref" /\ Shaped(ArgPairs, s)
  BY <1>0, <1>s, StatementHere DEF Machine!ExecRef, Machine!CanRef
<1>v. PICK v : v = Machine!Value("&mutVec", s.operands[1].arg)
  OBVIOUS
<1>d. PICK d, os : d = s.place /\ os = s.operands
  OBVIOUS
<1>2. mem' = [mem EXCEPT ![d] = v]
  BY <1>1, <1>v, <1>d DEF Machine!ExecRef
<1>3. s.op \notin Storage \cup {"Return"} /\ ~IsPushCall(s)
  BY <1>1 DEF Storage, IsPushCall
<1>4. Made(s, m) = v
  BY <1>1, <1>v DEF Made
<1>5. Does(s, m) = Put(m, os, d, v)
  BY <1>3, <1>4, <1>d DEF Does
<1>6. \A l : ~\E i \in DOMAIN os : os[i] = Move(l)
  <2>1. PICK r : os = <<Borrow(r)>>
    BY <1>1, <1>d, FormOf
  <2>2. Borrow(r).mode # "move"
    BY DEF Borrow
  <2> QED BY <2>1, <2>2, NoMoves
<1>7. \A l \in Locals : [mem EXCEPT ![d] = v][l] = Put(m, os, d, v)[l]
  BY <1>0, <1>6, PlaceIsPut
<1> QED BY <1>2, <1>5, <1>7, <1>s DEF Agrees

\* So do the calls of new and len.
LEMMA CallAgrees ==
  ASSUME NEW m, NEW rs, AtWork(m, rs), Machine!CallNew \/ Machine!CallLen
  PROVE  Agrees(m)
<1>0. TypeOK /\ ShapeInv /\ BlocksChained /\ phase = "done" /\ InBody /\ DOMAIN mem = Locals /\ \A l \in Locals : mem[l] = m[l]
  BY DEF AtWork, TextInv
<1>s. PICK s : s = At(Here)
  OBVIOUS
<1>d. PICK d, os : d = s.place /\ os = s.operands
  OBVIOUS
<1>1. PICK f \in {"new", "len"} : /\ (Machine!CallNew /\ f = "new") \/ (Machine!CallLen /\ f = "len")
                                  /\ s = Machine!Block.terminator /\ s.op = "Call" /\ s.func = f /\ Shaped(ArgPairs, s)
  <2>1. CASE Machine!CallNew
    <3>1. Machine!AtCall("new")
      BY <2>1 DEF Machine!CallNew, Machine!CanCall
    <3> QED BY <1>0, <1>s, <2>1, <3>1, CallHere
  <2>2. CASE Machine!CallLen
    <3>1. Machine!AtCall("len")
      BY <2>2 DEF Machine!CallLen, Machine!CanCall
    <3> QED BY <1>0, <1>s, <2>2, <3>1, CallHere
  <2> QED BY <2>1, <2>2
<1>2. s.op \notin Storage \cup {"Return"} /\ ~IsPushCall(s)
  BY <1>1 DEF Storage, IsPushCall
<1>3. \A i \in DOMAIN os : Machine!Read(os[i]) = Operand(os[i], m)
  BY <1>2, <1>s, <1>d, OperandsAgree
<1>v. PICK v : v = Made(s, m)
  OBVIOUS
<1>4. mem' = [mem EXCEPT ![d] = v] /\ \A l : ~\E i \in DOMAIN os : os[i] = Move(l)
  <2>1. CASE f = "new"
    <3>1. mem' = [mem EXCEPT ![d] = Machine!Value("Vec", << >>)]
      BY <1>1, <1>d, <2>1 DEF Machine!CallNew
    <3>2. v = Machine!Value("Vec", << >>)
      BY <1>1, <1>v, <2>1 DEF Made
    <3>3. os = << >>
      BY <1>1, <1>d, <2>1, FormOf
    <3> QED BY <3>1, <3>2, <3>3
  <2>2. CASE f = "len"
    <3>1. mem' = [mem EXCEPT ![d] = Machine!Value("usize", Len(Machine!Read(os[1]).is))]
      BY <1>1, <1>d, <2>2 DEF Machine!CallLen
    <3>2. v = Machine!Value("usize", Len(Operand(os[1], m).is))
      BY <1>1, <1>v, <1>d, <2>2 DEF Made
    <3>3. PICK r : os = <<Copy(r)>>
      BY <1>1, <1>d, <2>2, FormOf
    <3>4. 1 \in DOMAIN os /\ Copy(r).mode # "move"
      BY <3>3 DEF Copy
    <3>5. Machine!Read(os[1]) = Operand(os[1], m)
      BY <1>3, <3>4
    <3> QED BY <3>1, <3>2, <3>3, <3>4, <3>5, NoMoves
  <2> QED BY <2>1, <2>2
<1>5. Does(s, m) = Put(m, os, d, v)
  BY <1>2, <1>d, <1>v DEF Does
<1>7. \A l \in Locals : [mem EXCEPT ![d] = v][l] = Put(m, os, d, v)[l]
  BY <1>0, <1>4, PlaceIsPut
<1> QED BY <1>4, <1>5, <1>7, <1>s DEF Agrees

\* So does a push, through the borrow.
LEMMA PushAgrees ==
  ASSUME NEW m, NEW rs, AtWork(m, rs), Machine!CallPush
  PROVE  Agrees(m)
<1>0. TypeOK /\ ShapeInv /\ BlocksChained /\ phase = "done" /\ InBody /\ DOMAIN mem = Locals /\ \A l \in Locals : mem[l] = m[l]
  BY DEF AtWork, TextInv
<1>s. PICK s : s = At(Here)
  OBVIOUS
<1>d. PICK d, os : d = s.place /\ os = s.operands
  OBVIOUS
<1>1. s = Machine!Block.terminator /\ s.op = "Call" /\ s.func = "push" /\ Shaped(ArgPairs, s)
  <2>1. Machine!AtCall("push")
    BY DEF Machine!CallPush, Machine!CanPush, Machine!CanCall
  <2> QED BY <1>0, <1>s, <2>1, CallHere
<1>2. s.op \notin Storage \cup {"Return"} /\ IsPushCall(s)
  BY <1>1 DEF Storage, IsPushCall
<1>3. /\ \A i \in DOMAIN os : Machine!Read(os[i]) = Operand(os[i], m)
      /\ \A l : (\E i \in DOMAIN os : os[i] = Move(l)) => l \in Locals /\ m[l].type = TypeOf(l)
  BY <1>2, <1>s, <1>d, OperandsAgree
<1>4. Made(s, m) = Machine!Unit
  BY <1>1 DEF Made
<1>5. 1 \in DOMAIN os /\ 2 \in DOMAIN os
  <2>1. PICK r, a : os = <<Move(r), Move(a)>>
    BY <1>1, <1>d, FormOf
  <2> QED BY <2>1
<1>vec. PICK vec : vec = Operand(os[1], m).is
  OBVIOUS
<1>6. vec \in Locals
  <2>1. PICK r : r = os[1].arg
    OBVIOUS
  <2>2. m[r].is \in Locals
    <3>1. TextInv /\ NameInv /\ Here \in Sites /\ Sound(Here, m, rs) /\ Fit(fn, args, s, State(m, rs))
      BY <1>s DEF AtWork, InBody
    <3> QED BY <1>0, <1>2, <1>s, <1>d, <2>1, <3>1, PushSound
  <2>3. os[1].mode # "const"
    <3>1. PICK q, a : os = <<Move(q), Move(a)>>
      BY <1>1, <1>d, FormOf
    <3> QED BY <3>1 DEF Move
  <2> QED BY <1>vec, <2>1, <2>2, <2>3 DEF Operand
<1>p. PICK p : p = Put(m, os, d, Machine!Unit)
  OBVIOUS
<1>x. PICK x : x = Machine!Value("Vec", Append(m[vec].is, Operand(os[2], m).is))
  OBVIOUS
<1>7. Does(s, m) = [p EXCEPT ![vec] = x]
  <2>1. s.op \notin Storage /\ s.op # "Return"
    BY <1>2
  <2> QED BY <1>2, <1>4, <1>d, <1>vec, <1>p, <1>x, <2>1 DEF Does
<1>t. PICK t : t = Machine!Stored(os, d, Machine!Unit)
  OBVIOUS
<1>8. mem' = [t EXCEPT ![vec] = x]
  <2>1. Machine!Pushed = vec /\ Machine!Read(os[2]) = Operand(os[2], m)
    BY <1>1, <1>3, <1>5, <1>d, <1>vec DEF Machine!Pushed
  <2>2. mem' = [t EXCEPT ![Machine!Pushed] = Machine!Value("Vec", Append(mem[Machine!Pushed].is, Machine!Read(os[2]).is))]
    BY <1>1, <1>d, <1>t DEF Machine!CallPush
  <2>3. mem[vec] = m[vec]
    BY <1>0, <1>6
  <2> QED BY <1>x, <2>1, <2>2, <2>3
<1>9. DOMAIN t = Locals /\ \A l \in Locals : t[l] = p[l]
  BY <1>0, <1>3, <1>p, <1>t, StoredIsPut
<1>10. DOMAIN p = Nat /\ Locals \subseteq Nat
  BY <1>p DEF Put, Locals
<1> QED BY <1>7, <1>8, <1>9, <1>10, <1>s DEF Agrees

\* Every step of the machine agrees with the trace.
LEMMA StepAgrees ==
  ASSUME NEW m, NEW rs, AtWork(m, rs), Machine!Step
  PROVE  Machine!ExecReturn \/ (Here' = SiteAfter(blocks, bb + 1, ip) /\ Agrees(m))
<1>1. Machine!ExecReturn \/ Here' = SiteAfter(blocks, bb + 1, ip)
  BY Goes DEF AtWork
<1>2. Machine!ExecReturn \/ Agrees(m)
  BY StorageAgrees, UseAgrees, RefAgrees, CallAgrees, PushAgrees DEF Machine!Step
<1> QED BY <1>1, <1>2

-----------------------------------------------------------------------------
(* The call returns what the source means.                                   *)

\* The run is on a trace of the function.
OnTrace ==
  \E h : /\ History(fn, args, blocks, current, h)
         /\ \A l \in Locals : mem[l] = h[Here].mem[l]

RunTrace ==
  Supported(fn) =>
    /\ bb # -1 => OnTrace
    /\ outcome \in {Machine!Running, Machine!Returned(Source!Meaning(fn, args))}

\* Where the machine is, the trace has a state that is sound and fits.
LEMMA TraceHere ==
  ASSUME CompileInv, Supported(fn), bb # -1, NEW h, History(fn, args, blocks, current, h),
         \A l \in Locals : mem[l] = h[Here].mem[l]
  PROVE  \E m, rs : /\ AtWork(m, rs)
                    /\ h[SiteAfter(blocks, bb + 1, ip)] = State(Does(At(Here), m), Refs(At(Here), rs))
<1>1. /\ TextInv /\ NameInv /\ TypeOK /\ args \in Arguments(fn)
      /\ phase = "done" /\ InBody /\ (Len(fn.inputs) = ArgPairs => MemInv)
  BY DEF CompileInv, TextInv, RunInv
<1>2. Len(fn.inputs) = ArgPairs
  <2>1. Len(fn.params) = Len(fn.inputs)
    BY <1>1, SupportedSense DEF Sense
  <2> QED BY <2>1 DEF ArgPairs
<1>3. DOMAIN mem = Locals /\ Here \in Sites
  BY <1>1, <1>2 DEF MemInv, InBody
<1>b. PICK b, i : b = bb + 1 /\ i = ip
  OBVIOUS
<1>4. Here = <<b, i>> /\ IsSite(blocks, current, b, i) /\ At(Here) = Instruction(blocks, current, b, i)
  <2>1. Here = <<b, i>>
    BY <1>b DEF Here
  <2> QED BY <1>1, <1>3, <2>1, SiteBounds
<1>m. PICK m, rs : m = h[Here].mem /\ rs = h[Here].refs
  OBVIOUS
<1>5. h[Here] = State(m, rs) /\ Sound(Here, m, rs)
  BY <1>1, <1>2, <1>4, <1>m, HistorySound
<1>6. Fit(fn, args, At(Here), h[Here]) /\ h[SiteAfter(blocks, b, i)] = Do(At(Here), h[Here])
  BY <1>4 DEF History
<1>7. AtWork(m, rs)
  BY <1>1, <1>3, <1>5, <1>6, <1>m DEF AtWork
<1>8. h[SiteAfter(blocks, bb + 1, ip)] = State(Does(At(Here), m), Refs(At(Here), rs))
  BY <1>5, <1>6, <1>b DEF Do, State
<1> QED BY <1>7, <1>8

\* A return from the trace.
LEMMA ReturnsMeaning ==
  ASSUME NEW m, NEW rs, AtWork(m, rs), Machine!ExecReturn
  PROVE  outcome' = Machine!Returned(Source!Meaning(fn, args))
<1>1. TypeOK /\ ShapeInv /\ phase = "done" /\ InBody /\ Here \in Sites /\ \A l \in Locals : mem[l] = m[l]
  BY DEF AtWork, TextInv, InBody
<1>2. /\ ip = Len(Machine!Block.statements) + 1 /\ Machine!Block.terminator.op = "Return"
      /\ outcome' = Machine!Returned(IF locals[1] = "unit" THEN Machine!Unit ELSE mem[0])
  BY DEF Machine!ExecReturn, Machine!CanReturn
<1>3. At(Here).op = "Return"
  BY <1>1, <1>2, AtHere
<1>4. IF fn.output = "unit" THEN Source!Meaning(fn, args) = Machine!Unit
                            ELSE m[0] = Source!Meaning(fn, args)
  <2>1. Fit(fn, args, At(Here), State(m, rs)) /\ State(m, rs).mem = m
    BY DEF AtWork, State
  <2> QED BY <1>3, <2>1 DEF Fit
<1>5. mem[0] = m[0]
  BY <1>1, SomeLocal
<1>6. locals[1] = fn.output
  BY DEF AtWork, NameInv
<1> QED BY <1>2, <1>4, <1>5, <1>6

\* A step of the machine stays on the trace, or returns.
LEMMA StepOnTrace ==
  ASSUME CompileInv, Supported(fn), bb # -1, OnTrace, Machine!Step, UNCHANGED <<vars, args>>
  PROVE  /\ OnTrace'
         /\ outcome' = outcome \/ (outcome = Machine!Running /\ outcome' = Machine!Returned(Source!Meaning(fn, args)))
<1>h. PICK h : /\ History(fn, args, blocks, current, h)
               /\ \A l \in Locals : mem[l] = h[Here].mem[l]
  BY DEF OnTrace
<1>1. PICK m, rs : /\ AtWork(m, rs)
                   /\ h[SiteAfter(blocks, bb + 1, ip)] = State(Does(At(Here), m), Refs(At(Here), rs))
  BY <1>h, TraceHere
<1>2. /\ fn' = fn /\ args' = args /\ blocks' = blocks /\ current' = current /\ Locals' = Locals
  BY DEF vars, Locals
<1>3. CASE Machine!ExecReturn
  <2>1. outcome' = Machine!Returned(Source!Meaning(fn, args))
    BY <1>1, <1>3, ReturnsMeaning
  <2>2. outcome = Machine!Running /\ mem' = mem /\ Here' = Here
    BY <1>3 DEF Machine!ExecReturn, Machine!CanReturn, Machine!Executing, Here
  <2>3. \A l \in Locals' : mem'[l] = h[Here'].mem[l]
    BY <1>2, <1>h, <2>2
  <2>4. History(fn', args', blocks', current', h)
    BY <1>2, <1>h
  <2> QED BY <2>1, <2>2, <2>3, <2>4 DEF OnTrace
<1>4. CASE ~Machine!ExecReturn
  <2>1. Here' = SiteAfter(blocks, bb + 1, ip) /\ Agrees(m)
    BY <1>1, <1>4, StepAgrees
  <2>2. h[Here'].mem = Does(At(Here), m)
    BY <1>1, <2>1 DEF State
  <2>3. \A l \in Locals' : mem'[l] = h[Here'].mem[l]
    BY <1>2, <2>1, <2>2 DEF Agrees
  <2>4. outcome' = outcome
    BY <1>4 DEF Machine!Step, Machine!ExecStorageLive, Machine!ExecStorageDead, Machine!ExecUse,
                Machine!ExecRef, Machine!ExecAggregate, Machine!CallNew, Machine!CallPush, Machine!CallLen, Machine!Jump
  <2>5. History(fn', args', blocks', current', h)
    BY <1>2, <1>h
  <2> QED BY <2>3, <2>4, <2>5 DEF OnTrace
<1> QED BY <1>3, <1>4

\* A call begins where the trace does.
LEMMA EnterOnTrace ==
  ASSUME CompileInv, Supported(fn), CallIt
  PROVE  OnTrace' /\ outcome' = outcome
<1>a. Len(args) = Len(fn.inputs)
  <2>1. fn.inputs \in Seq(Types) /\ args \in Arguments(fn)
    BY FunctionsAssumption DEF CompileInv, TextInv, TypeOK, RunInv
  <2>2. PICK n \in Nat : n = Len(fn.inputs)
    BY <2>1
  <2>3. args \in [1 .. n -> UNION {ArgValues(t) : t \in Types}]
    BY <2>1, <2>2 DEF Arguments
  <2> QED BY <2>2, <2>3
<1>1. /\ phase = "done" /\ bb = -1 /\ bb' = 0 /\ ip' = ip /\ outcome' = outcome
      /\ mem' = [l \in 0 .. Len(locals) - 1 |-> IF l \in 1 .. Len(args) THEN args[l] ELSE Machine!Uninit]
      /\ fn' = fn /\ args' = args /\ blocks' = blocks /\ current' = current /\ Locals' = Locals
  BY <1>a DEF CallIt, Machine!Enter, vars, Locals
<1>2. ip = 1
  BY <1>1 DEF CompileInv, RunInv, InBody
<1>3. Here' = <<1, 1>>
  BY <1>1, <1>2 DEF Here
<1>4. PICK c : Reaches(fn, args, blocks, current, c)
  BY <1>1, TraceMeans DEF CompileInv, TraceInvMeans
<1>5. PICK h : History(fn, args, blocks, current, h)
  BY <1>4 DEF Reaches
<1>6. h[<<1, 1>>] = Start(args)
  BY <1>5 DEF History
<1>7. Start(args).mem = [l \in Nat |-> IF l \in 1 .. Len(args) THEN args[l] ELSE Machine!Uninit]
  BY DEF Start, State
<1>8. \A l \in Locals : mem'[l] = Start(args).mem[l]
  BY <1>1, <1>7 DEF Locals
<1>9. \A l \in Locals' : mem'[l] = h[Here'].mem[l]
  BY <1>1, <1>3, <1>6, <1>8
<1>10. History(fn', args', blocks', current', h)
  BY <1>1, <1>5
<1> QED BY <1>1, <1>9, <1>10 DEF OnTrace

\* What a step does, for a supported function: nothing visible, or the answer.
LEMMA StepAnswers ==
  ASSUME CompileInv, RunTrace, Supported(fn), [CompileNext]_system
  PROVE  /\ fn' = fn /\ args' = args
         /\ bb' # -1 => OnTrace'
         /\ outcome' = outcome \/ (outcome = Machine!Running /\ outcome' = Machine!Returned(Source!Meaning(fn, args)))
<1>0. /\ bb # -1 => OnTrace
      /\ bb # -1 => phase = "done"
  BY DEF RunTrace, CompileInv, RunInv
<1>1. CASE Compile
  <2>1. phase # "done"
    BY <1>1 DEF Compile, Next, Resolve, BindParam, StartBody, LowerLet, LowerExprStmt,
           EndExprStmt, LowerIntLit, LowerVar, BeginStruct, LowerField, FinishStruct,
           LowerVecNew, BeginPush, FinishPush, LowerLen, LowerRet, EmitReturn, Panic,
           Idle, Active
  <2>2. bb = -1 /\ bb' = bb /\ outcome' = outcome /\ args' = args
    BY <1>0, <1>1, <2>1 DEF Compile, machine
  <2>3. fn' = fn
    BY <1>1 DEF Compile, Next, Resolve, BindParam, StartBody, LowerLet, LowerExprStmt, EndExprStmt,
           LowerIntLit, LowerVar, BeginStruct, LowerField, FinishStruct, LowerVecNew, BeginPush,
           FinishPush, LowerLen, LowerRet, EmitReturn, Panic
  <2> QED BY <2>2, <2>3
<1>2. CASE CallIt
  <2>1. fn' = fn /\ args' = args
    BY <1>2 DEF CallIt, vars
  <2> QED BY <1>2, <2>1, EnterOnTrace
<1>3. CASE Run
  <2>1. Machine!Step /\ UNCHANGED <<vars, args>>
    BY <1>3 DEF Run
  <2>2. bb # -1
    <3>1. Machine!Step => Machine!Executing
      BY DEF Machine!Step, Machine!ExecStorageLive, Machine!ExecStorageDead, Machine!ExecUse,
             Machine!ExecRef, Machine!ExecAggregate, Machine!CallNew, Machine!CallPush,
             Machine!CallLen, Machine!ExecReturn, Machine!CanStorageLive, Machine!CanStorageDead,
             Machine!CanUse, Machine!CanRef, Machine!CanAggregate, Machine!CanPush,
             Machine!CanCall, Machine!CanReturn, Machine!AtStatement, Machine!AtCall
    <3> QED BY <2>1, <3>1 DEF Machine!Executing
  <2>3. fn' = fn /\ args' = args
    BY <2>1 DEF vars
  <2>4. OnTrace
    BY <1>0, <2>2
  <2> QED BY <2>1, <2>2, <2>3, <2>4, StepOnTrace
<1>4. CASE UNCHANGED system
  <2>1. /\ fn' = fn /\ args' = args /\ blocks' = blocks /\ current' = current /\ Locals' = Locals
        /\ bb' = bb /\ mem' = mem /\ outcome' = outcome /\ Here' = Here
    BY <1>4 DEF system, vars, machine, Locals, Here
  <2>2. OnTrace => OnTrace'
    <3> SUFFICES ASSUME OnTrace PROVE OnTrace'
      OBVIOUS
    <3>h. PICK h : /\ History(fn, args, blocks, current, h)
                   /\ \A l \in Locals : mem[l] = h[Here].mem[l]
      BY DEF OnTrace
    <3>1. History(fn', args', blocks', current', h) /\ \A l \in Locals' : mem'[l] = h[Here'].mem[l]
      BY <2>1, <3>h
    <3> QED BY <3>1 DEF OnTrace
  <2> QED BY <1>0, <2>1, <2>2
<1> QED BY <1>1, <1>2, <1>3, <1>4 DEF CompileNext

\* Before the call there is nothing to compare.
LEMMA RunTraceInit == CompileInit => RunTrace
<1>1. Machine!NotCalled => bb = -1 /\ outcome = Machine!Running
  BY DEF Machine!NotCalled
<1> QED BY <1>1 DEF CompileInit, RunTrace

\* The function and its arguments stay.
LEMMA SupportedFixed ==
  ASSUME [CompileNext]_system
  PROVE  fn' = fn /\ args' = args
<1>1. Next => fn' = fn
  BY DEF Next, Resolve, BindParam, StartBody, LowerLet, LowerExprStmt, EndExprStmt,
         LowerIntLit, LowerVar, BeginStruct, LowerField, FinishStruct, LowerVecNew, BeginPush,
         FinishPush, LowerLen, LowerRet, EmitReturn, Panic
<1> QED BY <1>1 DEF CompileNext, Compile, CallIt, Run, system, vars

\* Every step of the system keeps the run on its trace.
LEMMA RunTraceNext == CompileInv /\ RunTrace /\ [CompileNext]_system => RunTrace'
<1> SUFFICES ASSUME CompileInv, RunTrace, [CompileNext]_system PROVE RunTrace'
  OBVIOUS
<1>1. fn' = fn /\ args' = args
  BY SupportedFixed
<1>2. Supported(fn)' <=> Supported(fn)
  BY <1>1, Zenon
<1>3. CASE Supported(fn)
  <2>1. /\ bb' # -1 => OnTrace'
        /\ outcome' = outcome \/ (outcome = Machine!Running /\ outcome' = Machine!Returned(Source!Meaning(fn, args)))
    BY <1>3, StepAnswers
  <2>2. outcome \in {Machine!Running, Machine!Returned(Source!Meaning(fn, args))}
    BY <1>3 DEF RunTrace
  <2>v. PICK v, r, ru : v = Source!Meaning(fn, args) /\ r = Machine!Returned(v) /\ ru = Machine!Running
    OBVIOUS
  <2>3. outcome' \in {ru, r}
    BY <2>1, <2>2, <2>v
  <2>4. Source!Meaning(fn, args)' = v
    BY <1>1, <2>v, Zenon
  <2>5. Machine!Returned(Source!Meaning(fn, args))' = r /\ Machine!Running' = ru
    BY <2>4, <2>v DEF Machine!Returned, Machine!Running
  <2>6. outcome' \in {Machine!Running, Machine!Returned(Source!Meaning(fn, args))}'
    BY <2>3, <2>5
  <2> QED BY <2>1, <2>6, Zenon DEF RunTrace
<1>4. CASE ~Supported(fn)
  BY <1>2, <1>4, Zenon DEF RunTrace
<1> QED BY <1>3, <1>4

(* The compiler is correct: for every set of functions, every argument list  *)
(* and every source nested in any way the syntax allows, the call of a       *)
(* supported function returns at most once, and what it returns is what the  *)
(* source means, evaluated by the rules of ToyMeaning on the syntax tree     *)
(* alone (lower.rs: build_body, lower_stmt, lower_expr_into).                *)
THEOREM CompilesCorrectly == CompileSpec /\ Supported(fn) => ImplementsMeaning
<1>1. CompileInit => Source!Init
  BY DEF CompileInit, Machine!NotCalled, Machine!Running, Source!Init
<1>2. CompileSpec => []RunTrace
  <2>1. CompileInv /\ RunTrace /\ [CompileNext]_system => RunTrace'
    BY RunTraceNext
  <2> QED BY <2>1, RunTraceInit, CompileInvHolds, PTL DEF CompileSpec
<1>3. [CompileNext]_system /\ Supported(fn) => Supported(fn)'
  BY SupportedFixed, Zenon
<1>4. CompileSpec /\ Supported(fn) => []Supported(fn)
  BY <1>3, PTL DEF CompileSpec
<1>5. CompileInv /\ RunTrace /\ Supported(fn) /\ [CompileNext]_system => [Source!Answer]_<<fn, args, outcome>>
  <2> SUFFICES ASSUME CompileInv, RunTrace, Supported(fn), [CompileNext]_system
               PROVE  [Source!Answer]_<<fn, args, outcome>>
    OBVIOUS
  <2>1. /\ fn' = fn /\ args' = args
        /\ outcome' = outcome \/ (outcome = Machine!Running /\ outcome' = Machine!Returned(Source!Meaning(fn, args)))
    BY StepAnswers
  <2>2. CASE outcome' = outcome
    BY <2>1, <2>2
  <2>3. CASE outcome = Machine!Running /\ outcome' = Machine!Returned(Source!Meaning(fn, args))
    <3>v. PICK v : v = Source!Meaning(fn, args)
      OBVIOUS
    <3>1. outcome = [status |-> "running"] /\ outcome' = [status |-> "returned", value |-> v]
      BY <2>3, <3>v DEF Machine!Running, Machine!Returned
    <3>2. outcome.status = "running" /\ outcome'.status = "returned"
      BY <3>1
    <3>3. outcome' # outcome
      BY <3>2
    <3> QED BY <2>1, <3>1, <3>3, <3>v DEF Source!Answer
  <2> QED BY <2>1, <2>2, <2>3
<1> QED BY <1>1, <1>2, <1>4, <1>5, CompileInvHolds, PTL DEF CompileSpec, ImplementsMeaning, Source!Spec

(* The call of a supported function never runs into undefined behaviour,     *)
(* whatever its arguments: what build_body and lower_expr_into write runs.   *)
THEOREM SupportedNeverUndefined == CompileSpec => [](Supported(fn) => NeverUndefined)
<1>1. CompileInv => (Supported(fn) => PassesChecks \/ NeverUndefined)
  <2> SUFFICES ASSUME CompileInv, Supported(fn), ~NeverUndefined PROVE PassesChecks
    OBVIOUS
  <2>1. bb # -1
    BY DEF NeverUndefined, Machine!Stuck, Machine!Executing
  <2>2. phase = "done"
    BY <2>1 DEF CompileInv, RunInv
  <2> QED BY <2>2, CompiledPasses
<1> QED BY <1>1, CompileInvHolds, ChecksSuffice, PTL
=============================================================================
