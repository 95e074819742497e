-------------------------- MODULE ToyLayout_proofs --------------------------
(***************************************************************************)
(* The layout theorems, for structs of any number of fields.                *)
(*                                                                         *)
(* The invariant relates the two loops by a trace of the running offset: a  *)
(* function g with g[k] the offset behind field k.  The first loop extends  *)
(* the trace by one field in each round, the second runs along it again.    *)
(***************************************************************************)
EXTENDS ToyLayout, TLAPS

Powers == {1, 4, 8}

\* The running offsets of a loop over the first n fields of fs.
Traces(fs, n) ==
  {g \in [0 .. n -> Nat] :
     /\ g[0] = 0
     /\ \A k \in 1 .. n : g[k] = AlignUp(g[k - 1], AlignOf(fs[k])) + SizeOf(fs[k])}

\* The offset of the second loop lies behind all the fields it has placed.
PlacedSoFar ==
  \A k \in 1 .. Len(offsets) :
    LET before == IF k = 1 THEN 0 ELSE offsets[k - 1] + SizeOf(fields[k - 1])
    IN  /\ offsets[k] % AlignOf(fields[k]) = 0
        /\ offsets[k] \in before .. before + AlignOf(fields[k]) - 1
        /\ offsets[k] + SizeOf(fields[k]) <= offset

\* The last field placed ends where the loop stands.
LastEnd == IF offsets = << >> THEN 0
           ELSE offsets[Len(offsets)] + SizeOf(fields[Len(offsets)])

IInv ==
  /\ TypeOK
  /\ pc = "size" => \E g \in Traces(fields, i - 1) : g[i - 1] = offset
  /\ pc # "size" =>
       /\ \E g \in Traces(fields, Len(fields)) :
            g[i - 1] = offset /\ size = AlignUp(g[Len(fields)], StructAlign(fields))
       /\ PlacedSoFar
       /\ LastEnd = offset
  /\ pc = "done" =>
       /\ i = Len(fields) + 1
       /\ layout = [size |-> size, align |-> StructAlign(fields), offsets |-> offsets,
                    memoryIndex |-> MemoryIndex(fields)]

-----------------------------------------------------------------------------
(* AlignUp returns the least multiple of a that is at least x.              *)
LEMMA AlignUpSpec ==
  ASSUME NEW x \in Nat, NEW a \in Powers
  PROVE  /\ AlignUp(x, a) \in Nat
         /\ AlignUp(x, a) \in x .. x + a - 1
         /\ AlignUp(x, a) % a = 0
<1>1. CASE a = 1 BY <1>1 DEF AlignUp
<1>2. CASE a = 4 BY <1>2 DEF AlignUp
<1>3. CASE a = 8 BY <1>3 DEF AlignUp
<1>4. QED BY <1>1, <1>2, <1>3 DEF Powers

(* Sizes and alignments of the field types are small powers of two.         *)
LEMMA FieldTypeSpec ==
  ASSUME NEW t \in FieldTypes
  PROVE  AlignOf(t) \in Powers /\ SizeOf(t) \in Nat
BY DEF FieldTypes, AlignOf, SizeOf, Powers

(* The alignment of a struct is that of its most aligned field.             *)
LEMMA StructAlignSpec ==
  ASSUME NEW fs \in Seq(FieldTypes)
  PROVE  /\ StructAlign(fs) \in Powers
         /\ \A k \in 1 .. Len(fs) : AlignOf(fs[k]) <= StructAlign(fs)
<1> DEFINE As == {AlignOf(fs[k]) : k \in 1 .. Len(fs)}
           IsMax(a) == a \in As /\ \A k \in 1 .. Len(fs) : AlignOf(fs[k]) <= a
<1>1. CASE fs = << >> BY <1>1 DEF StructAlign, Powers
<1>2. CASE fs # << >>
  <2>1. \A k \in 1 .. Len(fs) : fs[k] \in FieldTypes
    OBVIOUS
  <2>2. \A k \in 1 .. Len(fs) : AlignOf(fs[k]) \in Powers
    BY <2>1, FieldTypeSpec
  <2>3. AlignOf(fs[1]) \in As
    BY <1>2
  <2>4. As \subseteq Powers
    BY <2>2
  <2>5. \E a : IsMax(a)
    <3>1. CASE 8 \in As BY <3>1, <2>2 DEF Powers
    <3>2. CASE 8 \notin As /\ 4 \in As BY <3>2, <2>2 DEF Powers
    <3>3. CASE 8 \notin As /\ 4 \notin As BY <3>3, <2>2, <2>3 DEF Powers
    <3>4. QED BY <3>1, <3>2, <3>3
  <2>6. StructAlign(fs) = CHOOSE a \in As : \A k \in 1 .. Len(fs) : AlignOf(fs[k]) <= a
    BY <1>2 DEF StructAlign
  <2>7. IsMax(StructAlign(fs))
    BY <2>5, <2>6
  <2>8. QED BY <2>7, <2>4
<1>3. QED BY <1>1, <1>2

(* A multiple of a larger power is a multiple of a smaller one.             *)
LEMMA Divides ==
  ASSUME NEW a \in Powers, NEW b \in Powers, a <= b,
         NEW x \in Nat, x % b = 0, NEW y \in Nat, y % a = 0
  PROVE  (x + y) % a = 0
<1>1. CASE a = 1 BY <1>1
<1>2. CASE a = 4 /\ b = 4 BY <1>2
<1>3. CASE a = 4 /\ b = 8 BY <1>3
<1>4. CASE a = 8 BY <1>4 DEF Powers
<1>5. QED BY <1>1, <1>2, <1>3, <1>4 DEF Powers

(* The fields of the struct at hand have field types.                       *)
LEMMA FieldsTyped ==
  ASSUME TypeOK
  PROVE  /\ fields \in Seq(FieldTypes)
         /\ \A k \in 1 .. Len(fields) :
              /\ fields[k] \in FieldTypes
              /\ AlignOf(fields[k]) \in Powers
              /\ SizeOf(fields[k]) \in Nat
<1>1. fields \in Seq(FieldTypes)
  BY StructsAssumption DEF TypeOK
<1>2. \A k \in 1 .. Len(fields) : fields[k] \in FieldTypes
  BY <1>1
<1>3. QED BY <1>1, <1>2, FieldTypeSpec

-----------------------------------------------------------------------------
(* The empty trace starts the first loop.                                   *)
LEMMA InitHolds == Init => IInv
<1> SUFFICES ASSUME Init PROVE IInv
  OBVIOUS
<1>1. fields \in Seq(FieldTypes)
  BY StructsAssumption DEF Init
<1>2. TypeOK
  BY <1>1 DEF Init, TypeOK
<1>3. [k \in 0 .. 0 |-> 0] \in Traces(fields, i - 1)
  BY DEF Init, Traces
<1>4. \E g \in Traces(fields, i - 1) : g[i - 1] = offset
  BY <1>3 DEF Init
<1>5. QED BY <1>2, <1>4 DEF Init, IInv

(* A trace of n fields is extended by the next field.                       *)
LEMMA TraceGrows ==
  ASSUME NEW fs \in Seq(FieldTypes), NEW n \in Nat, n < Len(fs),
         NEW g \in Traces(fs, n)
  PROVE  \E h \in Traces(fs, n + 1) :
           h[n + 1] = AlignUp(g[n], AlignOf(fs[n + 1])) + SizeOf(fs[n + 1])
<1> DEFINE next == AlignUp(g[n], AlignOf(fs[n + 1])) + SizeOf(fs[n + 1])
           h    == [k \in 0 .. n + 1 |-> IF k = n + 1 THEN next ELSE g[k]]
<1>1. g \in [0 .. n -> Nat]
  BY DEF Traces
<1>2. fs[n + 1] \in FieldTypes /\ g[n] \in Nat
  BY <1>1
<1>3. next \in Nat
  <2>1. AlignOf(fs[n + 1]) \in Powers /\ SizeOf(fs[n + 1]) \in Nat
    BY <1>2, FieldTypeSpec
  <2>2. AlignUp(g[n], AlignOf(fs[n + 1])) \in Nat
    BY <1>2, <2>1, AlignUpSpec
  <2>3. QED BY <2>1, <2>2
<1>4. h \in [0 .. n + 1 -> Nat]
  BY <1>1, <1>3
<1>5. h[0] = 0
  BY DEF Traces
<1>6. ASSUME NEW k \in 1 .. n + 1
      PROVE  h[k] = AlignUp(h[k - 1], AlignOf(fs[k])) + SizeOf(fs[k])
  <2>1. CASE k = n + 1
    <3>1. h[k] = next /\ h[k - 1] = g[n]
      BY <2>1
    <3>2. QED BY <3>1, <2>1
  <2>2. CASE k \in 1 .. n
    <3>1. h[k] = g[k] /\ h[k - 1] = g[k - 1]
      BY <2>2
    <3>2. QED BY <3>1, <2>2 DEF Traces
  <2>3. QED BY <2>1, <2>2
<1>7. h \in Traces(fs, n + 1)
  <2> HIDE DEF h
  <2>1. QED BY <1>4, <1>5, <1>6 DEF Traces
<1>8. h[n + 1] = next
  OBVIOUS
<1>9. QED BY <1>7, <1>8

(* A round of the first loop extends the trace.                             *)
LEMMA SizeFieldKeeps ==
  ASSUME IInv, SizeField
  PROVE  IInv'
<1>1. TypeOK /\ pc = "size" /\ i \in 1 .. Len(fields)
  BY DEF IInv, SizeField, TypeOK
<1>2. PICK g \in Traces(fields, i - 1) : g[i - 1] = offset
  BY <1>1 DEF IInv
<1>3. PICK n \in Nat : n = i - 1
  BY <1>1
<1>4. \E h \in Traces(fields, n + 1) :
        h[n + 1] = AlignUp(g[n], AlignOf(fields[n + 1])) + SizeOf(fields[n + 1])
  <2>1. n < Len(fields) /\ fields \in Seq(FieldTypes) /\ g \in Traces(fields, n)
    BY <1>1, <1>2, <1>3, FieldsTyped
  <2>2. QED BY <2>1, TraceGrows
<1>5. n + 1 = i /\ i' - 1 = n + 1
  BY <1>1, <1>3 DEF SizeField
<1>6. offset' = AlignUp(g[n], AlignOf(fields[n + 1])) + SizeOf(fields[n + 1])
  BY <1>2, <1>3, <1>5 DEF SizeField
<1>7. PICK h \in Traces(fields, n + 1) : h[n + 1] = offset'
  BY <1>4, <1>6
<1>8. h[n + 1] \in Nat
  BY <1>5, <1>1 DEF Traces
<1>9. TypeOK'
  BY <1>1, <1>7, <1>8 DEF TypeOK, SizeField
<1>10. \E t \in Traces(fields', i' - 1) : t[i' - 1] = offset'
  BY <1>7, <1>5 DEF SizeField
<1>11. pc' = "size"
  BY <1>1 DEF SizeField
<1>12. QED BY <1>9, <1>10, <1>11 DEF IInv

(* The end of the first loop leaves a trace of all the fields.              *)
LEMMA FinishSizeKeeps ==
  ASSUME IInv, FinishSize
  PROVE  IInv'
<1>1. TypeOK /\ pc = "size" /\ i = Len(fields) + 1
  BY DEF IInv, FinishSize, TypeOK
<1>2. PICK g \in Traces(fields, i - 1) : g[i - 1] = offset
  BY <1>1 DEF IInv
<1>3. fields \in Seq(FieldTypes) /\ Len(fields) \in Nat
  BY <1>1, FieldsTyped
<1>4. g \in Traces(fields, Len(fields)) /\ g[Len(fields)] = offset /\ g[0] = 0
  BY <1>1, <1>2, <1>3 DEF Traces
<1>5. size' \in Nat
  BY <1>1, <1>3, StructAlignSpec, AlignUpSpec DEF TypeOK, FinishSize
<1>6. TypeOK'
  BY <1>1, <1>3, <1>5 DEF TypeOK, FinishSize
<1>7. \E t \in Traces(fields', Len(fields')) :
         t[i' - 1] = offset' /\ size' = AlignUp(t[Len(fields')], StructAlign(fields'))
  BY <1>4 DEF FinishSize
<1>8. offsets' = << >>
  BY <1>1 DEF TypeOK, FinishSize
<1>9. PlacedSoFar' /\ LastEnd' = offset'
  BY <1>8 DEF PlacedSoFar, LastEnd, FinishSize
<1>10. pc' = "offsets"
  BY DEF FinishSize
<1>11. QED BY <1>6, <1>7, <1>9, <1>10 DEF IInv

(* A round of the second loop follows the trace and places a field.         *)
LEMMA PlaceFieldKeeps ==
  ASSUME IInv, PlaceField
  PROVE  IInv'
<1>1. TypeOK /\ pc = "offsets" /\ i \in 1 .. Len(fields) /\ PlacedSoFar /\ LastEnd = offset
  BY DEF IInv, PlaceField, TypeOK
<1>2. PICK g \in Traces(fields, Len(fields)) :
        g[i - 1] = offset /\ size = AlignUp(g[Len(fields)], StructAlign(fields))
  BY <1>1 DEF IInv
<1> DEFINE at == AlignUp(offset, AlignOf(fields[i]))
<1>3. /\ offset \in Nat /\ fields \in Seq(FieldTypes)
      /\ AlignOf(fields[i]) \in Powers /\ SizeOf(fields[i]) \in Nat
  BY <1>1, FieldsTyped DEF TypeOK
<1>4. /\ at \in Nat
      /\ at \in offset .. offset + AlignOf(fields[i]) - 1
      /\ at % AlignOf(fields[i]) = 0
  BY <1>3, AlignUpSpec
<1>5. offsets \in Seq(Nat) /\ Len(offsets) = i - 1
  BY <1>1 DEF TypeOK
<1>6. /\ offsets' = Append(offsets, at) /\ offset' = at + SizeOf(fields[i])
      /\ i' = i + 1 /\ pc' = "offsets" /\ fields' = fields /\ size' = size /\ layout' = layout
  BY <1>1 DEF PlaceField
<1> HIDE DEF at
<1>7. /\ offsets' \in Seq(Nat) /\ Len(offsets') = i /\ offsets'[i] = at
      /\ \A k \in 1 .. i - 1 : offsets'[k] = offsets[k]
  BY <1>1, <1>4, <1>5, <1>6
<1>8. TypeOK'
  BY <1>1, <1>3, <1>4, <1>6, <1>7 DEF TypeOK
<1>9. g[i' - 1] = offset'
  <2>1. g[i] = AlignUp(g[i - 1], AlignOf(fields[i])) + SizeOf(fields[i])
    BY <1>1, <1>2 DEF Traces
  <2>2. i' - 1 = i
    BY <1>1, <1>6
  <2>3. QED BY <2>1, <2>2, <1>2, <1>6 DEF at
<1>10. LastEnd' = offset'
  <2>1. offsets' # << >>
    BY <1>1, <1>7
  <2>2. QED BY <2>1, <1>6, <1>7 DEF LastEnd
<1>11. LastEnd = IF i = 1 THEN 0 ELSE offsets[i - 1] + SizeOf(fields[i - 1])
  BY <1>1, <1>5 DEF LastEnd
<1>12. ASSUME NEW k \in 1 .. i
       PROVE  LET before == IF k = 1 THEN 0 ELSE offsets'[k - 1] + SizeOf(fields[k - 1])
              IN  /\ offsets'[k] % AlignOf(fields[k]) = 0
                  /\ offsets'[k] \in before .. before + AlignOf(fields[k]) - 1
                  /\ offsets'[k] + SizeOf(fields[k]) <= offset'
  <2>1. CASE k = i
    <3>1. offset = IF i = 1 THEN 0 ELSE offsets'[i - 1] + SizeOf(fields[i - 1])
      BY <1>1, <1>7, <1>11
    <3>2. offsets'[i] + SizeOf(fields[i]) <= offset'
      BY <1>3, <1>4, <1>6, <1>7
    <3>3. QED BY <2>1, <3>1, <3>2, <1>4, <1>7
  <2>2. CASE k \in 1 .. i - 1
    <3>1. /\ offsets[k] % AlignOf(fields[k]) = 0
          /\ offsets[k] \in (IF k = 1 THEN 0 ELSE offsets[k - 1] + SizeOf(fields[k - 1])) ..
                   (IF k = 1 THEN 0 ELSE offsets[k - 1] + SizeOf(fields[k - 1]))
                     + AlignOf(fields[k]) - 1
          /\ offsets[k] + SizeOf(fields[k]) <= offset
      BY <2>2, <1>1, <1>5 DEF PlacedSoFar
    <3>2. offsets'[k] = offsets[k] /\ (k # 1 => offsets'[k - 1] = offsets[k - 1])
      <4>1. k # 1 => k - 1 \in 1 .. i - 1
        BY <2>2, <1>1, <1>3
      <4>2. QED BY <2>2, <4>1, <1>7
    <3>3. offset <= offset'
      BY <1>3, <1>4, <1>6
    <3>4. offsets[k] \in Nat /\ SizeOf(fields[k]) \in Nat /\ offset' \in Nat
      <4>1. k \in 1 .. Len(offsets) /\ k \in 1 .. Len(fields)
        BY <2>2, <1>1, <1>3, <1>5
      <4>2. offsets[k] \in Nat
        BY <4>1, <1>5
      <4>3. SizeOf(fields[k]) \in Nat
        BY <4>1, <1>1, FieldsTyped
      <4>4. offset' \in Nat
        BY <1>3, <1>4, <1>6
      <4>5. QED BY <4>2, <4>3, <4>4
    <3>5. offsets'[k] + SizeOf(fields[k]) <= offset'
      BY <3>1, <3>2, <3>3, <3>4, <1>3
    <3>6. QED BY <3>1, <3>2, <3>5
  <2>3. k = i \/ k \in 1 .. i - 1
    BY <1>1, <1>3
  <2>4. QED BY <2>1, <2>2, <2>3
<1>13. PlacedSoFar'
  BY <1>6, <1>7, <1>12 DEF PlacedSoFar
<1>14. \E t \in Traces(fields', Len(fields')) :
         t[i' - 1] = offset' /\ size' = AlignUp(t[Len(fields')], StructAlign(fields'))
  BY <1>2, <1>6, <1>9
<1>15. QED BY <1>6, <1>8, <1>10, <1>13, <1>14 DEF IInv

(* The finished layout records what the loops computed.                     *)
LEMMA BuildKeeps ==
  ASSUME IInv, Build
  PROVE  IInv'
<1>1. /\ TypeOK /\ pc = "offsets" /\ i = Len(fields) + 1 /\ PlacedSoFar /\ LastEnd = offset
      /\ \E g \in Traces(fields, Len(fields)) :
            g[i - 1] = offset /\ size = AlignUp(g[Len(fields)], StructAlign(fields))
  BY DEF IInv, Build, TypeOK
<1>2. /\ pc' = "done"
      /\ fields' = fields /\ i' = i /\ offset' = offset /\ size' = size /\ offsets' = offsets
      /\ layout' = [size |-> size, align |-> StructAlign(fields), offsets |-> offsets,
                    memoryIndex |-> MemoryIndex(fields)]
  BY DEF Build
<1>3. TypeOK'
  BY <1>1, <1>2 DEF TypeOK
<1>4. PlacedSoFar' /\ LastEnd' = offset'
  BY <1>1, <1>2 DEF PlacedSoFar, LastEnd
<1>5. QED BY <1>1, <1>2, <1>3, <1>4 DEF IInv

(* Every step keeps the invariant.                                          *)
LEMMA StepKeeps == IInv /\ [Next]_vars => IInv'
<1> SUFFICES ASSUME IInv, [Next]_vars PROVE IInv'
  OBVIOUS
<1>1. CASE UNCHANGED vars
  BY <1>1 DEF vars, IInv, TypeOK, PlacedSoFar, LastEnd
<1>2. QED BY <1>1, SizeFieldKeeps, FinishSizeKeeps, PlaceFieldKeeps, BuildKeeps DEF Next

(* The invariant of the two loops, in every state.                          *)
LEMMA InvariantHolds == Spec => []IInv
BY InitHolds, StepKeeps, PTL DEF Spec

-----------------------------------------------------------------------------
(* The variables of the layout computation have their types.               *)
THEOREM TypeCorrect == Spec => []TypeOK
<1>1. IInv => TypeOK
  BY DEF IInv
<1>2. QED BY <1>1, InvariantHolds, PTL

\* What the invariant says of a finished layout.
LEMMA FinishedLayout ==
  ASSUME IInv, Built
  PROVE  /\ TypeOK /\ PlacedSoFar /\ LastEnd = offset
         /\ Len(offsets) = Len(fields) /\ Len(fields) \in Nat
         /\ layout.size = size /\ layout.offsets = offsets
         /\ layout.align = StructAlign(fields)
         /\ size = AlignUp(offset, layout.align)
<1>1. TypeOK /\ pc = "done" /\ i = Len(fields) + 1 /\ PlacedSoFar /\ LastEnd = offset
  BY DEF IInv, Built
<1>2. fields \in Seq(FieldTypes)
  BY <1>1, FieldsTyped
<1>3. i - 1 = Len(fields) /\ Len(fields) \in Nat
  BY <1>1, <1>2
<1>4. layout = [size |-> size, align |-> StructAlign(fields), offsets |-> offsets,
                memoryIndex |-> MemoryIndex(fields)]
  BY <1>1 DEF IInv
<1>5. size = AlignUp(offset, StructAlign(fields))
  BY <1>1, <1>3 DEF IInv
<1>6. QED BY <1>1, <1>3, <1>4, <1>5 DEF TypeOK

(* field_offsets() aligns every field and places it right behind the others. *)
THEOREM FieldsCorrect == Spec => []FieldsPlaced
<1>1. IInv => FieldsPlaced
  <2> SUFFICES ASSUME IInv, Built
               PROVE  /\ Len(layout.offsets) = Len(fields)
                      /\ \A k \in 1 .. Len(fields) :
                           LET before == IF k = 1 THEN 0 ELSE End(k - 1)
                           IN  /\ layout.offsets[k] % AlignOf(fields[k]) = 0
                               /\ layout.offsets[k] \in
                                    before .. before + AlignOf(fields[k]) - 1
    BY DEF FieldsPlaced
  <2>1. QED BY FinishedLayout DEF PlacedSoFar, End
<1>2. QED BY <1>1, InvariantHolds, PTL

(* size(), though computed by a loop of its own, has room for the fields that *)
(* field_offsets() places.                                                  *)
THEOREM SizeCorrect == Spec => []RoomForFields
<1>1. IInv => RoomForFields
  <2> SUFFICES ASSUME IInv, Built
               PROVE  /\ \A k \in 1 .. Len(fields) : End(k) <= layout.size
                      /\ layout.size < (IF fields = << >> THEN 0 ELSE End(Len(fields)))
                                         + layout.align
    BY DEF RoomForFields
  <2>1. offset \in Nat /\ layout.align \in Powers /\ layout.size = AlignUp(offset, layout.align)
    BY FinishedLayout, FieldsTyped, StructAlignSpec DEF TypeOK
  <2>2. layout.size \in offset .. offset + layout.align - 1
    BY <2>1, AlignUpSpec
  <2>3. layout.size \in Nat /\ offset <= layout.size /\ layout.size < offset + layout.align
    BY <2>1, <2>2 DEF Powers
  <2>4. ASSUME NEW k \in 1 .. Len(fields)
        PROVE  End(k) <= layout.size
    <3>1. End(k) <= offset
      BY FinishedLayout DEF PlacedSoFar, End
    <3>2. End(k) \in Nat
      BY FinishedLayout, FieldsTyped DEF TypeOK, End
    <3>3. QED BY <3>1, <3>2, <2>1, <2>3
  <2>5. offset = IF fields = << >> THEN 0 ELSE End(Len(fields))
    <3>1. fields = << >> <=> offsets = << >>
      BY FinishedLayout, FieldsTyped DEF TypeOK
    <3>2. QED BY <3>1, FinishedLayout DEF LastEnd, End
  <2>6. QED BY <2>3, <2>4, <2>5
<1>2. QED BY <1>1, InvariantHolds, PTL

(* An array of the struct keeps every field of every element aligned.       *)
THEOREM ArraysCorrect == Spec => []ArraysAligned
<1>1. IInv => ArraysAligned
  <2> SUFFICES ASSUME IInv, Built
               PROVE  /\ layout.size % layout.align = 0
                      /\ \A k \in 1 .. Len(fields) :
                           (layout.size + layout.offsets[k]) % AlignOf(fields[k]) = 0
    BY DEF ArraysAligned
  <2>1. /\ offset \in Nat /\ layout.align \in Powers
        /\ layout.size = AlignUp(offset, layout.align)
        /\ \A k \in 1 .. Len(fields) : AlignOf(fields[k]) <= layout.align
    BY FinishedLayout, FieldsTyped, StructAlignSpec DEF TypeOK
  <2>2. layout.size \in Nat /\ layout.size % layout.align = 0
    BY <2>1, AlignUpSpec
  <2>3. ASSUME NEW k \in 1 .. Len(fields)
        PROVE  (layout.size + layout.offsets[k]) % AlignOf(fields[k]) = 0
    <3>1. layout.offsets[k] \in Nat /\ layout.offsets[k] % AlignOf(fields[k]) = 0
      BY FinishedLayout DEF PlacedSoFar, TypeOK
    <3>2. AlignOf(fields[k]) \in Powers /\ AlignOf(fields[k]) <= layout.align
      BY <2>1, FinishedLayout, FieldsTyped
    <3>3. QED BY <2>1, <2>2, <3>1, <3>2, Divides
  <2>4. QED BY <2>2, <2>3
<1>2. QED BY <1>1, InvariantHolds, PTL
=============================================================================
