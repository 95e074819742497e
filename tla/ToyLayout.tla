----------------------------- MODULE ToyLayout ------------------------------
(***************************************************************************)
(* The layout of a Toylang struct: build_layout of src/queries/layout.rs    *)
(* and the ToyStruct methods it calls (src/toylang/registry.rs).            *)
(*                                                                         *)
(* size() and field_offsets() are two loops over the fields, written apart, *)
(* whose results land in one LayoutData.  Each round of a loop is a step,   *)
(* so that an invariant of the steps holds for structs of any length.       *)
(*                                                                         *)
(* u64 arithmetic is that of Nat: no struct that fits in a source file gets *)
(* near 2^64 bytes.                                                         *)
(***************************************************************************)
EXTENDS Integers, Sequences

FieldTypes == {"I32", "I64", "F64", "Bool"}

CONSTANT Structs   \* the structs to lay out, each the sequence of its field types

ASSUME StructsAssumption == Structs \subseteq Seq(FieldTypes)

VARIABLES
  fields,    \* the struct being laid out
  pc,        \* "size", "offsets" or "done"
  i,         \* the field the loop handles next
  offset,    \* the loop's running offset
  size,      \* result of size()
  offsets,   \* result of field_offsets(), growing
  layout     \* the LayoutData, once it is built

vars == <<fields, pc, i, offset, size, offsets, layout>>

\* ToyFieldType::size and ToyFieldType::align.
SizeOf(t)  == CASE t = "I32" -> 4 [] t = "I64" -> 8 [] t = "F64" -> 8 [] t = "Bool" -> 1
AlignOf(t) == CASE t = "I32" -> 4 [] t = "I64" -> 8 [] t = "F64" -> 8 [] t = "Bool" -> 1

\* ToyStruct::align, with unwrap_or(1).
StructAlign(fs) ==
  IF fs = << >> THEN 1
  ELSE CHOOSE a \in {AlignOf(fs[k]) : k \in 1 .. Len(fs)} :
         \A k \in 1 .. Len(fs) : AlignOf(fs[k]) <= a

\* Mistake: an offset that is aligned already is moved to the next boundary.
AlignUpStrictly(x, a) == ((x + a) \div a) * a

\* (x + a - 1) & !(a - 1): the same as this for the powers of two.
AlignUp(x, a) == ((x + a - 1) \div a) * a

Nothing == [size |-> 0]   \* before the layout is built

-----------------------------------------------------------------------------
Init ==
  /\ fields \in Structs
  /\ pc = "size"
  /\ i = 1
  /\ offset = 0
  /\ size = 0
  /\ offsets = << >>
  /\ layout = Nothing

\* Mistake: a field's size is added without its padding.
SizeFieldUnpadded ==
  /\ pc = "size" /\ i <= Len(fields)
  /\ offset' = offset + SizeOf(fields[i])
  /\ i' = i + 1
  /\ UNCHANGED <<fields, pc, size, offsets, layout>>

(* One round of the loop of size().                                         *)
SizeField ==
  /\ pc = "size" /\ i <= Len(fields)
  /\ offset' = AlignUp(offset, AlignOf(fields[i])) + SizeOf(fields[i])
  /\ i' = i + 1
  /\ UNCHANGED <<fields, pc, size, offsets, layout>>

\* Mistake: the tail padding is left out.
FinishSizeUnpadded ==
  /\ pc = "size" /\ i > Len(fields)
  /\ size' = offset
  /\ pc' = "offsets"
  /\ i' = 1
  /\ offset' = 0
  /\ UNCHANGED <<fields, offsets, layout>>

\* Mistake: the second loop starts where the first one stopped.
FinishSizeKeepsIndex ==
  /\ pc = "size" /\ i > Len(fields)
  /\ size' = AlignUp(offset, StructAlign(fields))
  /\ pc' = "offsets"
  /\ UNCHANGED <<fields, i, offset, offsets, layout>>

(* The end of size(), and the start of field_offsets().                     *)
FinishSize ==
  /\ pc = "size" /\ i > Len(fields)
  /\ size' = AlignUp(offset, StructAlign(fields))
  /\ pc' = "offsets"
  /\ i' = 1
  /\ offset' = 0
  /\ UNCHANGED <<fields, offsets, layout>>

\* Mistake: the offset is pushed after it was moved past the field.
PlaceFieldLate ==
  /\ pc = "offsets" /\ i <= Len(fields)
  /\ LET end == AlignUp(offset, AlignOf(fields[i])) + SizeOf(fields[i])
     IN  offsets' = Append(offsets, end) /\ offset' = end
  /\ i' = i + 1
  /\ UNCHANGED <<fields, pc, size, layout>>

(* One round of the loop of field_offsets().                                *)
PlaceField ==
  /\ pc = "offsets" /\ i <= Len(fields)
  /\ LET at == AlignUp(offset, AlignOf(fields[i]))
     IN  offsets' = Append(offsets, at) /\ offset' = at + SizeOf(fields[i])
  /\ i' = i + 1
  /\ UNCHANGED <<fields, pc, size, layout>>

\* memory_index: the fields are in memory in the order of their declaration.
MemoryIndex(fs) == [k \in 1 .. Len(fs) |-> k - 1]

(* The LayoutData is put together.                                          *)
Build ==
  /\ pc = "offsets" /\ i > Len(fields)
  /\ layout' = [size |-> size, align |-> StructAlign(fields), offsets |-> offsets,
                memoryIndex |-> MemoryIndex(fields)]
  /\ pc' = "done"
  /\ UNCHANGED <<fields, i, offset, size, offsets>>

Next == SizeField \/ FinishSize \/ PlaceField \/ Build

Spec == Init /\ [][Next]_vars /\ WF_vars(Next)

-----------------------------------------------------------------------------
(* The variables have the types of the Rust ones.                           *)
TypeOK ==
  /\ fields \in Structs
  /\ pc \in {"size", "offsets", "done"}
  /\ i \in 1 .. Len(fields) + 1
  /\ offset \in Nat
  /\ size \in Nat
  /\ offsets \in Seq(Nat)
  /\ pc = "size" => offsets = << >>
  /\ pc # "size" => Len(offsets) = i - 1

Built == pc = "done"
End(k) == layout.offsets[k] + SizeOf(fields[k])

(* The two loops agree: the size of the first leaves room for every field   *)
(* the second placed, and less than one alignment of padding after the last. *)
RoomForFields ==
  Built =>
    /\ \A k \in 1 .. Len(fields) : End(k) <= layout.size
    /\ layout.size < (IF fields = << >> THEN 0 ELSE End(Len(fields))) + layout.align

(* Each field is aligned, and lies right behind the ones before it: nothing  *)
(* overlaps, and less than the field's alignment is wasted on padding.       *)
FieldsPlaced ==
  Built =>
    /\ Len(layout.offsets) = Len(fields)
    /\ \A k \in 1 .. Len(fields) :
         LET before == IF k = 1 THEN 0 ELSE End(k - 1)
         IN  /\ layout.offsets[k] % AlignOf(fields[k]) = 0
             /\ layout.offsets[k] \in before .. before + AlignOf(fields[k]) - 1

(* Every element of an array of the struct is aligned like the first one, and *)
(* with it each of the element's fields.                                     *)
ArraysAligned ==
  Built =>
    /\ layout.size % layout.align = 0
    /\ \A k \in 1 .. Len(fields) : (layout.size + layout.offsets[k]) % AlignOf(fields[k]) = 0
=============================================================================
