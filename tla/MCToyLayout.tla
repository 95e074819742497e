---------------------------- MODULE MCToyLayout -----------------------------
(* All structs of up to MaxFields fields.                                   *)
EXTENDS ToyLayout

B == INSTANCE Bitwise

CONSTANT MaxFields

MCStructs == UNION {[1 .. n -> FieldTypes] : n \in 0 .. MaxFields}

(* AlignUp is what the source computes with a mask: in u64, x & !(a - 1) is   *)
(* x without the bits of a - 1.                                             *)
ASSUME MaskAssumption ==
  \A x \in 0 .. 200, a \in {1, 4, 8} :
    LET y == x + a - 1 IN AlignUp(x, a) = y - B!&(y, a - 1)
=============================================================================
