------------------------------ MODULE ToyCrate ------------------------------
(***************************************************************************)
(* What a compiler session is about: the registry of Toylang definitions    *)
(* (src/toylang/registry.rs), the items of the Rust crate, and the queries   *)
(* rustc may ask about them.                                                *)
(***************************************************************************)
EXTENDS Naturals, Sequences

CONSTANTS
  Files,   \* path -> the registry in the .toylang file, or Unreadable
  Misfits, \* the function bodies on which build_body panics (Panic of ToyLower)
  Items,   \* types and functions that the crate mentions
  Keys     \* the queries on them, [query |-> ..., item |-> ...]

Unreadable == [bad |-> TRUE]   \* no such file, or one that does not parse

(* A registry maps struct names and function names to their definitions. A   *)
(* function without a parsed body is NoBody.                                *)
NoBody == "no body"
Registry(structs, functions) == [structs |-> structs, functions |-> functions]
HardcodedPoint ==
  Registry([n \in {"Point"} |-> "x y"],
           [n \in {"make_vec", "vec_len", "get_x"} |-> NoBody])

Readable == {p \in DOMAIN Files : Files[p] # Unreadable}
Registries == {Files[p] : p \in Readable} \cup {HardcodedPoint}

\* A parsed function has a body.
ASSUME FilesAssumption ==
  \A p \in Readable : \A n \in DOMAIN Files[p].functions : Files[p].functions[n] # NoBody

(* An item: a type of TyKind::Adt, another type built on one and called by    *)
(* its name, or a function.  stub says that its author declared it as the     *)
(* Rust side of a Toylang definition; file is what its source file ends in;   *)
(* drops says that it is a type with a Drop impl or with fields that have      *)
(* one; destructor that an extern block declares __toylang_drop_<name>.       *)
ItemKinds == {"adt", "derived", "fn"}
Queries   == {"layout_of", "mir_borrowck", "mir_built", "mir_shims"}

ASSUME ItemsAssumption ==
  \A it \in Items :
    /\ it.kind \in ItemKinds /\ it.file \in {"rs", "toylang"}
    /\ it.stub \in BOOLEAN /\ it.drops \in BOOLEAN /\ it.destructor \in BOOLEAN

(* mir_shims of a type that drops is its DropGlue(_, Some(ty)), of another     *)
(* type DropGlue(_, None), of a function another instance kind.              *)
ASSUME KeysAssumption ==
  \A k \in Keys :
    /\ k.item \in Items
    /\ \/ k.query \in {"mir_borrowck", "mir_built"} /\ k.item.kind = "fn"
       \/ k.query = "layout_of" /\ k.item.kind \in {"adt", "derived"}
       \/ k.query = "mir_shims"

Flag == "--toylang-input"

(* Answers name who made them and from what.                                *)
ByRustc      == [by |-> "rustc", what |-> "default"]
ByToy(what)  == [by |-> "toylang", what |-> what]
=============================================================================
