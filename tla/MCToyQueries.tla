---------------------------- MODULE MCToyQueries ----------------------------
(* A crate like that of tests/: a stub struct, a pointer to it, a struct that *)
(* contains it, stub functions, and functions of its own.                    *)
EXTENDS ToyQueries, TLC

CONSTANT Namesake   \* whether another function is called like a stub

Item(kind, name, stub, drops, destructor) ==
  [kind |-> kind, name |-> name, stub |-> stub, file |-> "rs",
   drops |-> drops, destructor |-> destructor]

\* Stubs with a destructor, without one, and without a Drop impl.
Point   == Item("adt", "Point", TRUE, TRUE, TRUE)
Size    == Item("adt", "Size", TRUE, TRUE, FALSE)
Color   == Item("adt", "Color", TRUE, FALSE, TRUE)
Pointer == Item("derived", "Point", FALSE, FALSE, FALSE)
Segment == Item("adt", "Segment", FALSE, TRUE, FALSE)
MakeVec == Item("fn", "make_vec", TRUE, FALSE, FALSE)
GetX    == Item("fn", "get_x", TRUE, FALSE, FALSE)
Main    == Item("fn", "main", FALSE, FALSE, FALSE)
Method  == Item("fn", "get_x", FALSE, FALSE, FALSE)

MCItems == {Point, Size, Color, Pointer, Segment, MakeVec, GetX, Main}
             \cup (IF Namesake THEN {Method} ELSE {})

Key(q, it) == [query |-> q, item |-> it]

MCKeys ==
  {Key("layout_of", it) : it \in {Point, Pointer, Segment}}
    \cup {Key("mir_shims", it) : it \in {Point, Size, Color}}
    \cup {Key("mir_built", it) : it \in {MakeVec, GetX, Main}}
    \cup {Key("mir_borrowck", it) : it \in {GetX, Main}}
    \cup (IF Namesake THEN {Key("mir_built", Method)} ELSE {})

\* Two of them are demanded by other queries only.
MCRoots == MCKeys \ {Key("layout_of", Point), Key("mir_built", Main)}

\* The layout of Segment needs that of Point, borrow checking needs the body.
MCNeeds(k) ==
  CASE k = Key("layout_of", Segment) -> {Key("layout_of", Point)}
    [] k.query = "mir_borrowck"      -> {Key("mir_built", k.item)}
    [] OTHER                         -> {}

MCFiles ==
  ("point.toylang" :> Registry("Point" :> "x y" @@ "Size" :> "w h" @@ "Color" :> "r g b",
                               "make_vec" :> "pushes" @@ "get_x" :> "returns x"))
  @@ ("wrong.toylang" :> Registry("Size" :> "w h", "get_x" :> "panics"))
  @@ ("typo.toylang" :> Unreadable)

ASSUME NamesakeAssumption == Namesake \/ Unambiguous

MCMisfits == {"panics"}

MCCommandLines ==
  {<<Flag, "point.toylang", "host.rs">>, <<"host.rs">>, <<"host.rs", Flag>>,
   <<Flag, "wrong.toylang", "host.rs">>, <<Flag, "typo.toylang", "host.rs">>,
   <<Flag, "point.toylang", Flag, "point.toylang", "host.rs">>}
=============================================================================
