------------------------------ MODULE ToyShims ------------------------------
(***************************************************************************)
(* The MIR bodies that src/mir_helpers.rs writes by hand and that the       *)
(* queries return: get_x of the hardcoded registry, and the drop glue.      *)
(***************************************************************************)
EXTENDS ToyMir

\* find_extern_fn, over the crate's foreign items in order: the position of the
\* first of that name, or 0.
FindExternFn(foreign, name) ==
  IF \E p \in DOMAIN foreign : foreign[p] = name
    THEN CHOOSE p \in DOMAIN foreign :
           foreign[p] = name /\ \A q \in 1 .. p - 1 : foreign[q] # name
    ELSE 0

Body(locals, blocks, arg_count) == [locals |-> locals, blocks |-> blocks, arg_count |-> arg_count]

ConstI32Body(value) ==
  Body(<<"i32">>, <<BasicBlock(<<Use(0, Const(value))>>, Return)>>, 0)

\* Mistake: the call returns to its own block.
DropCallBodyAgain(foreign) ==
  Body(<<"unit", "*mutPoint">>,
       IF FindExternFn(foreign, "__toylang_drop_Point") # 0
         THEN <<BasicBlock(<< >>, Call("drop", <<Copy(1)>>, 0, 0)), BasicBlock(<< >>, Return)>>
         ELSE <<BasicBlock(<< >>, Return)>>,
       1)
\* Mistake: the argument is not counted, as in build_const_i32_body.
DropCallBodyNoArgs(foreign) ==
  Body(<<"unit", "*mutPoint">>,
       IF FindExternFn(foreign, "__toylang_drop_Point") # 0
         THEN <<BasicBlock(<< >>, Call("drop", <<Copy(1)>>, 0, 1)), BasicBlock(<< >>, Return)>>
         ELSE <<BasicBlock(<< >>, Return)>>,
       0)
\* Mistake: found and not found are swapped.
DropCallBodyUnlessFound(foreign) ==
  Body(<<"unit", "*mutPoint">>,
       IF FindExternFn(foreign, "__toylang_drop_Point") = 0
         THEN <<BasicBlock(<< >>, Call("drop", <<Copy(1)>>, 0, 1)), BasicBlock(<< >>, Return)>>
         ELSE <<BasicBlock(<< >>, Return)>>,
       1)

DropCallBody(foreign) ==
  Body(<<"unit", "*mutPoint">>,
       IF FindExternFn(foreign, "__toylang_drop_Point") # 0
         THEN <<BasicBlock(<< >>, Call("drop", <<Copy(1)>>, 0, 1)), BasicBlock(<< >>, Return)>>
         ELSE <<BasicBlock(<< >>, Return)>>,
       1)
=============================================================================
