----------------------------- MODULE MCToyHost ------------------------------
(* Crates with and without a destructor, with and without a Drop impl, and  *)
(* with get_x taking the Point of tests/mir_test.rs or nothing.             *)
EXTENDS ToyHost

MCCrates ==
  [foreign : {<< >>, <<"__toylang_drop_Line">>, <<"puts", "__toylang_drop_Point">>},
   get_x : {<< >>, <<"Point">>}, drops : BOOLEAN]

\* tests/mir_test.rs.
MirTest == [foreign |-> << >>, get_x |-> <<"Point">>, drops |-> FALSE]
MirTestOnly == {MirTest}
=============================================================================
