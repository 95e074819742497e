------------------------------ MODULE ToySyntax -----------------------------
(***************************************************************************)
(* What the parser reads and what it makes of it: tokens, and beside the    *)
(* syntax tree the definitions of src/toylang/registry.rs.  Names are       *)
(* opaque.  A type string is the tree it is formatted from: names contain   *)
(* no punctuation, so different trees are different strings.                *)
(***************************************************************************)
EXTENDS ToyAst

\* A token of kind t; a word has its text s and a number its value n.
Tok(t)    == [t |-> t, s |-> "", n |-> 0]
Word(s)   == [t |-> "Ident", s |-> s, n |-> 0]
Number(n) == [t |-> "IntLit", s |-> "", n |-> n]

TokenKinds ==
  {"Ident", "{", "}", "(", ")", "<", ">", ":", "::", ",", "&", "*", "->", ".", ";", "=",
   "IntLit", "Eof"}


\* Types: a name, a name with arguments, and "&", "&mut", "*const", "*mut".
Named(s)         == [k |-> "named", name |-> s]
Generic(s, args) == [k |-> "generic", name |-> s, args |-> args]
Pointer(p, ty)   == [k |-> p, to |-> ty]

PrimitiveTypes == {"i32", "i64", "f64", "bool"}

\* Option is a sequence of at most one element.
ToyField(x, ty)       == [name |-> x, rust_type |-> ty]
ToyParam(x, ty)       == [name |-> x, ty |-> ty]
FnBody(stmts, ret)    == [stmts |-> stmts, ret |-> ret]
ToyStruct(x, fields)  == [k |-> "struct", name |-> x, fields |-> fields]
ToyFunction(x, params, return_ty, body) ==
  [k |-> "fn", name |-> x, params |-> params, return_ty |-> return_ty, body |-> body]
=============================================================================
