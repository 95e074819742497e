----------------------------- MODULE Characters -----------------------------
(***************************************************************************)
(* Source characters as the lexer tells them apart, and tokens as spans of  *)
(* them.                                                                    *)
(***************************************************************************)
EXTENDS Integers, Sequences, Folds

CONSTANTS
  Texts,        \* source texts
  Char,         \* all characters
  Whitespace,   \* char::is_whitespace
  Letters,      \* char::is_alphabetic, and "_"
  Numerics,     \* char::is_numeric but not an ASCII digit
  MaxI64        \* the largest i64

Newline   == "\n"
Digits    == {"0", "1", "2", "3", "4", "5", "6", "7", "8", "9"}
Singles   == {"{", "}", "(", ")", "<", ">", ":", ",", "&", "*", ".", ";", "="}
WordChars == Letters \cup Digits \cup Numerics

Kinds == Singles \cup {"->", "::", "IntLit", "Ident", "Eof"}
Token(kind, from, to) == [kind |-> kind, from |-> from, to |-> to]

ASSUME CharAssumption ==
  /\ Texts \subseteq Seq(Char)
  /\ Digits \cup Singles \cup Whitespace \cup Letters \cup Numerics \cup {"/", "-"} \subseteq Char
  /\ Newline \in Whitespace
  /\ Whitespace \cap (WordChars \cup Singles \cup {"/", "-"}) = {}
  /\ Letters \cap (Digits \cup Numerics \cup Singles \cup {"/", "-"}) = {}
  /\ Numerics \cap (Digits \cup Singles \cup {"/", "-"}) = {}

DigitValue(c) ==
  CHOOSE n \in 0 .. 9 : <<"0", "1", "2", "3", "4", "5", "6", "7", "8", "9">>[n + 1] = c
NumberValue(digits) ==
  MapThenFoldSet(LAMBDA a, b : a + b, 0,
                 LAMBDA k : DigitValue(digits[k]) * 10 ^ (Len(digits) - k),
                 LAMBDA S : CHOOSE k \in S : TRUE, DOMAIN digits)
=============================================================================
