------------------------------ MODULE ToyLexer ------------------------------
(***************************************************************************)
(* tokenize of src/toylang/parser.rs: a cursor over the characters of a     *)
(* source text, one action per branch of the loop.  A token is its kind and *)
(* the span of its characters, and the kind of a one-character token is the *)
(* character.  As in the code positions count from 0: Char(0) is src[1].    *)
(***************************************************************************)
EXTENDS Characters

VARIABLES
  src,      \* the text
  i,        \* the cursor
  tokens,   \* the tokens so far
  status    \* "lexing", "done" or "panicked"

vars == <<src, i, tokens, status>>

\* Position p is in the text and holds a character of S.
In(p, S) == p \in 0 .. Len(src) - 1 /\ src[p + 1] \in S

\* The position after the run of S characters at the cursor.
RunEnd(S) ==
  CHOOSE j \in i .. Len(src) : (\A p \in i .. j - 1 : In(p, S)) /\ ~In(j, S)

-----------------------------------------------------------------------------
Init == src \in Texts /\ i = 0 /\ tokens = << >> /\ status = "lexing"

Skip(j) ==
  /\ status = "lexing"
  /\ i' = j
  /\ UNCHANGED <<src, tokens, status>>

Push(kind, j) ==
  /\ status = "lexing"
  /\ tokens' = Append(tokens, Token(kind, i, j))
  /\ i' = j
  /\ UNCHANGED <<src, status>>

SkipWhitespace == In(i, Whitespace) /\ Skip(i + 1)

AtComment   == In(i, {"/"}) /\ In(i + 1, {"/"})
\* Mistake: the newline that ends a comment is taken for granted.
SkipCommentPastNewline == AtComment /\ Skip(RunEnd(Char \ {Newline}) + 1)
SkipComment == AtComment /\ Skip(RunEnd(Char \ {Newline}))

PushArrow       == In(i, {"-"}) /\ In(i + 1, {">"}) /\ Push("->", i + 2)
AtDoubleColon   == In(i, {":"}) /\ In(i + 1, {":"})
PushDoubleColon == AtDoubleColon /\ Push("::", i + 2)

\* parse::<i64>().unwrap()
HugeNumber == NumberValue(SubSeq(src, i + 1, RunEnd(Digits))) > MaxI64
PushIntLit == In(i, Digits) /\ ~HugeNumber /\ Push("IntLit", RunEnd(Digits))
Panic ==
  /\ status = "lexing"
  /\ In(i, Digits) /\ HugeNumber
  /\ status' = "panicked"
  /\ UNCHANGED <<src, i, tokens>>

\* Mistake: one-character tokens are tried before pairs.
PushSingleFirst == In(i, Singles) /\ Push(src[i + 1], i + 1)
PushSingle == In(i, Singles) /\ ~AtDoubleColon /\ Push(src[i + 1], i + 1)
PushIdent  == In(i, Letters) /\ Push("Ident", RunEnd(WordChars))

\* Mistake: an unknown character is ignored, but not passed over.
SkipUnknownInPlace ==
  In(i, Char \ (Whitespace \cup Digits \cup Singles \cup Letters)) /\ ~AtComment /\ Skip(i)
\* Any other character, a lone slash or dash too, is dropped.
SkipUnknown ==
  In(i, Char \ (Whitespace \cup Digits \cup Singles \cup Letters))
  /\ ~AtComment /\ ~(In(i, {"-"}) /\ In(i + 1, {">"})) /\ Skip(i + 1)

PushEof ==
  /\ status = "lexing" /\ i = Len(src)
  /\ tokens' = Append(tokens, Token("Eof", i, i))
  /\ status' = "done"
  /\ UNCHANGED <<src, i>>

Next ==
  \/ SkipWhitespace \/ SkipComment \/ SkipUnknown
  \/ PushArrow \/ PushDoubleColon \/ PushIntLit \/ PushSingle \/ PushIdent \/ PushEof
  \/ Panic

\* A loop that waits for nothing.
Spec == Init /\ [][Next]_vars /\ WF_vars(Next)

-----------------------------------------------------------------------------
(* The cursor stays in the text, and every token is a span with a kind: the  *)
(* indexing of the character vector never goes out of bounds.                *)
TypeOK ==
  /\ src \in Texts /\ i \in 0 .. Len(src)
  /\ tokens \in Seq([kind : Kinds, from : Nat, to : Nat])
  /\ status \in {"lexing", "done", "panicked"}

Lexemes == INSTANCE ToyLexemes WITH
  text <- src, emitted <- tokens, outcome <- status

(* tokenize yields exactly the lexemes of the text, in the order of the text *)
(* and with one Eof after them, and panics only at a number beyond i64: the  *)
(* cursor is never in the middle of a word, a number, a comment or a pair    *)
(* when a branch of the loop is chosen by the one or two characters at it.   *)
YieldsLexemes == Lexemes!Spec

(* tokenize ends on every text: each branch moves the cursor.                *)
Ends == <>(status # "lexing")
=============================================================================
