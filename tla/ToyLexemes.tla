----------------------------- MODULE ToyLexemes -----------------------------
(***************************************************************************)
(* What a source text consists of, without a cursor: which positions belong *)
(* to a comment, a word or a number is read off the text, and a lexeme is a *)
(* maximal span.  The lexer promises to yield them in order.                *)
(***************************************************************************)
EXTENDS Characters

VARIABLES text, emitted, outcome

Is(p, S) == p \in 0 .. Len(text) - 1 /\ text[p + 1] \in S

\* From the first of two slashes to the end of the line.
InComment(p) ==
  \E q \in 0 .. p : /\ Is(q, {"/"}) /\ Is(q + 1, {"/"})
                    /\ \A k \in q .. p : Is(k, Char \ {Newline})

\* A letter, and the word characters after one.
InWord(p) ==
  /\ ~InComment(p)
  /\ \E q \in 0 .. p : Is(q, Letters) /\ \A k \in q .. p : Is(k, WordChars)
InNumber(p) == Is(p, Digits) /\ ~InComment(p) /\ ~InWord(p)

\* Of a row of colons, the first, third, ... open a pair if one follows.
Colons(q, p) == \A k \in q .. p : Is(k, {":"})
Opens(p) ==
  \E q \in 0 .. p : Colons(q, p) /\ ~Is(q - 1, {":"}) /\ (p - q) % 2 = 0

Maximal(Inside(_), a, b) ==
  (\A p \in a .. b - 1 : Inside(p)) /\ ~Inside(a - 1) /\ ~Inside(b)

IsLexeme(t) ==
  /\ t.from < t.to
  /\ \/ t.kind = "Ident"  /\ Maximal(InWord, t.from, t.to)
     \/ t.kind = "IntLit" /\ Maximal(InNumber, t.from, t.to)
     \/ /\ ~InComment(t.from)
        /\ \/ /\ t.kind = "->" /\ t.to = t.from + 2
              /\ Is(t.from, {"-"}) /\ Is(t.from + 1, {">"})
           \/ t.kind = "::" /\ t.to = t.from + 2 /\ Opens(t.from) /\ Is(t.from + 1, {":"})
           \/ t.kind = ":"  /\ t.to = t.from + 1 /\ Opens(t.from) /\ ~Is(t.from + 1, {":"})
           \/ t.kind = ">"  /\ t.to = t.from + 1 /\ Is(t.from, {">"}) /\ ~Is(t.from - 1, {"-"})
           \/ t.kind \in Singles \ {":", ">"} /\ t.to = t.from + 1 /\ Is(t.from, {t.kind})

LexemesAt(p) ==
  {t \in [kind : Kinds \cap {"Ident", "IntLit", "->", "::", text[p + 1]},
          from : {p}, to : p + 1 .. Len(text)] : IsLexeme(t)}
Pending ==
  UNION {LexemesAt(p) : p \in {q \in 0 .. Len(text) - 1 :
                                \A k \in DOMAIN emitted : emitted[k].to <= q}}

TooBig(t) == t.kind = "IntLit" /\ NumberValue(SubSeq(text, t.from + 1, t.to)) > MaxI64

-----------------------------------------------------------------------------
Init == emitted = << >> /\ outcome = "lexing"

\* The next lexeme is yielded, unless it is a number beyond i64.
Emit ==
  /\ outcome = "lexing"
  /\ \E t \in Pending :
       /\ \A u \in Pending : t.from <= u.from
       /\ \/ ~TooBig(t) /\ emitted' = Append(emitted, t) /\ outcome' = outcome
          \/ TooBig(t) /\ emitted' = emitted /\ outcome' = "panicked"
  /\ text' = text

End ==
  /\ outcome = "lexing" /\ Pending = {}
  /\ emitted' = Append(emitted, Token("Eof", Len(text), Len(text)))
  /\ outcome' = "done"
  /\ text' = text

Spec == Init /\ [][Emit \/ End]_<<text, emitted, outcome>>
=============================================================================
