-------------------------- MODULE ToyLexer_proofs --------------------------
(***************************************************************************)
(* Proofs about the lexer, for texts of any length over any alphabet: it    *)
(* implements ToyLexemes.                                                   *)
(***************************************************************************)
EXTENDS ToyLexer, TLAPS, WellFoundedInduction

\* A set of naturals that is not empty has a first element.
LEMMA FirstOf ==
  ASSUME NEW S, S \subseteq Nat, S # {}
  PROVE  \E p \in S : \A o \in S : p <= o
<1> DEFINE R == OpToRel(<, Nat)
<1>1. \A x, y \in Nat : x < y => <<x, y>> \in R
  BY DEF OpToRel
<1>2. IsWellFoundedOn(R, Nat)
  BY NatLessThanWellFounded
<1> HIDE DEF R
<1>3. PICK p \in S : \A o \in S : ~(<<o, p>> \in R)
  BY <1>2, WFMin
<1>4. \A o \in S : ~(o < p)
  BY <1>1, <1>3
<1> QED BY <1>4

LEMMA ElementOf ==
  ASSUME NEW S, NEW q \in Seq(S), NEW k \in DOMAIN q
  PROVE  q[k] \in S
OBVIOUS

-----------------------------------------------------------------------------
(* Runs of characters.                                                      *)

\* A run ends in the text, behind characters of S and before another one.
LEMMA RunEnds ==
  ASSUME src \in Seq(Char), i \in 0 .. Len(src), NEW S
  PROVE  /\ RunEnd(S) \in i .. Len(src)
         /\ \A p \in i .. RunEnd(S) - 1 : In(p, S)
         /\ ~In(RunEnd(S), S)
<1> DEFINE Others == {p \in i .. Len(src) : ~In(p, S)}
<1>1. Len(src) \in Nat
  OBVIOUS
<1>2. Others \subseteq Nat /\ Len(src) \in Others
  BY <1>1 DEF In
<1> HIDE DEF Others
<1>3. PICK j \in Others : \A p \in Others : j <= p
  BY <1>2, FirstOf
<1> USE DEF Others
<1>4. j \in i .. Len(src) /\ ~In(j, S)
  BY <1>3
<1>5. ASSUME NEW p \in i .. j - 1 PROVE In(p, S)
  <2>1. p \in i .. Len(src) /\ ~(j <= p)
    BY <1>1, <1>4, <1>5
  <2> QED BY <1>3, <2>1
<1>6. \E e \in i .. Len(src) : (\A p \in i .. e - 1 : In(p, S)) /\ ~In(e, S)
  BY <1>4, <1>5
<1> QED BY <1>6 DEF RunEnd

-----------------------------------------------------------------------------
(* The definitions of ToyLexemes, for the text of the lexer.                *)

LEMMA CommentView ==
  ASSUME NEW p
  PROVE  Lexemes!InComment(p) <=>
           \E q \in 0 .. p : /\ In(q, {"/"}) /\ In(q + 1, {"/"})
                             /\ \A k \in q .. p : In(k, Char \ {Newline})
BY DEF Lexemes!InComment, Lexemes!Is, In, Newline, Lexemes!Newline

LEMMA WordView ==
  ASSUME NEW p
  PROVE  Lexemes!InWord(p) <=>
           /\ ~Lexemes!InComment(p)
           /\ \E q \in 0 .. p : In(q, Letters) /\ \A k \in q .. p : In(k, WordChars)
BY DEF Lexemes!InWord, Lexemes!Is, In, WordChars, Lexemes!WordChars, Digits, Lexemes!Digits

LEMMA NumberView ==
  ASSUME NEW p
  PROVE  Lexemes!InNumber(p) <=>
           In(p, Digits) /\ ~Lexemes!InComment(p) /\ ~Lexemes!InWord(p)
BY DEF Lexemes!InNumber, Lexemes!Is, In, Digits, Lexemes!Digits

LEMMA OpensView ==
  ASSUME NEW p
  PROVE  Lexemes!Opens(p) <=>
           \E q \in 0 .. p : /\ \A k \in q .. p : In(k, {":"})
                             /\ ~In(q - 1, {":"}) /\ (p - q) % 2 = 0
BY DEF Lexemes!Opens, Lexemes!Colons, Lexemes!Is, In

LEMMA LexemeView ==
  ASSUME NEW t
  PROVE  Lexemes!IsLexeme(t) <=>
    /\ t.from < t.to
    /\ \/ /\ t.kind = "Ident"
          /\ \A p \in t.from .. t.to - 1 : Lexemes!InWord(p)
          /\ ~Lexemes!InWord(t.from - 1) /\ ~Lexemes!InWord(t.to)
       \/ /\ t.kind = "IntLit"
          /\ \A p \in t.from .. t.to - 1 : Lexemes!InNumber(p)
          /\ ~Lexemes!InNumber(t.from - 1) /\ ~Lexemes!InNumber(t.to)
       \/ /\ ~Lexemes!InComment(t.from)
          /\ \/ /\ t.kind = "->" /\ t.to = t.from + 2
                /\ In(t.from, {"-"}) /\ In(t.from + 1, {">"})
             \/ /\ t.kind = "::" /\ t.to = t.from + 2
                /\ Lexemes!Opens(t.from) /\ In(t.from + 1, {":"})
             \/ /\ t.kind = ":" /\ t.to = t.from + 1
                /\ Lexemes!Opens(t.from) /\ ~In(t.from + 1, {":"})
             \/ /\ t.kind = ">" /\ t.to = t.from + 1
                /\ In(t.from, {">"}) /\ ~In(t.from - 1, {"-"})
             \/ /\ t.kind \in Singles \ {":", ">"} /\ t.to = t.from + 1
                /\ In(t.from, {t.kind})
BY DEF Lexemes!IsLexeme, Lexemes!Maximal, Lexemes!Is, In, Singles, Lexemes!Singles

LEMMA LexemesAtView ==
  ASSUME NEW p
  PROVE  Lexemes!LexemesAt(p) =
           {t \in [kind : Kinds \cap {"Ident", "IntLit", "->", "::", src[p + 1]},
                   from : {p}, to : p + 1 .. Len(src)] : Lexemes!IsLexeme(t)}
BY DEF Lexemes!LexemesAt, Lexemes!Kinds, Kinds, Lexemes!Singles, Singles

LEMMA TooBigView ==
  ASSUME NEW t
  PROVE  Lexemes!TooBig(t) <=>
           t.kind = "IntLit" /\ NumberValue(SubSeq(src, t.from + 1, t.to)) > MaxI64
BY DEF Lexemes!TooBig, Lexemes!NumberValue, NumberValue, Lexemes!DigitValue, DigitValue,
       Lexemes!MapThenFoldSet, MapThenFoldSet

-----------------------------------------------------------------------------
(* Boundaries of lexemes.                                                   *)

\* Position p is not in the middle of a comment, a word, a number or a pair.
Boundary(p) ==
  /\ Lexemes!InComment(p) => ~Lexemes!InComment(p - 1)
  /\ Lexemes!InWord(p) => ~Lexemes!InWord(p - 1)
  /\ Lexemes!InNumber(p) => ~Lexemes!InNumber(p - 1)
  /\ In(p, {":"}) => Lexemes!Opens(p)
  /\ In(p, {">"}) => ~In(p - 1, {"-"})

\* A comment that contains a boundary starts there.
LEMMA CommentStarts ==
  ASSUME NEW p \in Nat, Boundary(p), Lexemes!InComment(p)
  PROVE  In(p, {"/"}) /\ In(p + 1, {"/"})
<1>1. PICK q \in 0 .. p : /\ In(q, {"/"}) /\ In(q + 1, {"/"})
                          /\ \A k \in q .. p : In(k, Char \ {Newline})
  BY CommentView
<1>2. CASE q = p
  BY <1>1, <1>2
<1>3. CASE q # p
  <2>1. q \in 0 .. p - 1
    BY <1>3
  <2>2. \A k \in q .. p - 1 : In(k, Char \ {Newline})
    BY <1>1, <2>1
  <2>3. Lexemes!InComment(p - 1)
    BY <1>1, <2>1, <2>2, CommentView
  <2> QED BY <2>3 DEF Boundary
<1> QED BY <1>2, <1>3

\* A word that contains a boundary starts there.
LEMMA WordStarts ==
  ASSUME CharAssumption, NEW p \in Nat, Boundary(p), Lexemes!InWord(p)
  PROVE  In(p, Letters)
<1>1. PICK q \in 0 .. p : In(q, Letters) /\ \A k \in q .. p : In(k, WordChars)
  BY WordView
<1>2. CASE q = p
  BY <1>1, <1>2
<1>3. CASE q # p
  <2>1. q \in 0 .. p - 1 /\ p \in q .. p
    BY <1>3
  <2>2. \A k \in q .. p - 1 : In(k, WordChars)
    BY <1>1, <2>1
  <2>3. ~Lexemes!InWord(p - 1)
    BY DEF Boundary
  <2>4. Lexemes!InComment(p - 1)
    BY <1>1, <2>1, <2>2, <2>3, WordView
  <2>5. PICK r \in 0 .. p - 1 : /\ In(r, {"/"}) /\ In(r + 1, {"/"})
                                /\ \A k \in r .. p - 1 : In(k, Char \ {Newline})
    BY <2>4, CommentView
  <2>6. In(p, Char \ {Newline})
    <3>1. In(p, WordChars)
      BY <1>1, <2>1
    <3> QED BY <3>1, CharAssumption DEF CharAssumption, In, WordChars
  <2>7. r \in 0 .. p /\ \A k \in r .. p : k \in r .. p - 1 \/ k = p
    BY <2>1
  <2>8. \A k \in r .. p : In(k, Char \ {Newline})
    BY <2>5, <2>6, <2>7
  <2>9. Lexemes!InComment(p)
    BY <2>5, <2>7, <2>8, CommentView
  <2> QED BY <2>9, WordView
<1> QED BY <1>2, <1>3

\* A lexeme is outside of comments, and its first character tells its kind.
LEMMA LexemeStarts ==
  ASSUME NEW t, t.from \in Nat, t.to \in Nat, Lexemes!IsLexeme(t)
  PROVE  /\ ~Lexemes!InComment(t.from)
         /\ \/ Lexemes!InWord(t.from)
            \/ In(t.from, Digits)
            \/ In(t.from, Singles)
            \/ In(t.from, {"-"}) /\ In(t.from + 1, {">"})
<1>1. t.from \in t.from .. t.to - 1
  <2>1. t.from < t.to
    BY LexemeView
  <2> QED BY <2>1
<1>2. ASSUME Lexemes!Opens(t.from) PROVE In(t.from, {":"})
  <2>1. PICK q \in 0 .. t.from : \A k \in q .. t.from : In(k, {":"})
    BY <1>2, OpensView
  <2> QED BY <2>1
<1>3. CASE t.kind = "Ident" /\ \A p \in t.from .. t.to - 1 : Lexemes!InWord(p)
  BY <1>1, <1>3, WordView
<1>4. CASE t.kind = "IntLit" /\ \A p \in t.from .. t.to - 1 : Lexemes!InNumber(p)
  BY <1>1, <1>4, NumberView
<1>5. CASE /\ ~Lexemes!InComment(t.from)
           /\ \/ In(t.from, {"-"}) /\ In(t.from + 1, {">"})
              \/ Lexemes!Opens(t.from)
              \/ In(t.from, {">"})
              \/ t.kind \in Singles /\ In(t.from, {t.kind})
  BY <1>2, <1>5 DEF In, Singles
<1>6. \/ t.kind = "Ident" /\ \A p \in t.from .. t.to - 1 : Lexemes!InWord(p)
      \/ t.kind = "IntLit" /\ \A p \in t.from .. t.to - 1 : Lexemes!InNumber(p)
      \/ /\ ~Lexemes!InComment(t.from)
         /\ \/ In(t.from, {"-"}) /\ In(t.from + 1, {">"})
            \/ Lexemes!Opens(t.from)
            \/ In(t.from, {">"})
            \/ t.kind \in Singles /\ In(t.from, {t.kind})
  BY LexemeView
<1> QED BY <1>3, <1>4, <1>5, <1>6

\* A character that starts nothing is no lexeme's first one.
LEMMA NoLexeme ==
  ASSUME src \in Seq(Char), NEW p \in Nat,
         \/ Lexemes!InComment(p)
         \/ /\ ~Lexemes!InWord(p) /\ ~In(p, Digits) /\ ~In(p, Singles)
            /\ ~(In(p, {"-"}) /\ In(p + 1, {">"}))
  PROVE  Lexemes!LexemesAt(p) = {}
<1> SUFFICES ASSUME NEW t \in Lexemes!LexemesAt(p) PROVE FALSE
  OBVIOUS
<1>1. t.from = p /\ t.to \in Nat /\ Lexemes!IsLexeme(t)
  BY LexemesAtView
<1>2. /\ ~Lexemes!InComment(p)
      /\ \/ Lexemes!InWord(p) \/ In(p, Digits) \/ In(p, Singles)
         \/ In(p, {"-"}) /\ In(p + 1, {">"})
  BY <1>1, LexemeStarts
<1> QED BY <1>2

\* Outside of a comment, there is none before the next slash.
LEMMA StillNoComment ==
  ASSUME NEW p \in Nat, NEW o \in Nat, p <= o, ~Lexemes!InComment(p),
         \A k \in p + 1 .. o : ~In(k, {"/"})
  PROVE  ~Lexemes!InComment(o)
<1> SUFFICES ASSUME Lexemes!InComment(o) PROVE FALSE
  OBVIOUS
<1>1. PICK q \in 0 .. o : /\ In(q, {"/"}) /\ In(q + 1, {"/"})
                          /\ \A k \in q .. o : In(k, Char \ {Newline})
  BY CommentView
<1>2. q \in 0 .. p
  BY <1>1
<1>3. \A k \in q .. p : k \in q .. o
  BY <1>2
<1>4. \A k \in q .. p : In(k, Char \ {Newline})
  BY <1>1, <1>3
<1> QED BY <1>1, <1>2, <1>4, CommentView

\* A colon after something else opens a pair, if there is one.
LEMMA FirstColonOpens ==
  ASSUME NEW p \in Nat, In(p, {":"}), ~In(p - 1, {":"})
  PROVE  Lexemes!Opens(p)
<1>1. p \in 0 .. p /\ (\A k \in p .. p : k = p) /\ (p - p) % 2 = 0
  OBVIOUS
<1> QED BY <1>1, OpensView

\* A colon behind a pair opens one, if there is one.
LEMMA PairOpens ==
  ASSUME NEW p \in Nat, NEW o \in Nat, o = p + 2, Lexemes!Opens(p),
         In(p + 1, {":"}), In(o, {":"})
  PROVE  Lexemes!Opens(o)
<1>1. PICK q \in 0 .. p : /\ \A k \in q .. p : In(k, {":"})
                          /\ ~In(q - 1, {":"}) /\ (p - q) % 2 = 0
  BY OpensView
<1>2. q \in 0 .. o /\ (o - q) % 2 = 0
  BY <1>1
<1>3. \A k \in q .. o : k \in q .. p \/ k = p + 1 \/ k = o
  BY <1>1
<1>4. \A k \in q .. o : In(k, {":"})
  BY <1>1, <1>3
<1> QED BY <1>1, <1>2, <1>4, OpensView

\* What makes a boundary, by the characters on both sides of it.
LEMMA BoundaryAt ==
  ASSUME NEW p \in Nat,
         ~Lexemes!InComment(p - 1) \/ ~In(p, Char \ {Newline}),
         ~Lexemes!InWord(p - 1) \/ ~In(p, WordChars),
         ~In(p - 1, Digits) \/ ~In(p, Digits),
         In(p, {":"}) => Lexemes!Opens(p),
         In(p, {">"}) => ~In(p - 1, {"-"})
  PROVE  Boundary(p)
<1>1. Lexemes!InComment(p) => In(p, Char \ {Newline})
  <2>1. p \in 0 .. p /\ \A q \in 0 .. p : p \in q .. p
    OBVIOUS
  <2> QED BY <2>1, CommentView
<1>2. Lexemes!InWord(p) => In(p, WordChars)
  <2>1. p \in 0 .. p /\ \A q \in 0 .. p : p \in q .. p
    OBVIOUS
  <2> QED BY <2>1, WordView
<1>3. /\ Lexemes!InNumber(p) => In(p, Digits)
      /\ Lexemes!InNumber(p - 1) => In(p - 1, Digits)
  BY NumberView
<1> QED BY <1>1, <1>2, <1>3 DEF Boundary

-----------------------------------------------------------------------------
(* The inductive invariant: the cursor is at a boundary, and the lexemes     *)
(* that are not behind the last token are not before the cursor either.     *)

Behind(j, toks) == \A k \in DOMAIN toks : toks[k].to <= j

Cursor(j, toks) ==
  /\ Boundary(j)
  /\ Behind(j, toks)
  /\ \A p \in 0 .. j - 1 : Behind(p, toks) => Lexemes!LexemesAt(p) = {}

LInv == TypeOK /\ (status = "lexing" => Cursor(i, tokens))

\* What every step starts from.
Ready == src \in Seq(Char) /\ i \in 0 .. Len(src) /\ Boundary(i)

LEMMA IsReady ==
  ASSUME CharAssumption, LInv, status = "lexing"
  PROVE  Ready
BY DEF CharAssumption, LInv, TypeOK, Cursor, Ready

\* The cursor is outside of comments unless one starts there, and so on.
LEMMA AtCursor ==
  ASSUME CharAssumption, Ready
  PROVE  /\ Lexemes!InComment(i) => AtComment
         /\ Lexemes!InWord(i) => In(i, Letters)
BY CommentStarts, WordStarts DEF Ready, AtComment

-----------------------------------------------------------------------------
(* What each branch passes over: no lexeme, or one.                          *)

LEMMA WhitespacePassed ==
  ASSUME CharAssumption, Ready, In(i, Whitespace)
  PROVE  Lexemes!LexemesAt(i) = {} /\ Boundary(i + 1)
<1>1. i \in Nat /\ i + 1 - 1 = i
  BY DEF Ready
<1>2. /\ ~In(i, WordChars) /\ ~In(i, Letters) /\ ~In(i, Digits) /\ ~In(i, Singles)
      /\ ~In(i, {"-"}) /\ ~In(i, {"/"}) /\ ~In(i, {":"})
  BY CharAssumption DEF CharAssumption, In, WordChars, Singles
<1>3. ~Lexemes!InComment(i) /\ ~Lexemes!InWord(i)
  BY <1>2, AtCursor DEF AtComment
<1>4. Lexemes!LexemesAt(i) = {}
  BY <1>1, <1>2, <1>3, NoLexeme DEF Ready
<1>5. In(i + 1, {":"}) => Lexemes!Opens(i + 1)
  BY <1>1, <1>2, FirstColonOpens
<1> QED BY <1>1, <1>2, <1>3, <1>4, <1>5, BoundaryAt

LEMMA UnknownPassed ==
  ASSUME CharAssumption, Ready, ~AtComment,
         In(i, Char \ (Whitespace \cup Digits \cup Singles \cup Letters)),
         ~(In(i, {"-"}) /\ In(i + 1, {">"}))
  PROVE  Lexemes!LexemesAt(i) = {} /\ Boundary(i + 1)
<1>1. i \in Nat /\ i + 1 - 1 = i
  BY DEF Ready
<1>2. ~In(i, Letters) /\ ~In(i, Digits) /\ ~In(i, Singles) /\ ~In(i, {":"})
  BY DEF In, Singles
<1>3. ~Lexemes!InComment(i) /\ ~Lexemes!InWord(i)
  BY <1>2, AtCursor
<1>4. Lexemes!LexemesAt(i) = {}
  BY <1>1, <1>2, <1>3, NoLexeme DEF Ready
<1>5. In(i + 1, {":"}) => Lexemes!Opens(i + 1)
  BY <1>1, <1>2, FirstColonOpens
<1> QED BY <1>1, <1>2, <1>3, <1>4, <1>5, BoundaryAt

LEMMA CommentPassed ==
  ASSUME CharAssumption, Ready, AtComment, NEW j \in i .. Len(src),
         \A p \in i .. j - 1 : In(p, Char \ {Newline}), ~In(j, Char \ {Newline})
  PROVE  (\A p \in i .. j - 1 : Lexemes!LexemesAt(p) = {}) /\ Boundary(j)
<1>1. i \in Nat /\ j \in Nat /\ Len(src) \in Nat
  BY DEF Ready
<1>2. ASSUME NEW p \in i .. j - 1 PROVE Lexemes!LexemesAt(p) = {}
  <2>1. p \in Nat /\ i \in 0 .. p /\ \A k \in i .. p : k \in i .. j - 1
    BY <1>1
  <2>2. Lexemes!InComment(p)
    BY <2>1, CommentView DEF AtComment
  <2> QED BY <2>1, <2>2, NoLexeme DEF Ready
<1>3. ~In(j, WordChars) /\ ~In(j, Digits) /\ ~In(j, {":"}) /\ ~In(j, {">"})
  <2>1. ":" \in Singles /\ ">" \in Singles
    BY DEF Singles
  <2>2. /\ WordChars \subseteq Char /\ Digits \subseteq WordChars /\ Singles \subseteq Char
        /\ Newline \notin WordChars /\ Newline \notin Singles
    BY CharAssumption DEF CharAssumption, WordChars
  <2>3. \A S : In(j, S) => ~(S \subseteq Char \ {Newline})
    BY DEF In
  <2>4. /\ WordChars \subseteq Char \ {Newline} /\ Digits \subseteq Char \ {Newline}
        /\ {":"} \subseteq Char \ {Newline} /\ {">"} \subseteq Char \ {Newline}
    BY <2>1, <2>2
  <2> QED BY <2>3, <2>4
<1> QED BY <1>1, <1>2, <1>3, BoundaryAt

\* The lexeme t is the one at the cursor, and ends at a boundary.
Found(t) ==
  /\ t \in Lexemes!LexemesAt(i)
  /\ t.to \in i + 1 .. Len(src)
  /\ Boundary(t.to)

\* A token at the cursor is found if it is a lexeme and ends at a boundary.
LEMMA Finds ==
  ASSUME Ready, NEW kind \in Kinds \cap {"Ident", "IntLit", "->", "::", src[i + 1]},
         NEW j \in i + 1 .. Len(src), Lexemes!IsLexeme(Token(kind, i, j)), Boundary(j)
  PROVE  Found(Token(kind, i, j))
<1> DEFINE t == Token(kind, i, j)
<1>1. /\ t \in [kind : Kinds \cap {"Ident", "IntLit", "->", "::", src[i + 1]},
                from : {i}, to : i + 1 .. Len(src)]
      /\ t.to = j
  BY DEF Token
<1> HIDE DEF t
<1>2. t \in Lexemes!LexemesAt(i)
  BY <1>1, LexemesAtView DEF t
<1> QED BY <1>1, <1>2 DEF Found, t

LEMMA ArrowFound ==
  ASSUME CharAssumption, Ready, In(i, {"-"}), In(i + 1, {">"})
  PROVE  Found(Token("->", i, i + 2))
<1>1. /\ i \in Nat /\ i + 2 \in i + 1 .. Len(src) /\ i + 2 - 1 = i + 1 /\ i < i + 2
      /\ i + 1 - 1 = i
  BY DEF Ready, In
<1>2. /\ ~In(i, {"/"}) /\ ~In(i, Letters)
      /\ ~In(i + 1, {"/"}) /\ ~In(i + 1, WordChars) /\ ~In(i + 1, Digits)
      /\ ~In(i + 1, {":"}) /\ ~In(i + 1, {"-"})
  BY CharAssumption DEF CharAssumption, In, WordChars, Digits, Singles
<1>3. ~Lexemes!InComment(i)
  BY <1>2, AtCursor DEF AtComment
<1>4. ~Lexemes!InComment(i + 1)
  <2>1. \A k \in i + 1 .. i + 1 : k = i + 1
    BY <1>1
  <2> QED BY <1>1, <1>2, <1>3, <2>1, StillNoComment
<1>5. ~Lexemes!InWord(i + 1)
  <2>1. i + 1 \in 0 .. i + 1 /\ \A q \in 0 .. i + 1 : i + 1 \in q .. i + 1
    BY <1>1
  <2> QED BY <1>2, <2>1, WordView
<1>6. In(i + 2, {":"}) => Lexemes!Opens(i + 2)
  BY <1>1, <1>2, FirstColonOpens
<1>7. Boundary(i + 2)
  BY <1>1, <1>2, <1>4, <1>5, <1>6, BoundaryAt
<1> DEFINE t == Token("->", i, i + 2)
<1>8. t.from = i /\ t.to = i + 2 /\ t.kind = "->"
  BY DEF Token
<1> HIDE DEF t
<1>9. Lexemes!IsLexeme(t)
  BY <1>1, <1>3, <1>8, LexemeView
<1> QED BY <1>1, <1>7, <1>9, Finds DEF t, Kinds

LEMMA PairFound ==
  ASSUME CharAssumption, Ready, AtDoubleColon
  PROVE  Found(Token("::", i, i + 2))
<1>1. /\ i \in Nat /\ i + 2 \in i + 1 .. Len(src) /\ i + 2 - 1 = i + 1 /\ i < i + 2
      /\ i + 1 - 1 = i
  BY DEF Ready, In, AtDoubleColon
<1>2. /\ ~In(i, {"/"}) /\ ~In(i, Letters)
      /\ ~In(i + 1, {"/"}) /\ ~In(i + 1, WordChars) /\ ~In(i + 1, Digits)
      /\ ~In(i + 1, {"-"})
  BY CharAssumption DEF CharAssumption, In, WordChars, Digits, Singles, AtDoubleColon
<1>3. ~Lexemes!InComment(i)
  BY <1>2, AtCursor DEF AtComment
<1>4. ~Lexemes!InComment(i + 1)
  <2>1. \A k \in i + 1 .. i + 1 : k = i + 1
    BY <1>1
  <2> QED BY <1>1, <1>2, <1>3, <2>1, StillNoComment
<1>5. ~Lexemes!InWord(i + 1)
  <2>1. i + 1 \in 0 .. i + 1 /\ \A q \in 0 .. i + 1 : i + 1 \in q .. i + 1
    BY <1>1
  <2> QED BY <1>2, <2>1, WordView
<1>6. Lexemes!Opens(i)
  BY DEF Ready, Boundary, AtDoubleColon
<1>7. ASSUME In(i + 2, {":"}) PROVE Lexemes!Opens(i + 2)
  BY <1>1, <1>6, <1>7, PairOpens DEF AtDoubleColon
<1>8. Boundary(i + 2)
  BY <1>1, <1>2, <1>4, <1>5, <1>7, BoundaryAt
<1> DEFINE t == Token("::", i, i + 2)
<1>9. t.from = i /\ t.to = i + 2 /\ t.kind = "::"
  BY DEF Token
<1> HIDE DEF t
<1>10. Lexemes!IsLexeme(t)
  BY <1>1, <1>3, <1>6, <1>9, LexemeView DEF AtDoubleColon
<1> QED BY <1>1, <1>8, <1>10, Finds DEF t, Kinds

LEMMA SingleFound ==
  ASSUME CharAssumption, Ready, In(i, Singles), ~AtDoubleColon
  PROVE  Found(Token(src[i + 1], i, i + 1))
<1>1. /\ i \in Nat /\ i + 1 \in i + 1 .. Len(src) /\ i + 1 - 1 = i /\ i < i + 1
      /\ src[i + 1] \in Singles
  BY DEF Ready, In
<1>2. /\ ~In(i, {"/"}) /\ ~In(i, Letters) /\ ~In(i, WordChars) /\ ~In(i, Digits)
      /\ ~In(i, {"-"})
  BY CharAssumption DEF CharAssumption, In, WordChars, Digits, Singles
<1>3. ~Lexemes!InComment(i) /\ ~Lexemes!InWord(i)
  BY <1>2, AtCursor DEF AtComment
<1>4. ASSUME In(i + 1, {":"}) PROVE Lexemes!Opens(i + 1)
  <2>1. ~In(i, {":"})
    BY <1>4 DEF AtDoubleColon
  <2> QED BY <1>1, <1>4, <2>1, FirstColonOpens
<1>5. Boundary(i + 1)
  BY <1>1, <1>2, <1>3, <1>4, BoundaryAt
<1> DEFINE t == Token(src[i + 1], i, i + 1)
<1>6. t.from = i /\ t.to = i + 1 /\ t.kind = src[i + 1]
  BY DEF Token
<1> HIDE DEF t
<1>7. In(i, {t.kind})
  BY <1>6 DEF In, Ready
<1>8. /\ t.kind = ":" => Lexemes!Opens(i) /\ ~In(i + 1, {":"})
      /\ t.kind = ">" => In(i, {">"}) /\ ~In(i - 1, {"-"})
  BY <1>7 DEF Ready, Boundary, AtDoubleColon
<1>9. t.kind = ":" \/ t.kind = ">" \/ t.kind \in Singles \ {":", ">"}
  BY <1>1, <1>6
<1>10. Lexemes!IsLexeme(t)
  BY <1>1, <1>3, <1>6, <1>7, <1>8, <1>9, LexemeView
<1>11. src[i + 1] \in Kinds \cap {"Ident", "IntLit", "->", "::", src[i + 1]}
  BY <1>1 DEF Kinds
<1> QED BY <1>1, <1>5, <1>10, <1>11, Finds DEF t

LEMMA WordFound ==
  ASSUME CharAssumption, Ready, In(i, Letters), NEW j \in i .. Len(src),
         \A p \in i .. j - 1 : In(p, WordChars), ~In(j, WordChars)
  PROVE  Found(Token("Ident", i, j))
<1>1. /\ ~In(i, {"/"})
      /\ In(i, WordChars) /\ ~In(j, Digits)
      /\ \A p \in i .. j - 1 : ~In(p, {"/"}) /\ ~In(p, {":"}) /\ ~In(p, {"-"})
  BY CharAssumption DEF CharAssumption, In, WordChars, Digits, Singles
<1>2. i \in Nat /\ j \in i + 1 .. Len(src) /\ j - 1 \in i .. j - 1 /\ j - 1 \in Nat
  <2>1. i \in Nat /\ j \in Nat /\ i # j
    BY <1>1 DEF Ready
  <2> QED BY <2>1
<1>3. ASSUME NEW p \in i .. j - 1 PROVE Lexemes!InWord(p)
  <2>1. ~Lexemes!InComment(i)
    BY <1>1, AtCursor DEF AtComment
  <2>2. p \in Nat /\ i <= p /\ i \in 0 .. p
    BY <1>2
  <2>3. \A k \in i .. p : k \in i .. j - 1
    BY <1>2
  <2>4. \A k \in i + 1 .. p : k \in i .. j - 1
    BY <1>2
  <2>5. ~Lexemes!InComment(p)
    BY <1>1, <1>2, <2>1, <2>2, <2>4, StillNoComment
  <2> QED BY <2>2, <2>3, <2>5, WordView
<1>4. ~Lexemes!InWord(i - 1)
  <2>1. i \in i .. j - 1
    BY <1>2
  <2> QED BY <1>3, <2>1 DEF Ready, Boundary
<1>5. ~Lexemes!InWord(j)
  <2>1. \A q \in 0 .. j : j \in q .. j
    BY <1>2
  <2> QED BY <2>1, WordView
<1>6. Lexemes!InWord(j - 1)
  BY <1>2, <1>3
<1>7. Boundary(j)
  <2>1. j \in Nat /\ ~Lexemes!InComment(j - 1)
    BY <1>2, <1>6, WordView
  <2>2. In(j, {":"}) => Lexemes!Opens(j)
    BY <1>1, <1>2, <2>1, FirstColonOpens
  <2>3. In(j, {">"}) => ~In(j - 1, {"-"})
    BY <1>1, <1>2
  <2> QED BY <1>1, <2>1, <2>2, <2>3, BoundaryAt
<1> DEFINE t == Token("Ident", i, j)
<1>8. t.from = i /\ t.to = j /\ t.kind = "Ident"
  BY DEF Token
<1> HIDE DEF t
<1>9. i < j
  BY <1>2
<1>10. Lexemes!IsLexeme(t)
  BY <1>3, <1>4, <1>5, <1>8, <1>9, LexemeView
<1> QED BY <1>2, <1>7, <1>10, Finds DEF t, Kinds

LEMMA NumberFound ==
  ASSUME CharAssumption, Ready, In(i, Digits), NEW j \in i .. Len(src),
         \A p \in i .. j - 1 : In(p, Digits), ~In(j, Digits)
  PROVE  Found(Token("IntLit", i, j))
<1>1. /\ ~In(i, {"/"}) /\ ~In(i, Letters)
      /\ \A p \in i .. j - 1 : /\ ~In(p, {"/"}) /\ ~In(p, {":"}) /\ ~In(p, {"-"})
                               /\ ~In(p, Letters)
  BY CharAssumption DEF CharAssumption, In, Digits
<1>2. i \in Nat /\ j \in i + 1 .. Len(src) /\ j - 1 \in i .. j - 1 /\ j - 1 \in Nat
  <2>1. i \in Nat /\ j \in Nat /\ i # j
    BY DEF Ready
  <2> QED BY <2>1
<1>3. ~Lexemes!InComment(i) /\ ~Lexemes!InWord(i)
  BY <1>1, AtCursor DEF AtComment
<1>4. ASSUME NEW p \in i .. j - 1 PROVE Lexemes!InNumber(p)
  <2>1. p \in Nat /\ i <= p
    BY <1>2
  <2>2. \A k \in i + 1 .. p : k \in i .. j - 1
    BY <1>2
  <2>3. ~Lexemes!InComment(p)
    BY <1>1, <1>2, <1>3, <2>1, <2>2, StillNoComment
  <2>4. ~Lexemes!InWord(p)
    <3> SUFFICES ASSUME NEW q \in 0 .. p, In(q, Letters), \A k \in q .. p : In(k, WordChars)
                 PROVE  FALSE
      BY WordView
    <3>1. q \notin i .. j - 1
      BY <1>1
    <3>2. q \in 0 .. i /\ \A k \in q .. i : k \in q .. p
      BY <1>2, <2>1, <3>1
    <3> QED BY <1>3, <3>2, WordView
  <2> QED BY <2>3, <2>4, NumberView
<1>5. ~Lexemes!InNumber(i - 1)
  <2>1. i \in i .. j - 1
    BY <1>2
  <2> QED BY <1>4, <2>1 DEF Ready, Boundary
<1>6. ~Lexemes!InNumber(j)
  BY NumberView
<1>7. Lexemes!InNumber(j - 1)
  BY <1>2, <1>4
<1>8. Boundary(j)
  <2>1. j \in Nat /\ ~Lexemes!InComment(j - 1) /\ ~Lexemes!InWord(j - 1)
    BY <1>2, <1>7, NumberView
  <2>2. In(j, {":"}) => Lexemes!Opens(j)
    BY <1>1, <1>2, <2>1, FirstColonOpens
  <2>3. In(j, {">"}) => ~In(j - 1, {"-"})
    BY <1>1, <1>2
  <2> QED BY <1>1, <2>1, <2>2, <2>3, BoundaryAt
<1> DEFINE t == Token("IntLit", i, j)
<1>9. t.from = i /\ t.to = j /\ t.kind = "IntLit"
  BY DEF Token
<1> HIDE DEF t
<1>10. i < j
  BY <1>2
<1>11. Lexemes!IsLexeme(t)
  BY <1>4, <1>5, <1>6, <1>9, <1>10, LexemeView
<1> QED BY <1>2, <1>8, <1>11, Finds DEF t, Kinds

-----------------------------------------------------------------------------
(* Steps.                                                                   *)

\* What is said of a position depends on the text only.
LEMMA SameText ==
  ASSUME src' = src, NEW CONSTANT j, NEW CONSTANT toks
  PROVE  Cursor(j, toks)' <=> Cursor(j, toks)
BY DEF Cursor, Boundary, Behind, In, Lexemes!LexemesAt, Lexemes!IsLexeme, Lexemes!Maximal,
       Lexemes!InComment, Lexemes!InWord, Lexemes!InNumber, Lexemes!Opens, Lexemes!Colons,
       Lexemes!Is

LEMMA PendingView ==
  ASSUME NEW t
  PROVE  t \in Lexemes!Pending <=>
           \E p \in 0 .. Len(src) - 1 : Behind(p, tokens) /\ t \in Lexemes!LexemesAt(p)
BY DEF Lexemes!Pending, Behind

\* The lexeme that is found is the next one to be yielded.
LEMMA FoundIsNext ==
  ASSUME LInv, status = "lexing", NEW t, Found(t)
  PROVE  t \in Lexemes!Pending /\ \A u \in Lexemes!Pending : t.from <= u.from
<1>1. i \in 0 .. Len(src) - 1
  BY DEF Found, LInv, TypeOK
<1>2. t \in Lexemes!Pending
  BY <1>1, PendingView DEF Found, LInv, Cursor
<1>3. ASSUME NEW u \in Lexemes!Pending PROVE t.from <= u.from
  <2>1. PICK p \in 0 .. Len(src) - 1 : Behind(p, tokens) /\ u \in Lexemes!LexemesAt(p)
    BY PendingView
  <2>2. t.from = i /\ u.from = p
    BY <2>1, LexemesAtView DEF Found
  <2>3. p \notin 0 .. i - 1
    BY <2>1 DEF LInv, Cursor
  <2> QED BY <1>1, <2>2, <2>3
<1> QED BY <1>2, <1>3

\* At the end of the text nothing is left to be yielded.
LEMMA NothingLeft ==
  ASSUME LInv, status = "lexing", i = Len(src)
  PROVE  Lexemes!Pending = {}
<1> SUFFICES ASSUME NEW u \in Lexemes!Pending PROVE FALSE
  OBVIOUS
<1>1. PICK p \in 0 .. Len(src) - 1 : Behind(p, tokens) /\ u \in Lexemes!LexemesAt(p)
  BY PendingView
<1> QED BY <1>1 DEF LInv, Cursor

\* Every token so far lies before the cursor.
LEMMA TokensBehind ==
  ASSUME LInv, status = "lexing", NEW k \in DOMAIN tokens
  PROVE  tokens[k].to \in Nat /\ tokens[k].to <= i
<1>1. tokens \in Seq([kind : Kinds, from : Nat, to : Nat])
  BY DEF LInv, TypeOK
<1>2. tokens[k] \in [kind : Kinds, from : Nat, to : Nat]
  BY <1>1, ElementOf
<1> QED BY <1>2 DEF LInv, Cursor, Behind

\* Passing over characters that are no lexemes.
LEMMA Skips ==
  ASSUME LInv, NEW CONSTANT j, j \in i .. Len(src), Skip(j), Boundary(j),
         \A p \in i .. j - 1 : Lexemes!LexemesAt(p) = {}
  PROVE  LInv' /\ UNCHANGED <<src, tokens, status>>
<1>1. i \in 0 .. Len(src) /\ status = "lexing"
  BY DEF LInv, TypeOK, Skip
<1>2. /\ j \in 0 .. Len(src)
      /\ \A p \in 0 .. j - 1 : p \in 0 .. i - 1 \/ p \in i .. j - 1
  BY <1>1
<1>3. Behind(j, tokens)
  <2>1. ASSUME NEW k \in DOMAIN tokens PROVE tokens[k].to <= j
    <3>1. tokens[k].to \in Nat /\ tokens[k].to <= i
      BY <1>1, TokensBehind
    <3> QED BY <1>1, <3>1
  <2> QED BY <2>1 DEF Behind
<1>4. Cursor(j, tokens)
  BY <1>1, <1>2, <1>3 DEF LInv, Cursor
<1>5. PICK toks : toks = tokens
  OBVIOUS
<1>6. Cursor(j, toks)'
  BY <1>4, <1>5, SameText DEF Skip
<1>7. i' = j /\ tokens' = toks /\ UNCHANGED <<src, tokens, status>>
  BY <1>5 DEF Skip
<1>8. Cursor(i, tokens)'
  BY <1>6, <1>7 DEF Cursor, Behind
<1>9. TypeOK'
  BY <1>2, <1>7 DEF LInv, TypeOK
<1> QED BY <1>7, <1>8, <1>9 DEF LInv

\* Yielding the lexeme at the cursor.
LEMMA Pushes ==
  ASSUME CharAssumption, LInv, NEW CONSTANT kind, NEW CONSTANT j, Push(kind, j),
         Found(Token(kind, i, j)), ~Lexemes!TooBig(Token(kind, i, j))
  PROVE  LInv' /\ Lexemes!Emit
<1>1. PICK t : t = Token(kind, i, j)
  OBVIOUS
<1>2. /\ t.from = i /\ t.to = j /\ t \in [kind : Kinds, from : Nat, to : Nat]
      /\ j \in i + 1 .. Len(src) /\ i \in 0 .. Len(src) /\ status = "lexing" /\ Boundary(j)
  <2>1. t.from = i /\ t.to = j /\ t.kind = kind
    BY <1>1 DEF Token
  <2>2. /\ j \in i + 1 .. Len(src) /\ i \in 0 .. Len(src) /\ status = "lexing" /\ Boundary(j)
    BY <1>1, <2>1 DEF Found, LInv, TypeOK, Push
  <2>3. t \in [kind : Kinds, from : Nat, to : Nat]
    BY <1>1, <2>1, <2>2, LexemesAtView DEF Found
  <2> QED BY <2>1, <2>2, <2>3
<1>3. /\ tokens' = Append(tokens, t) /\ i' = j /\ src' = src /\ status' = status
  BY <1>1 DEF Push
<1>4. Lexemes!Emit
  BY <1>1, <1>2, <1>3, FoundIsNext DEF Lexemes!Emit
<1>5. PICK toks : toks = Append(tokens, t)
  OBVIOUS
<1>6. tokens \in Seq([kind : Kinds, from : Nat, to : Nat])
  BY DEF LInv, TypeOK
<1>7. Behind(j, toks)
  <2>1. ASSUME NEW k \in DOMAIN toks PROVE toks[k].to <= j
    <3>1. (k \in DOMAIN tokens /\ toks[k] = tokens[k]) \/ toks[k] = t
      <4>1. PICK n \in Nat : n = Len(tokens) /\ DOMAIN tokens = 1 .. n
        BY <1>6
      <4>2. /\ DOMAIN toks = 1 .. n + 1 /\ toks[n + 1] = t
            /\ \A m \in 1 .. n : toks[m] = tokens[m]
        BY <1>2, <1>5, <1>6, <4>1
      <4>3. k \in 1 .. n \/ k = n + 1
        BY <4>1, <4>2
      <4> QED BY <4>1, <4>2, <4>3
    <3>2. ASSUME k \in DOMAIN tokens PROVE tokens[k].to \in Nat /\ tokens[k].to <= i
      BY <1>2, <3>2, TokensBehind
    <3> QED BY <1>2, <3>1, <3>2
  <2> QED BY <2>1 DEF Behind
<1>8. ASSUME NEW p \in 0 .. j - 1 PROVE ~Behind(p, toks)
  <2>1. Len(tokens) + 1 \in DOMAIN toks /\ toks[Len(tokens) + 1] = t
    BY <1>2, <1>5, <1>6
  <2>2. ~(t.to <= p)
    BY <1>2
  <2> QED BY <2>1, <2>2 DEF Behind
<1>9. Cursor(j, toks)
  BY <1>2, <1>7, <1>8 DEF Cursor
<1>10. Cursor(j, toks)'
  BY <1>3, <1>9, SameText
<1>11. Cursor(i, tokens)'
  BY <1>3, <1>5, <1>10 DEF Cursor, Behind
<1>12. TypeOK'
  BY <1>2, <1>3, <1>6 DEF LInv, TypeOK
<1> QED BY <1>4, <1>11, <1>12 DEF LInv

LEMMA Begins ==
  ASSUME CharAssumption, Init
  PROVE  LInv /\ Lexemes!Init
<1>1. src \in Seq(Char) /\ Len(src) \in Nat /\ i = 0 /\ tokens = << >> /\ status = "lexing"
  BY DEF Init, CharAssumption
<1>2. Boundary(0)
  <2>1. ~Lexemes!InComment(0 - 1) /\ ~Lexemes!InWord(0 - 1)
    BY CommentView, WordView
  <2>2. \A S : ~In(0 - 1, S)
    BY <1>1 DEF In
  <2>3. In(0, {":"}) => Lexemes!Opens(0)
    BY <2>2, FirstColonOpens
  <2> QED BY <2>1, <2>2, <2>3, BoundaryAt
<1>3. Cursor(0, << >>)
  BY <1>2 DEF Cursor, Behind
<1>4. TypeOK
  BY <1>1 DEF Init, TypeOK
<1>5. Lexemes!Init
  BY <1>1 DEF Lexemes!Init
<1> QED BY <1>1, <1>3, <1>4, <1>5 DEF LInv

\* Each step keeps the invariant and yields the next lexeme or nothing.
LEMMA Step ==
  ASSUME CharAssumption, LInv, [Next]_vars
  PROVE  LInv' /\ [Lexemes!Emit \/ Lexemes!End]_<<src, tokens, status>>
<1> DEFINE Yields == [Lexemes!Emit \/ Lexemes!End]_<<src, tokens, status>>
<1>1. CASE status # "lexing" \/ UNCHANGED vars
  <2>1. UNCHANGED vars
    BY <1>1 DEF Next, vars, SkipWhitespace, SkipComment, SkipUnknown, PushArrow,
       PushDoubleColon, PushIntLit, PushSingle, PushIdent, PushEof, Panic, Skip, Push
  <2>2. PICK j, toks : j = i /\ toks = tokens
    OBVIOUS
  <2>3. status = "lexing" => Cursor(j, toks)
    BY <2>2 DEF LInv
  <2>4. status = "lexing" => Cursor(j, toks)'
    BY <2>1, <2>3, SameText DEF vars
  <2>5. status' = "lexing" => Cursor(i, tokens)'
    BY <2>1, <2>2, <2>4 DEF vars, Cursor, Behind
  <2>6. TypeOK'
    BY <2>1 DEF vars, LInv, TypeOK
  <2> QED BY <2>1, <2>5, <2>6 DEF vars, LInv
<1>2. CASE status = "lexing" /\ Next
  <2>1. Ready /\ src \in Seq(Char) /\ i \in 0 .. Len(src) /\ Len(src) \in Nat
    BY <1>2, IsReady DEF Ready
  <2>2. ASSUME SkipWhitespace PROVE LInv' /\ Yields
    <3>1. PICK j : j = i + 1
      OBVIOUS
    <3>2. /\ j \in i .. Len(src) /\ \A p \in i .. j - 1 : p = i
      BY <2>1, <2>2, <3>1 DEF SkipWhitespace, In
    <3> QED BY <2>1, <2>2, <3>1, <3>2, WhitespacePassed, Skips DEF SkipWhitespace
  <2>3. ASSUME SkipUnknown PROVE LInv' /\ Yields
    <3>1. PICK j : j = i + 1
      OBVIOUS
    <3>2. /\ j \in i .. Len(src) /\ \A p \in i .. j - 1 : p = i
      BY <2>1, <2>3, <3>1 DEF SkipUnknown, In
    <3> QED BY <2>1, <2>3, <3>1, <3>2, UnknownPassed, Skips DEF SkipUnknown
  <2>4. ASSUME SkipComment PROVE LInv' /\ Yields
    <3>1. PICK j : j = RunEnd(Char \ {Newline})
      OBVIOUS
    <3>2. /\ j \in i .. Len(src) /\ \A p \in i .. j - 1 : In(p, Char \ {Newline})
          /\ ~In(j, Char \ {Newline})
      BY <2>1, <3>1, RunEnds
    <3>3. (\A p \in i .. j - 1 : Lexemes!LexemesAt(p) = {}) /\ Boundary(j)
      BY <2>1, <2>4, <3>2, CommentPassed DEF SkipComment
    <3> QED BY <2>4, <3>1, <3>2, <3>3, Skips DEF SkipComment
  <2>5. ASSUME PushArrow PROVE LInv' /\ Yields
    <3>1. PICK t, j : t = Token("->", i, i + 2) /\ j = i + 2
      OBVIOUS
    <3>2. Found(t) /\ t.kind = "->"
      BY <2>1, <2>5, <3>1, ArrowFound DEF PushArrow, Token
    <3>3. ~Lexemes!TooBig(t)
      BY <3>2, TooBigView
    <3> QED BY <2>5, <3>1, <3>2, <3>3, Pushes DEF PushArrow
  <2>6. ASSUME PushDoubleColon PROVE LInv' /\ Yields
    <3>1. PICK t, j : t = Token("::", i, i + 2) /\ j = i + 2
      OBVIOUS
    <3>2. Found(t) /\ t.kind = "::"
      BY <2>1, <2>6, <3>1, PairFound DEF PushDoubleColon, Token
    <3>3. ~Lexemes!TooBig(t)
      BY <3>2, TooBigView
    <3> QED BY <2>6, <3>1, <3>2, <3>3, Pushes DEF PushDoubleColon
  <2>7. ASSUME PushSingle PROVE LInv' /\ Yields
    <3>1. PICK c, t, j : c = src[i + 1] /\ t = Token(c, i, i + 1) /\ j = i + 1
      OBVIOUS
    <3>2. Found(t) /\ t.kind \in Singles
      BY <2>1, <2>7, <3>1, SingleFound DEF PushSingle, Token, In
    <3>3. ~Lexemes!TooBig(t)
      BY <3>2, TooBigView DEF Singles
    <3> QED BY <2>7, <3>1, <3>2, <3>3, Pushes DEF PushSingle
  <2>8. ASSUME PushIdent PROVE LInv' /\ Yields
    <3>1. PICK t, j : j = RunEnd(WordChars) /\ t = Token("Ident", i, j)
      OBVIOUS
    <3>2. Found(t) /\ t.kind = "Ident"
      BY <2>1, <2>8, <3>1, RunEnds, WordFound DEF PushIdent, Token
    <3>3. ~Lexemes!TooBig(t)
      BY <3>2, TooBigView
    <3> QED BY <2>8, <3>1, <3>2, <3>3, Pushes DEF PushIdent
  <2>9. ASSUME PushIntLit \/ Panic PROVE LInv' /\ Yields
    <3>1. PICK t, j : j = RunEnd(Digits) /\ t = Token("IntLit", i, j)
      OBVIOUS
    <3>2. Found(t) /\ t.kind = "IntLit" /\ t.from = i /\ t.to = j
      BY <2>1, <2>9, <3>1, RunEnds, NumberFound DEF PushIntLit, Panic, Token
    <3>3. Lexemes!TooBig(t) <=> HugeNumber
      BY <3>1, <3>2, TooBigView DEF HugeNumber
    <3>4. CASE PushIntLit
      BY <3>1, <3>2, <3>3, <3>4, Pushes DEF PushIntLit
    <3>5. CASE Panic
      <4>1. Lexemes!Emit
        BY <1>2, <3>2, <3>3, <3>5, FoundIsNext DEF Panic, Lexemes!Emit
      <4>2. LInv'
        BY <3>5 DEF Panic, LInv, TypeOK
      <4> QED BY <4>1, <4>2
    <3> QED BY <2>9, <3>4, <3>5
  <2>10. ASSUME PushEof PROVE LInv' /\ Yields
    <3>1. Lexemes!End
      BY <1>2, <2>10, NothingLeft DEF PushEof, Lexemes!End, Lexemes!Token, Token
    <3>2. TypeOK'
      <4>1. Token("Eof", i, i) \in [kind : Kinds, from : Nat, to : Nat]
        BY <2>1 DEF Token, Kinds
      <4> QED BY <2>10, <4>1 DEF PushEof, LInv, TypeOK
    <3> QED BY <2>10, <3>1, <3>2 DEF PushEof, LInv
  <2>11. LInv' /\ Yields
    <3> HIDE DEF Yields
    <3> QED BY <1>2, <2>2, <2>3, <2>4, <2>5, <2>6, <2>7, <2>8, <2>9, <2>10 DEF Next
  <2> QED BY <2>11
<1> QED BY <1>1, <1>2

-----------------------------------------------------------------------------
(* For every text, the cursor stays in the text and each token is a span with *)
(* a kind: tokenize never reads past the end of the characters.              *)
THEOREM TypeCorrect == Spec => []TypeOK
<1>1. Init => LInv
  BY CharAssumption, Begins
<1>2. LInv /\ [Next]_vars => LInv'
  BY CharAssumption, Step
<1>3. LInv => TypeOK
  BY DEF LInv
<1> QED BY <1>1, <1>2, <1>3, PTL DEF Spec

(* For every text over any alphabet, tokenize yields exactly its lexemes in    *)
(* their order, then one Eof, and panics only at a number that is too large. *)
THEOREM Refines == Spec => YieldsLexemes
<1>1. Init => LInv /\ Lexemes!Init
  BY CharAssumption, Begins
<1>2. LInv /\ [Next]_vars
        => LInv' /\ [Lexemes!Emit \/ Lexemes!End]_<<src, tokens, status>>
  BY CharAssumption, Step
<1> QED BY <1>1, <1>2, PTL DEF Spec, YieldsLexemes, Lexemes!Spec
=============================================================================
