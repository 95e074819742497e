----------------------------- MODULE MCToyLexer -----------------------------
(* Every text of up to MaxLength characters over one or two characters of    *)
(* each kind, and longer ones over the characters of one construct.          *)
EXTENDS ToyLexer

CONSTANTS MaxLength, MaxRow

Alphabet == {"\n", "/", "-", ">", ":", "0", "1", "a", "N"}
MCChar == Alphabet \cup Digits \cup Singles \cup {Newline, "/", "-"}

Rows == {{":", "a"}, {"/", "\n", "a"}, {"1", "a", "N"}, {"-", ">"}}
TextsOver(S, len) == UNION {[1 .. n -> S] : n \in 0 .. len}
MCTexts == TextsOver(Alphabet, MaxLength) \cup UNION {TextsOver(S, MaxRow) : S \in Rows}

MCWhitespace == {"\n"}
MCLetters == {"a"}
MCNumerics == {"N"}
=============================================================================
