CONSTANTS
  MaxLength = 4
  MaxRow = 6
  MaxI64 = 10
  Texts <- MCTexts
  Char <- MCChar
  Whitespace <- MCWhitespace
  Letters <- MCLetters
  Numerics <- MCNumerics
SPECIFICATION Spec
INVARIANT TypeOK
PROPERTIES YieldsLexemes Ends
CHECK_DEADLOCK FALSE
