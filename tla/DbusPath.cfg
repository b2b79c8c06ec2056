SPECIFICATION Spec
CONSTANTS
  Char <- Chars
  MaxLength = 3
  Base <- Bases
  SignedChar = TRUE
INVARIANTS PathIsUnique PathIsLegal
