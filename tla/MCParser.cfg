SPECIFICATION ParserSpec
CONSTANTS
  Rune <- MCRune
  Letter <- MCLetter
  Digit = {"1"}
  Keyword <- MCKeyword
  MaxRunes = 3
INVARIANTS
  UnreadRunesAreKept
  BareNamesAreVerbatim
PROPERTY StatementsRoundTrip
CHECK_DEADLOCK FALSE
