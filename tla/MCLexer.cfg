SPECIFICATION Spec
CONSTANTS
  NUL <- MCNUL
  Newline <- MCNewline
  Chars <- MCChars
  States <- MCStates
  ScanningTable <- CsvScanningTable
  TokenTable <- CsvTokenTable
  Classes <- MCClasses
  ReservedWords <- CsvReservedWords
  Texts <- MCTexts
  Garbage <- MCGarbage
INVARIANT TypeOK
INVARIANT TokensAreWhereTheySay
INVARIANT LongestMatch
INVARIANT NothingIsLost
INVARIANT WordsAreOneToken
PROPERTY EveryScanAdvances
CHECK_DEADLOCK FALSE
