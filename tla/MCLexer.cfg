SPECIFICATION Spec
CONSTANTS
  Files <- MCFiles
  IntMax = 20
  ErrorLimit = 3
INVARIANTS AgreesWithGrammar StringsEndWhereWritten NothingDropped TokensInOrder JunkCapped CaretsUnderTheText
PROPERTIES LexerReturns
