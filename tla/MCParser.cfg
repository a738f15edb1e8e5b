SPECIFICATION Spec
CONSTANTS
  Files <- MCFiles
  LexErrors = {0, 2, 4}
  ErrorLimit = 3
INVARIANTS AcceptsTheGrammar MistakesReported ErrorsBounded
PROPERTIES ParserStops
CHECK_DEADLOCK FALSE
