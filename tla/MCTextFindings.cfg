SPECIFICATION Spec
CONSTANTS
  IntHalf = 8
  RepeatLimit = 6
  Runs <- MCRuns
INVARIANTS TextPromises
