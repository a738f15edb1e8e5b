SPECIFICATION FrontSpec
CONSTANTS
  Files <- MCTexts
  IntMax = 20
  ErrorLimit = 25
INVARIANTS ReadsAsDocumented
