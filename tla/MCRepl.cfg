SPECIFICATION Spec
CONSTANTS
  Lines <- MCLines
  MaxLines = 3
INVARIANTS FunctionsWhereDeclared GlobalsPersist
PROPERTIES SessionGrows
CHECK_DEADLOCK FALSE
