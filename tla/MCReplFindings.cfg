SPECIFICATION Spec
CONSTANTS
  Lines <- MCLines
  MaxLines = 3
INVARIANTS SessionAsCommented
CHECK_DEADLOCK FALSE
