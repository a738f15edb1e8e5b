SPECIFICATION Spec
CONSTANTS
  IntHalf = 128
  ShiftMax = 7
  FloatVals <- MCFloatVals
  MaxCallDepth = 5
  Modules <- MCNoModules
  Programs <- MCNativeFamily
  Executables <- MCExecutables
  Expected <- MCExpected
  MaxStack = 40
  Junk = Junk
INVARIANTS AgreesWithVM BalancedAtStatements
PROPERTIES WritesAboveItsFrame NativeEnds
