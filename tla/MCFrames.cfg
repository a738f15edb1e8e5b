SPECIFICATION Spec
CONSTANTS
  IntHalf = 8
  ShiftMax = 3
  FloatVals <- MCFloatVals
  MaxCallDepth = 5
  U8 = 256
  U16 = 65536
  Programs <- MCFamily
  Modules <- MCModules
  Heights <- MCHeights
INVARIANTS FrameInv Disciplined
CHECK_DEADLOCK FALSE
