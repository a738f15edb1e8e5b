SPECIFICATION PipelineSpec
CONSTANTS
  IntHalf = 8
  ShiftMax = 3
  FloatVals <- MCFloatVals
  MaxCallDepth = 5
  U8 = 4
  U16 = 4
  Programs <- MCDeparting
  Modules <- MCModules
  Declared <- MCDeclared
  Meanings <- MCMeanings
  Unreachable <- MCUnreachable
INVARIANTS RunsAsItMeans
