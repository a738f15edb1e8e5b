SPECIFICATION PipelineSpec
CONSTANTS
  IntHalf = 8
  ShiftMax = 3
  FloatVals <- MCFloatVals
  MaxCallDepth = 5
  U8 = 64
  U16 = 4096
  Bytes = 64
  Programs <- MCFamily
  Modules <- MCAllModules
  Declared <- MCAllDeclared
  Meanings <- MCAllMeanings
  Unreachable <- MCAllUnreachable
  Heights <- MCHeights
INVARIANTS NoInternalError FollowsMeaning LocalsWrittenFirst UnreachableNeverRuns NeverFallsOff BalancedAtHalt NeverOutOfBounds TypeOK BytesSayTheSame FailuresWhereTheyHappen
PROPERTIES Terminates KeepsConvention KeepsToItsFrame
