CONSTANTS
  MaxAsk = 2
  MaxBody = 3
  Programs <- ProgramSet
  Chunks <- ChunkSet
SPECIFICATION SpecEither
INVARIANTS AcceptsLegal RegistersAreCoherent
PROPERTIES FollowsManual FollowsPuc
CHECK_DEADLOCK FALSE
