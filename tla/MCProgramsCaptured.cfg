CONSTANTS
  MaxAsk = 2
  MaxBody = 1
  Programs <- AssignedFirst
  Chunks = {}
SPECIFICATION SpecEither
INVARIANT RegistersAreCoherent
CHECK_DEADLOCK FALSE
