SPECIFICATION Spec
CONSTANTS
  Keys <- TableKeys
  Nil = Nil
  MaxInteger = 6
  MaxResults = 3
  MaxSorted = 4
  Base = 4
  Native = "little"
  Words = 65536
  Keywords <- ReservedWords
  IntMax = 8191
  MaxGroups = 4
  MaxDepth = 3
  MaxProtos = 4
  MaxItems = 12
  Functions_ <- Dumped
  PucFunctions <- PucDumped
  Fragile <- DamagedOnes
CHECK_DEADLOCK FALSE
INVARIANTS NothingLost TableCallsFollowManual
PROPERTIES PatternsFollowManual PackedReadsBack Utf8FunctionsAgree LexerReadsBack Reloads
