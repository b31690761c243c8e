SPECIFICATION Spec
CONSTANTS
  Threads = {A, B}
  Main = Main
  NoThread = NoThread
  EntryKinds = {"lua", "protected", "host"}
  HandlersYield = FALSE
  HandlersRevive = FALSE
  MaxCalls = 4
  MaxTbc = 1
SYMMETRY Symmetry
INVARIANTS TypeOK ProtocolInv StatusTellsTruth
PROPERTIES DeadIsFinal ImplementsCoroutines
