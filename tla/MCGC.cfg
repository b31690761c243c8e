SPECIFICATION Spec
CONSTANTS
  Tables = {G, A}
  Closures = {C}
  Threads = {}
  Globals = G
  Main = Main
  Fin = Fin
  Prim = Prim
  Modes = {"k", "kv"}
  Finalizers = {TRUE}
  Generational = FALSE
  HostSites = FALSE
  Keys = {A, C}
  MaxFields = 1
PROPERTIES MajorFindsGarbage KeepsKeysOfDying ClearsOnlyGarbage
