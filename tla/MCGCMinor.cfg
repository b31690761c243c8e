SPECIFICATION Spec
CONSTANTS
  Tables = {G, A}
  Closures = {}
  Threads = {T}
  Globals = G
  Main = Main
  Fin = Fin
  Prim = Prim
  Modes = {"v"}
  Finalizers = {TRUE}
  Generational = TRUE
  HostSites = TRUE
  Keys = {Prim}
  MaxFields = 1
PROPERTIES OldIsSafe MinorIsSound MajorIsSound
