-------------------------------- MODULE MCGC --------------------------------
(* Small instances of LuaGC for TLC.                                         *)
EXTENDS LuaGC, TLC

Symmetry == Permutations(Tables \ (Keys \cup {Globals}))

=============================================================================
