------------------------------- MODULE MCTable -------------------------------
(* Small instances of LuaTable for TLC.                                      *)
EXTENDS LuaTable, TLC

Symmetry == Permutations(Names) \cup Permutations(Walkers)

=============================================================================
