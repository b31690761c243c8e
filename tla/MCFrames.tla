------------------------------ MODULE MCFrames ------------------------------
(* Small instances of LuaFrames for TLC.                                     *)
EXTENDS LuaFrames, TLC

Symmetry == Permutations(Thrown)

=============================================================================
