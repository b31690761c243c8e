------------------------------ MODULE MCThreads ------------------------------
(* Small instances of LuaThreads for TLC.                                    *)
EXTENDS LuaThreads, TLC

Symmetry == Permutations(Threads)

=============================================================================
