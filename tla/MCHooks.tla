-------------------------------- MODULE MCHooks --------------------------------
(* Hooks for TLC: an empty directory and one with a short, a long and a short name. *)
EXTENDS Hooks, TLC

MCListings == {<<>>, <<1, 12, 3>>}
MCSizes == {24, 64, 120}   \* 120 is negative as an int when UIntRange is 128
MCSymmetry == Permutations(Threads)
MCRegisters == {24, 127}
===============================================================================
