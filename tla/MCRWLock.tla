------------------------------- MODULE MCRWLock -------------------------------
(* RWLock for TLC: four threads for the safety run, three for liveness. *)
EXTENDS RWLock
===============================================================================
