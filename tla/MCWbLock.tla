------------------------------- MODULE MCWbLock -------------------------------
(* Instances of WbLock for TLC.                                             *)
EXTENDS WbLock, TLC

Symmetry == Permutations(Gui) \cup Permutations(Tool)
=============================================================================
