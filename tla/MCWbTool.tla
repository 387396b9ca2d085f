------------------------------- MODULE MCWbTool -------------------------------
(* Instances of WbTool for TLC.                                             *)
EXTENDS WbTool, TLC

Symmetry == Permutations(Caller) \cup Permutations(Iface)
=============================================================================
