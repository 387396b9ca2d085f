------------------------------ MODULE MCTdspBus ------------------------------
(* Instances of the bus for TLC.                                           *)
EXTENDS TdspBusRefinement, TLC

Symmetry == Permutations(Caller) \cup Permutations(Iface)
=============================================================================
