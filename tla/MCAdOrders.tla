------------------------------- MODULE MCAdOrders -------------------------------
(* Instances of AdOrders for TLC. *)
EXTENDS AdOrders, TLC

Symmetry == Permutations(Orders) \cup Permutations(Tasks) \cup Permutations(Ads)
================================================================================
