------------------------------ MODULE MCSiteChange ------------------------------
(* Instances of SiteChange for TLC. *)
EXTENDS SiteChange, TLC

CONSTANTS a, k

\* One free change of the domain license; the key license's changes are paid for.
FreeChanges == a :> 1 @@ k :> 0

\* The administrator takes the free change away.
Withdrawn == {0}

Symmetry == Permutations(Domains) \cup Permutations(Sites)
================================================================================
