----------------------------- MODULE MCSourceCatalog -----------------------------
(* An instance of SourceCatalog for TLC: every request that can be made. *)
EXTENDS SourceCatalog, TLC

Every == Requests
Alike == Permutations(Versions) \cup Permutations(Packages) \cup Permutations(Workers)
================================================================================
