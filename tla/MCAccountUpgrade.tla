---------------------------- MODULE MCAccountUpgrade ----------------------------
(* Instances of AccountUpgrade for TLC. *)
EXTENDS AccountUpgrade
================================================================================
