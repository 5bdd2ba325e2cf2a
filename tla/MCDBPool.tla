------------------------------- MODULE MCDBPool -------------------------------
(* Instances of DBPool for TLC. *)
EXTENDS DBPool
================================================================================
