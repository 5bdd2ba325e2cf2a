----------------------------- MODULE MCOnlineUpdate -----------------------------
(* The instances of OnlineUpdate that TLC checks give the bounds in their .cfg. *)
EXTENDS OnlineUpdate
================================================================================
