------------------------------ MODULE MCRealname ------------------------------
(* Instance of Realname for TLC: one session, of every kind, with three requests *)
(* at work on it; sessions share nothing but the row of their owner.             *)
EXTENDS Realname
================================================================================
