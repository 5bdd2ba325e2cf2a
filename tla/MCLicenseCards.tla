----------------------------- MODULE MCLicenseCards -----------------------------
(* Instances of LicenseCards for TLC. *)
EXTENDS LicenseCards, TLC

CONSTANTS c1, c2, b1

OneBatch == c1 :> b1 @@ c2 :> b1
================================================================================
