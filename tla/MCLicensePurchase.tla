--------------------------- MODULE MCLicensePurchase ---------------------------
(* Instances of LicensePurchase for TLC. *)
EXTENDS LicensePurchase, TLC

CONSTANTS u1, u2, a1

\* Users only, who pay online or from the balance: the limits are the subject.
UserRequests == [payer : {u1}, owner : {u1}, method : {"online", "balance"}]
                  \cup [payer : {u2}, owner : {u2}, method : {"online"}]

\* One agent who buys for himself and for a user in every way there is.
AgentRequests == [payer : {a1}, owner : {a1, u1}, method : Methods]
                   \cup [payer : {u1}, owner : {u1}, method : {"balance"}]

Symmetry == Permutations(Orders) \cup Permutations(Callbacks)
================================================================================
