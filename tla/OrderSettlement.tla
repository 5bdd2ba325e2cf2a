---------------------------- MODULE OrderSettlement ----------------------------
(***************************************************************************)
(* What every payable order of the back end promises, whatever it sells.   *)
(*                                                                         *)
(* An order is opened at most once, is granted at most once, and is never  *)
(* granted after it was closed.  License purchase orders, agent upgrade    *)
(* orders, site change orders and advertising orders each keep their own   *)
(* table and their own handlers, and so do license cards, which are paid   *)
(* for elsewhere; each is shown to implement this specification.           *)
(***************************************************************************)
EXTENDS Naturals

CONSTANT Orders         \* the order numbers

VARIABLES state,        \* order -> "none", "open", "granted" or "closed"
          grants        \* order -> how often what it sells was handed over

vars == <<state, grants>>

States == {"none", "open", "granted", "closed"}

TypeOK == /\ state \in [Orders -> States]
          /\ grants \in [Orders -> Nat]

Init == /\ state = [o \in Orders |-> "none"]
        /\ grants = [o \in Orders |-> 0]

\* Orders are written to their table and wait for the payer: one at a time, except
\* cards, which are printed in batches.
Open(S) == /\ S # {}
           /\ \A o \in S : state[o] = "none"
           /\ state' = [o \in Orders |-> IF o \in S THEN "open" ELSE state[o]]
           /\ UNCHANGED grants

\* The order is paid and, in the same step, its goods are handed over; an
\* order paid from the balance was never open.
Grant(o) == /\ state[o] \in {"none", "open"}
            /\ state' = [state EXCEPT ![o] = "granted"]
            /\ grants' = [grants EXCEPT ![o] = @ + 1]

\* Open orders are given up together: a sweep closes several at once.
Close(S) == /\ S # {}
            /\ \A o \in S : state[o] = "open"
            /\ state' = [o \in Orders |-> IF o \in S THEN "closed" ELSE state[o]]
            /\ UNCHANGED grants

Next == \/ \E o \in Orders : Grant(o)
        \/ \E S \in SUBSET Orders : Open(S) \/ Close(S)

Spec == Init /\ [][Next]_vars

================================================================================
