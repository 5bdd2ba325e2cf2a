------------------------- MODULE LicensePurchaseProofs -------------------------
(***************************************************************************)
(* Theorems about LicensePurchase, for every set of orders, accounts and   *)
(* callbacks and for every limit.                                          *)
(***************************************************************************)
EXTENDS LicensePurchase, FiniteSetTheorems, FunctionTheorems, TLAPS

--------------------------------------------------------------------------------
(* The inductive invariant *)

\* What the row locks and the phases of the handler guarantee between them.
Phases ==
  \A o \in Orders :
    /\ pc[o] = "idle" => req[o] = NoRequest
    /\ pc[o] # "idle" => req[o] \in Requests
    /\ pc[o] \in {"idle", "quoted", "locked", "counted"}
         => status[o] = "none" /\ o \notin lapsed /\ o \notin todo
    /\ pc[o] = "gateway" => /\ status[o] \in {"pending", "cancelled"}
                           /\ req[o].method = "online"
    /\ status[o] = "pending" => req[o].method = "online"
    /\ bill[o] # "none" => pc[o] = "done" /\ req[o].method = "online"
    /\ status[o] = "paid" => pc[o] = "done"
    /\ o \in todo => status[o] # "none"
    /\ o \in found => pc[o] \notin {"idle", "quoted"}

\* A row is locked by one transaction at a time, and is pending while it is.
RowLocks ==
  /\ \A o \in swept : status[o] = "pending" /\ \A k \in Callbacks : <<o, k>> \notin settling
  /\ \A o \in Orders, k \in Callbacks :
       <<o, k>> \in settling =>
         /\ status[o] = "pending"
         /\ bill[o] = "paid"
         /\ \A j \in Callbacks : <<o, j>> \in settling => j = k

\* The rows of licenses are the paid orders', one each.
Issued ==
  \A o \in Orders :
    /\ status[o] = "paid" => \E l \in licenses : CompletedBy({o}) = {l}
    /\ status[o] # "paid" => CompletedBy({o}) = {}

Structure == TypeOK /\ Phases /\ RowLocks /\ Issued

--------------------------------------------------------------------------------

\* The invariant holds at the start.
LEMMA InitStructure == Init => Structure
<1> SUFFICES ASSUME Init PROVE Structure
  OBVIOUS
<1>1. TypeOK
  BY ConstantsAssumption
  DEF Init, TypeOK, PC, Statuses, Bills, EntryType, NoEntry, Owners
<1>2. Phases /\ RowLocks
  BY DEF Init, Phases, RowLocks
<1>3. Issued
  BY DEF Init, Issued, CompletedBy
<1> QED
  BY <1>1, <1>2, <1>3 DEF Structure

--------------------------------------------------------------------------------
\* Every step keeps the types.
LEMMA TypeStep == Structure /\ [Next]_vars => TypeOK'
<1> SUFFICES ASSUME Structure, [Next]_vars PROVE TypeOK'
  OBVIOUS
<1> USE ConstantsAssumption DEF Structure, purchaseVars, fundVars, scanVars, TypeOK,
            PC, Statuses, Bills, EntryType, Owners, RequestType, Expired
<1>1. ASSUME NEW o \in Orders, NEW r \in Requests, Quote(o, r) PROVE TypeOK'
  BY <1>1 DEF Quote
<1>2. ASSUME NEW o \in Orders, LockCampaign(o) PROVE TypeOK'
  BY <1>2 DEF LockCampaign
<1>3. ASSUME NEW o \in Orders, CountTaken(o) PROVE TypeOK'
  BY <1>3 DEF CountTaken
<1>4. ASSUME NEW o \in Orders, Rollback(o) PROVE TypeOK'
  BY <1>4 DEF Rollback
<1>5. ASSUME NEW o \in Orders, CommitOnline(o) PROVE TypeOK'
  BY <1>5 DEF CommitOnline
<1>6. ASSUME NEW o \in Orders, CommitBalance(o) PROVE TypeOK'
  <2>1. req[o].payer \in Owners /\ balance[req[o].payer] \in Nat
    BY <1>6, ConstantsAssumption
    DEF CommitBalance, IssueAtOnce, Phases, TypeOK, RequestType
  <2>2. Deducted(o) \in Nat
    BY <1>6, <2>1 DEF CommitBalance, Deducted
  <2>3. balance' \in [Owners -> Nat] /\ ledger' \in [Orders -> EntryType]
    BY <1>6, <2>1, <2>2 DEF CommitBalance, TypeOK, EntryType
  <2> QED
    BY <1>6, <2>3 DEF CommitBalance, IssueAtOnce, TypeOK, PC, Statuses
<1>7. ASSUME NEW o \in Orders, CommitQuota(o) PROVE TypeOK'
  <2>1. req[o].payer \in Agents
    BY <1>7, ConstantsAssumption
    DEF CommitQuota, IssueAtOnce, Phases, TypeOK, RequestType, LegalRequest
  <2>2. used' \in [Agents -> 0..QuotaTotal]
    BY <1>7, <2>1, ConstantsAssumption DEF CommitQuota, TypeOK
  <2>3. ledger' \in [Orders -> EntryType]
    BY <1>7 DEF CommitQuota, TypeOK, EntryType
  <2> QED
    BY <1>7, <2>2, <2>3 DEF CommitQuota, IssueAtOnce, TypeOK, PC, Statuses
<1>8. ASSUME NEW o \in Orders, CommitFree(o) PROVE TypeOK'
  BY <1>8 DEF CommitFree, IssueAtOnce
<1>9. ASSUME NEW o \in Orders, GatewayAccepts(o) PROVE TypeOK'
  BY <1>9 DEF GatewayAccepts
<1>10. ASSUME NEW o \in Orders, GatewayRefuses(o) PROVE TypeOK'
  BY <1>10 DEF GatewayRefuses
<1>11. ASSUME NEW o \in Orders, Pay(o) PROVE TypeOK'
  BY <1>11 DEF Pay
<1>12. ASSUME NEW o \in Orders, Lapse(o) PROVE TypeOK'
  BY <1>12 DEF Lapse
<1>13. ASSUME NEW o \in Orders, NEW k \in Callbacks, SettleBegin(o, k) PROVE TypeOK'
  BY <1>13 DEF SettleBegin
<1>14. ASSUME NEW o \in Orders, NEW k \in Callbacks, SettleCommit(o, k) PROVE TypeOK'
  BY <1>14 DEF SettleCommit
<1>15. ASSUME NEW o \in Orders, NEW k \in Callbacks, SettleAbort(o, k) PROVE TypeOK'
  BY <1>15 DEF SettleAbort
<1>16. ASSUME NEW o \in Orders, ScanRow(o) PROVE TypeOK'
  BY <1>16 DEF ScanRow
<1>17. CASE ScanBegin
  BY <1>17 DEF ScanBegin
<1>18. CASE ScanEnd
  BY <1>18 DEF ScanEnd
<1>19. CASE ToggleCampaign
  BY <1>19 DEF ToggleCampaign
<1>20. CASE UNCHANGED vars
  BY <1>20 DEF vars
<1> QED
  BY <1>1, <1>2, <1>3, <1>4, <1>5, <1>6, <1>7, <1>8, <1>9, <1>10,
     <1>11, <1>12, <1>13, <1>14, <1>15, <1>16, <1>17, <1>18, <1>19, <1>20
  DEF Next, Purchase, Settle

\* Every step keeps the handlers' phases and the orders' rows in agreement.
LEMMA PhasesStep == Structure /\ [Next]_vars => Phases'
<1> SUFFICES ASSUME Structure, [Next]_vars PROVE Phases'
  OBVIOUS
<1> USE ConstantsAssumption DEF Structure, purchaseVars, fundVars, scanVars, TypeOK,
            Phases, RowLocks, NoRequest, RequestType, Owners, Expired
<1>1. ASSUME NEW o \in Orders, NEW r \in Requests, Quote(o, r) PROVE Phases'
  BY <1>1 DEF Quote
<1>2. ASSUME NEW o \in Orders, LockCampaign(o) PROVE Phases'
  BY <1>2 DEF LockCampaign
<1>3. ASSUME NEW o \in Orders, CountTaken(o) PROVE Phases'
  BY <1>3 DEF CountTaken
<1>4. ASSUME NEW o \in Orders, Rollback(o) PROVE Phases'
  BY <1>4 DEF Rollback
<1>5. ASSUME NEW o \in Orders, CommitOnline(o) PROVE Phases'
  BY <1>5 DEF CommitOnline
<1>6. ASSUME NEW o \in Orders, CommitBalance(o) PROVE Phases'
  BY <1>6 DEF CommitBalance, IssueAtOnce
<1>7. ASSUME NEW o \in Orders, CommitQuota(o) PROVE Phases'
  BY <1>7 DEF CommitQuota, IssueAtOnce
<1>8. ASSUME NEW o \in Orders, CommitFree(o) PROVE Phases'
  BY <1>8 DEF CommitFree, IssueAtOnce
<1>9. ASSUME NEW o \in Orders, GatewayAccepts(o) PROVE Phases'
  BY <1>9 DEF GatewayAccepts
<1>10. ASSUME NEW o \in Orders, GatewayRefuses(o) PROVE Phases'
  BY <1>10 DEF GatewayRefuses
<1>11. ASSUME NEW o \in Orders, Pay(o) PROVE Phases'
  BY <1>11 DEF Pay
<1>12. ASSUME NEW o \in Orders, Lapse(o) PROVE Phases'
  BY <1>12 DEF Lapse
<1>13. ASSUME NEW o \in Orders, NEW k \in Callbacks, SettleBegin(o, k) PROVE Phases'
  BY <1>13 DEF SettleBegin
<1>14. ASSUME NEW o \in Orders, NEW k \in Callbacks, SettleCommit(o, k) PROVE Phases'
  BY <1>14 DEF SettleCommit
<1>15. ASSUME NEW o \in Orders, NEW k \in Callbacks, SettleAbort(o, k) PROVE Phases'
  BY <1>15 DEF SettleAbort
<1>16. ASSUME NEW o \in Orders, ScanRow(o) PROVE Phases'
  BY <1>16 DEF ScanRow
<1>17. CASE ScanBegin
  BY <1>17 DEF ScanBegin
<1>18. CASE ScanEnd
  BY <1>18 DEF ScanEnd
<1>19. CASE ToggleCampaign
  BY <1>19 DEF ToggleCampaign
<1>20. CASE UNCHANGED vars
  BY <1>20 DEF vars
<1> QED
  BY <1>1, <1>2, <1>3, <1>4, <1>5, <1>6, <1>7, <1>8, <1>9, <1>10,
     <1>11, <1>12, <1>13, <1>14, <1>15, <1>16, <1>17, <1>18, <1>19, <1>20
  DEF Next, Purchase, Settle

\* Every step keeps the row locks exclusive.
LEMMA RowLocksStep == Structure /\ [Next]_vars => RowLocks'
<1> SUFFICES ASSUME Structure, [Next]_vars PROVE RowLocks'
  OBVIOUS
<1> USE DEF Structure, purchaseVars, fundVars, scanVars, TypeOK, Phases, RowLocks,
            OrderRowFree, Expired
<1>1. ASSUME NEW o \in Orders, NEW r \in Requests, Quote(o, r) PROVE RowLocks'
  BY <1>1 DEF Quote
<1>2. ASSUME NEW o \in Orders, LockCampaign(o) PROVE RowLocks'
  BY <1>2 DEF LockCampaign
<1>3. ASSUME NEW o \in Orders, CountTaken(o) PROVE RowLocks'
  BY <1>3 DEF CountTaken
<1>4. ASSUME NEW o \in Orders, Rollback(o) PROVE RowLocks'
  BY <1>4 DEF Rollback
<1>5. ASSUME NEW o \in Orders, CommitOnline(o) PROVE RowLocks'
  BY <1>5 DEF CommitOnline
<1>6. ASSUME NEW o \in Orders, CommitBalance(o) PROVE RowLocks'
  BY <1>6 DEF CommitBalance, IssueAtOnce
<1>7. ASSUME NEW o \in Orders, CommitQuota(o) PROVE RowLocks'
  BY <1>7 DEF CommitQuota, IssueAtOnce
<1>8. ASSUME NEW o \in Orders, CommitFree(o) PROVE RowLocks'
  BY <1>8 DEF CommitFree, IssueAtOnce
<1>9. ASSUME NEW o \in Orders, GatewayAccepts(o) PROVE RowLocks'
  BY <1>9 DEF GatewayAccepts
<1>10. ASSUME NEW o \in Orders, GatewayRefuses(o) PROVE RowLocks'
  BY <1>10 DEF GatewayRefuses
<1>11. ASSUME NEW o \in Orders, Pay(o) PROVE RowLocks'
  BY <1>11 DEF Pay
<1>12. ASSUME NEW o \in Orders, Lapse(o) PROVE RowLocks'
  BY <1>12 DEF Lapse
<1>13. ASSUME NEW o \in Orders, NEW k \in Callbacks, SettleBegin(o, k) PROVE RowLocks'
  BY <1>13 DEF SettleBegin
<1>14. ASSUME NEW o \in Orders, NEW k \in Callbacks, SettleCommit(o, k) PROVE RowLocks'
  BY <1>14 DEF SettleCommit
<1>15. ASSUME NEW o \in Orders, NEW k \in Callbacks, SettleAbort(o, k) PROVE RowLocks'
  BY <1>15 DEF SettleAbort
<1>16. ASSUME NEW o \in Orders, ScanRow(o) PROVE RowLocks'
  BY <1>16 DEF ScanRow
<1>17. CASE ScanBegin
  BY <1>17 DEF ScanBegin
<1>18. CASE ScanEnd
  BY <1>18 DEF ScanEnd
<1>19. CASE ToggleCampaign
  BY <1>19 DEF ToggleCampaign
<1>20. CASE UNCHANGED vars
  BY <1>20 DEF vars
<1> QED
  BY <1>1, <1>2, <1>3, <1>4, <1>5, <1>6, <1>7, <1>8, <1>9, <1>10,
     <1>11, <1>12, <1>13, <1>14, <1>15, <1>16, <1>17, <1>18, <1>19, <1>20
  DEF Next, Purchase, Settle

\* Every step keeps one license per paid order and none for another.
LEMMA IssuedStep == Structure /\ [Next]_vars => Issued'
<1> SUFFICES ASSUME Structure, [Next]_vars PROVE Issued'
  OBVIOUS
<1> USE DEF Structure, purchaseVars, fundVars, scanVars, TypeOK, Phases, RowLocks,
            Issued, CompletedBy
<1>1. ASSUME NEW o \in Orders, NEW r \in Requests, Quote(o, r) PROVE Issued'
  BY <1>1 DEF Quote
<1>2. ASSUME NEW o \in Orders, LockCampaign(o) PROVE Issued'
  BY <1>2 DEF LockCampaign
<1>3. ASSUME NEW o \in Orders, CountTaken(o) PROVE Issued'
  BY <1>3 DEF CountTaken
<1>4. ASSUME NEW o \in Orders, Rollback(o) PROVE Issued'
  BY <1>4 DEF Rollback
<1>5. ASSUME NEW o \in Orders, CommitOnline(o) PROVE Issued'
  BY <1>5 DEF CommitOnline
<1>6. ASSUME NEW o \in Orders, CommitBalance(o) PROVE Issued'
  <2> DEFINE row == [order |-> o, by |-> "handler"]
  <2>1. CompletedBy({o}) = {}
    BY <1>6 DEF CommitBalance, IssueAtOnce, TypeOK, Phases, RowLocks, Issued
  <2>2. licenses' = licenses \cup {row} /\ status' = [status EXCEPT ![o] = "paid"]
    BY <1>6 DEF CommitBalance, IssueAtOnce
  <2>3. CompletedBy({o})' = {row}
    BY <2>1, <2>2 DEF CompletedBy
  <2>4. \A p \in Orders \ {o} : CompletedBy({p})' = CompletedBy({p}) /\ status'[p] = status[p]
    BY <2>2 DEF CompletedBy, TypeOK
  <2>5. row \in licenses' /\ status'[o] = "paid"
    BY <2>2 DEF TypeOK
  <2> SUFFICES ASSUME NEW p \in Orders
               PROVE  /\ status'[p] = "paid" => \E l \in licenses' : CompletedBy({p})' = {l}
                      /\ status'[p] # "paid" => CompletedBy({p})' = {}
    BY DEF Issued
  <2>6. CASE p = o
    BY <2>3, <2>5, <2>6
  <2>7. CASE p # o
    BY <2>2, <2>4, <2>7 DEF Issued
  <2> QED
    BY <2>6, <2>7
<1>7. ASSUME NEW o \in Orders, CommitQuota(o) PROVE Issued'
  <2> DEFINE row == [order |-> o, by |-> "handler"]
  <2>1. CompletedBy({o}) = {}
    BY <1>7 DEF CommitQuota, IssueAtOnce, TypeOK, Phases, RowLocks, Issued
  <2>2. licenses' = licenses \cup {row} /\ status' = [status EXCEPT ![o] = "paid"]
    BY <1>7 DEF CommitQuota, IssueAtOnce
  <2>3. CompletedBy({o})' = {row}
    BY <2>1, <2>2 DEF CompletedBy
  <2>4. \A p \in Orders \ {o} : CompletedBy({p})' = CompletedBy({p}) /\ status'[p] = status[p]
    BY <2>2 DEF CompletedBy, TypeOK
  <2>5. row \in licenses' /\ status'[o] = "paid"
    BY <2>2 DEF TypeOK
  <2> SUFFICES ASSUME NEW p \in Orders
               PROVE  /\ status'[p] = "paid" => \E l \in licenses' : CompletedBy({p})' = {l}
                      /\ status'[p] # "paid" => CompletedBy({p})' = {}
    BY DEF Issued
  <2>6. CASE p = o
    BY <2>3, <2>5, <2>6
  <2>7. CASE p # o
    BY <2>2, <2>4, <2>7 DEF Issued
  <2> QED
    BY <2>6, <2>7
<1>8. ASSUME NEW o \in Orders, CommitFree(o) PROVE Issued'
  <2> DEFINE row == [order |-> o, by |-> "handler"]
  <2>1. CompletedBy({o}) = {}
    BY <1>8 DEF CommitFree, IssueAtOnce, TypeOK, Phases, RowLocks, Issued
  <2>2. licenses' = licenses \cup {row} /\ status' = [status EXCEPT ![o] = "paid"]
    BY <1>8 DEF CommitFree, IssueAtOnce
  <2>3. CompletedBy({o})' = {row}
    BY <2>1, <2>2 DEF CompletedBy
  <2>4. \A p \in Orders \ {o} : CompletedBy({p})' = CompletedBy({p}) /\ status'[p] = status[p]
    BY <2>2 DEF CompletedBy, TypeOK
  <2>5. row \in licenses' /\ status'[o] = "paid"
    BY <2>2 DEF TypeOK
  <2> SUFFICES ASSUME NEW p \in Orders
               PROVE  /\ status'[p] = "paid" => \E l \in licenses' : CompletedBy({p})' = {l}
                      /\ status'[p] # "paid" => CompletedBy({p})' = {}
    BY DEF Issued
  <2>6. CASE p = o
    BY <2>3, <2>5, <2>6
  <2>7. CASE p # o
    BY <2>2, <2>4, <2>7 DEF Issued
  <2> QED
    BY <2>6, <2>7
<1>9. ASSUME NEW o \in Orders, GatewayAccepts(o) PROVE Issued'
  BY <1>9 DEF GatewayAccepts
<1>10. ASSUME NEW o \in Orders, GatewayRefuses(o) PROVE Issued'
  BY <1>10 DEF GatewayRefuses
<1>11. ASSUME NEW o \in Orders, Pay(o) PROVE Issued'
  BY <1>11 DEF Pay
<1>12. ASSUME NEW o \in Orders, Lapse(o) PROVE Issued'
  BY <1>12 DEF Lapse
<1>13. ASSUME NEW o \in Orders, NEW k \in Callbacks, SettleBegin(o, k) PROVE Issued'
  BY <1>13 DEF SettleBegin
<1>14. ASSUME NEW o \in Orders, NEW k \in Callbacks, SettleCommit(o, k) PROVE Issued'
  <2> DEFINE row == [order |-> o, by |-> k]
  <2>1. CompletedBy({o}) = {}
    BY <1>14 DEF SettleCommit, TypeOK, Phases, RowLocks, Issued
  <2>2. licenses' = licenses \cup {row} /\ status' = [status EXCEPT ![o] = "paid"]
    BY <1>14 DEF SettleCommit
  <2>3. CompletedBy({o})' = {row}
    BY <2>1, <2>2 DEF CompletedBy
  <2>4. \A p \in Orders \ {o} : CompletedBy({p})' = CompletedBy({p}) /\ status'[p] = status[p]
    BY <2>2 DEF CompletedBy, TypeOK
  <2>5. row \in licenses' /\ status'[o] = "paid"
    BY <2>2 DEF TypeOK
  <2> SUFFICES ASSUME NEW p \in Orders
               PROVE  /\ status'[p] = "paid" => \E l \in licenses' : CompletedBy({p})' = {l}
                      /\ status'[p] # "paid" => CompletedBy({p})' = {}
    BY DEF Issued
  <2>6. CASE p = o
    BY <2>3, <2>5, <2>6
  <2>7. CASE p # o
    BY <2>2, <2>4, <2>7 DEF Issued
  <2> QED
    BY <2>6, <2>7
<1>15. ASSUME NEW o \in Orders, NEW k \in Callbacks, SettleAbort(o, k) PROVE Issued'
  BY <1>15 DEF SettleAbort
<1>16. ASSUME NEW o \in Orders, ScanRow(o) PROVE Issued'
  BY <1>16 DEF ScanRow
<1>17. CASE ScanBegin
  BY <1>17 DEF ScanBegin
<1>18. CASE ScanEnd
  BY <1>18 DEF ScanEnd
<1>19. CASE ToggleCampaign
  BY <1>19 DEF ToggleCampaign
<1>20. CASE UNCHANGED vars
  BY <1>20 DEF vars
<1> QED
  BY <1>1, <1>2, <1>3, <1>4, <1>5, <1>6, <1>7, <1>8, <1>9, <1>10,
     <1>11, <1>12, <1>13, <1>14, <1>15, <1>16, <1>17, <1>18, <1>19, <1>20
  DEF Next, Purchase, Settle

\* Structure holds in every state of every behaviour: the purchase handlers, the
\* callbacks and the worker keep rows, locks and phases in agreement.
THEOREM StructureInvariant == Spec => []Structure
<1>1. Structure /\ [Next]_vars => Structure'
  BY TypeStep, PhasesStep, RowLocksStep, IssuedStep DEF Structure
<1> QED
  BY InitStructure, <1>1, PTL DEF Spec

\* The type invariant of LicensePurchase, for every instance.
THEOREM TypeCorrect == Spec => []TypeOK
<1>1. Structure => TypeOK
  BY DEF Structure
<1> QED
  BY StructureInvariant, <1>1, PTL

\* Duplicated and concurrent callbacks, late payments and the expiry worker never
\* give a paid order a second license nor an unpaid one its first.
THEOREM ExactlyOneLicense == Spec => []OneLicensePerPaidOrder
<1>1. Structure => OneLicensePerPaidOrder
  <2> SUFFICES ASSUME Structure, NEW o \in Orders
               PROVE  Cardinality(CompletedBy({o})) = IF status[o] = "paid" THEN 1 ELSE 0
    BY DEF OneLicensePerPaidOrder
  <2>1. CASE status[o] = "paid"
    BY <2>1, FS_Singleton DEF Structure, Issued
  <2>2. CASE status[o] # "paid"
    BY <2>2, FS_EmptySet DEF Structure, Issued
  <2> QED
    BY <2>1, <2>2
<1> QED
  BY StructureInvariant, <1>1, PTL

--------------------------------------------------------------------------------
(* How an order's status moves *)

Opens(o) == status[o] = "none" /\ status' = [status EXCEPT ![o] = "pending"]

Pays(o) == status[o] \in {"none", "pending"} /\ status' = [status EXCEPT ![o] = "paid"]

Closes(S) ==
  /\ S # {}
  /\ \A o \in S : status[o] = "pending"
  /\ \E c \in {"failed", "cancelled"} :
       status' = [o \in Orders |-> IF o \in S THEN c ELSE status[o]]

Moves ==
  \/ status' = status
  \/ \E o \in Orders : Opens(o) \/ Pays(o)
  \/ \E S \in SUBSET Orders : Closes(S)

\* Every step opens one order, pays one, closes some, or leaves them all alone.
LEMMA MovesStep == Structure /\ [Next]_vars => Moves
<1> SUFFICES ASSUME Structure, [Next]_vars PROVE Moves
  OBVIOUS
<1> USE DEF Structure, purchaseVars, fundVars, scanVars, Moves
<1>1. ASSUME NEW o \in Orders, NEW r \in Requests, Quote(o, r) PROVE Moves
  BY <1>1 DEF Quote
<1>2. ASSUME NEW o \in Orders, LockCampaign(o) PROVE Moves
  BY <1>2 DEF LockCampaign
<1>3. ASSUME NEW o \in Orders, CountTaken(o) PROVE Moves
  BY <1>3 DEF CountTaken
<1>4. ASSUME NEW o \in Orders, Rollback(o) PROVE Moves
  BY <1>4 DEF Rollback
<1>5. ASSUME NEW o \in Orders, CommitOnline(o) PROVE Moves
  BY <1>5 DEF CommitOnline, Opens, Phases
<1>6. ASSUME NEW o \in Orders, CommitBalance(o) PROVE Moves
  BY <1>6 DEF CommitBalance, IssueAtOnce, Pays, Phases, RowLocks
<1>7. ASSUME NEW o \in Orders, CommitQuota(o) PROVE Moves
  BY <1>7 DEF CommitQuota, IssueAtOnce, Pays, Phases, RowLocks
<1>8. ASSUME NEW o \in Orders, CommitFree(o) PROVE Moves
  BY <1>8 DEF CommitFree, IssueAtOnce, Pays, Phases, RowLocks
<1>9. ASSUME NEW o \in Orders, GatewayAccepts(o) PROVE Moves
  BY <1>9 DEF GatewayAccepts
<1>10. ASSUME NEW o \in Orders, GatewayRefuses(o) PROVE Moves
  <2>1. CASE status[o] = "pending"
    <3>1. Closes({o})
      BY <1>10, <2>1 DEF GatewayRefuses, Closes, TypeOK
    <3> QED
      BY <3>1 DEF Moves
  <2>2. CASE status[o] # "pending"
    BY <1>10, <2>2 DEF GatewayRefuses, Moves, TypeOK
  <2> QED
    BY <2>1, <2>2
<1>11. ASSUME NEW o \in Orders, Pay(o) PROVE Moves
  BY <1>11 DEF Pay
<1>12. ASSUME NEW o \in Orders, Lapse(o) PROVE Moves
  BY <1>12 DEF Lapse
<1>13. ASSUME NEW o \in Orders, NEW k \in Callbacks, SettleBegin(o, k) PROVE Moves
  BY <1>13 DEF SettleBegin
<1>14. ASSUME NEW o \in Orders, NEW k \in Callbacks, SettleCommit(o, k) PROVE Moves
  BY <1>14 DEF SettleCommit, Pays, Phases, RowLocks
<1>15. ASSUME NEW o \in Orders, NEW k \in Callbacks, SettleAbort(o, k) PROVE Moves
  BY <1>15 DEF SettleAbort
<1>16. ASSUME NEW o \in Orders, ScanRow(o) PROVE Moves
  BY <1>16 DEF ScanRow
<1>17. CASE ScanBegin
  BY <1>17 DEF ScanBegin
<1>18. CASE ScanEnd
  <2>1. Closes(swept)
    BY <1>18 DEF ScanEnd, Closes, RowLocks
  <2> QED
    BY <2>1 DEF Moves, TypeOK
<1>19. CASE ToggleCampaign
  BY <1>19 DEF ToggleCampaign
<1>20. CASE UNCHANGED vars
  BY <1>20 DEF vars
<1> QED
  BY <1>1, <1>2, <1>3, <1>4, <1>5, <1>6, <1>7, <1>8, <1>9, <1>10,
     <1>11, <1>12, <1>13, <1>14, <1>15, <1>16, <1>17, <1>18, <1>19, <1>20
  DEF Next, Purchase, Settle

\* A paid, failed or cancelled order keeps its status: a callback that comes after
\* the worker cancelled the order, or a second time, changes nothing.
THEOREM ClosedStaysClosed == Spec => NeverReopened
<1>1. Structure /\ [Next]_vars
      => [\A o \in Orders : status[o] \in {"paid", "failed", "cancelled"}
                              => status'[o] = status[o]]_vars
  <2> SUFFICES ASSUME Structure, [Next]_vars, NEW o \in Orders,
                      status[o] \in {"paid", "failed", "cancelled"}
               PROVE  status'[o] = status[o]
    OBVIOUS
  <2> QED
    BY MovesStep DEF Moves, Opens, Pays, Closes, Structure, TypeOK
<1> QED
  BY StructureInvariant, <1>1, PTL DEF Spec, NeverReopened

--------------------------------------------------------------------------------
(* License purchase orders implement the abstract order *)

\* The value the refinement mapping gives to the abstract variable grants.
LEMMA GrantsMapped ==
  Structure => \A o \in Orders :
    Cardinality(CompletedBy({o})) = IF status[o] = "paid" THEN 1 ELSE 0
<1> SUFFICES ASSUME Structure, NEW o \in Orders
             PROVE  Cardinality(CompletedBy({o})) = IF status[o] = "paid" THEN 1 ELSE 0
  OBVIOUS
<1>1. CASE status[o] = "paid"
  BY <1>1, FS_Singleton DEF Structure, Issued
<1>2. CASE status[o] # "paid"
  BY <1>2, FS_EmptySet DEF Structure, Issued
<1> QED
  BY <1>1, <1>2

\* The purchase handlers, the callbacks and the expiry worker implement the order
\* every payable thing promises: opened once, granted once, never after it closed.
THEOREM Refinement == Spec => ImplementsPromise
<1>1. Init => Promise!Init
  <2> SUFFICES ASSUME Init PROVE Promise!Init
    OBVIOUS
  <2>1. \A o \in Orders : Cardinality(CompletedBy({o})) = 0
    BY FS_EmptySet DEF Init, CompletedBy
  <2> QED
    BY <2>1 DEF Init, Promise!Init, Abstract
<1>2. Structure /\ Structure' /\ [Next]_vars => [Promise!Next]_(Promise!vars)
  <2> SUFFICES ASSUME Structure, Structure', [Next]_vars
               PROVE  [Promise!Next]_(Promise!vars)
    OBVIOUS
  <2> DEFINE state == [o \in Orders |-> Abstract(status[o])]
             grants == [o \in Orders |-> Cardinality(CompletedBy({o}))]
  <2>1. grants = [o \in Orders |-> IF status[o] = "paid" THEN 1 ELSE 0]
    BY GrantsMapped
  <2>2. (\A o \in Orders : Cardinality(CompletedBy({o})) = IF status[o] = "paid" THEN 1 ELSE 0)'
    BY GrantsMapped, PTL
  <2>3. grants' = [o \in Orders |-> IF status'[o] = "paid" THEN 1 ELSE 0]
    BY <2>2
  <2>4. status \in [Orders -> Statuses] /\ status' \in [Orders -> Statuses]
    BY DEF Structure, TypeOK
  <2>5. CASE status' = status
    BY <2>1, <2>3, <2>5 DEF Promise!vars
  <2>6. ASSUME NEW o \in Orders, Opens(o) PROVE Promise!Next
    <3>1. Promise!Open({o})
      BY <2>1, <2>3, <2>4, <2>6 DEF Opens, Promise!Open, Abstract, Statuses
    <3> QED
      BY <3>1 DEF Promise!Next
  <2>7. ASSUME NEW o \in Orders, Pays(o) PROVE Promise!Next
    <3>1. state[o] \in {"none", "open"} /\ state' = [state EXCEPT ![o] = "granted"]
      BY <2>4, <2>7 DEF Pays, Abstract, Statuses
    <3>2. grants' = [grants EXCEPT ![o] = grants[o] + 1]
      <4>1. grants[o] = 0
        BY <2>1, <2>7 DEF Pays
      <4>2. status'[o] = "paid" /\ \A p \in Orders \ {o} : status'[p] = status[p]
        BY <2>4, <2>7 DEF Pays
      <4> HIDE DEF grants
      <4>3. grants' = [grants EXCEPT ![o] = 1]
        BY <2>1, <2>3, <4>2
      <4> QED
        BY <4>1, <4>3
    <3>3. Promise!Grant(o)
      BY <3>1, <3>2 DEF Promise!Grant
    <3> QED
      BY <3>3 DEF Promise!Next
  <2>8. ASSUME NEW S \in SUBSET Orders, Closes(S) PROVE Promise!Next
    <3>1. Promise!Close(S)
      BY <2>1, <2>3, <2>4, <2>8 DEF Closes, Promise!Close, Abstract, Statuses
    <3> QED
      BY <3>1 DEF Promise!Next
  <2> QED
    BY MovesStep, <2>5, <2>6, <2>7, <2>8 DEF Moves
<1> QED
  BY StructureInvariant, <1>1, <1>2, PTL DEF Spec, ImplementsPromise, Promise!Spec

--------------------------------------------------------------------------------
(* The campaign limits *)

\* The orders that take a share of a limit, late ones set aside.
Holds(o) == o \notin late /\ (status[o] = "paid" \/ Live(o))
Holding(S) == {o \in S : Holds(o)}

\* One purchase that found the campaign is in its transaction at a time, and if it
\* has counted there is still room.
Admission ==
  /\ \A a, b \in InTransaction \cap found : a = b
  /\ \A o \in found : pc[o] = "counted" =>
       /\ PerOwnerLimit > 0
            => Cardinality(Holding(found \cap OrdersOf(req[o].owner))) < PerOwnerLimit
       /\ StockLimit > 0 => Cardinality(Holding(found)) < StockLimit

\* Rows of licenses and of orders add up to the orders that hold a share.
LEMMA TakenIsHolding ==
  Structure => \A S \in SUBSET Orders : TakenInTime(S) = Cardinality(Holding(S))
<1> SUFFICES ASSUME Structure, NEW S \in SUBSET Orders
             PROVE  TakenInTime(S) = Cardinality(Holding(S))
  OBVIOUS
<1> DEFINE P == {o \in S \ late : status[o] = "paid"}
           R == CompletedBy(S \ late)
           L == PendingBy(S \ late)
           f == [o \in P |-> CHOOSE l \in licenses : l.order = o]
<1>1. IsFiniteSet(P) /\ IsFiniteSet(L)
  BY ConstantsAssumption, FS_Subset DEF PendingBy
<1>2. \A o \in P : \E l \in licenses : CompletedBy({o}) = {l}
  BY DEF Structure, Issued
<1>3. \A o \in P : f[o] \in R /\ f[o].order = o /\ CompletedBy({o}) = {f[o]}
  BY <1>2 DEF CompletedBy
<1>4. \A l \in R : l.order \in P /\ f[l.order] = l
  <2> SUFFICES ASSUME NEW l \in R PROVE l.order \in P /\ f[l.order] = l
    OBVIOUS
  <2>1. l.order \in S \ late /\ l \in licenses /\ l \in CompletedBy({l.order})
    BY DEF CompletedBy
  <2>2. l.order \in P
    BY <2>1 DEF Structure, Issued
  <2> QED
    BY <2>1, <2>2, <1>3
<1>5. f \in Bijection(P, R)
  <2>1. f \in [P -> R] /\ \A a, b \in P : f[a] = f[b] => a = b
    BY ZenonT(40), <1>3
  <2>2. \A l \in R : \E o \in P : f[o] = l
    BY <1>4
  <2> HIDE DEF P, R, f
  <2> QED
    BY <2>1, <2>2, Fun_IsBij
<1>6. IsFiniteSet(R) /\ Cardinality(R) = Cardinality(P)
  BY <1>1, <1>5, FS_Bijection DEF ExistsBijection
<1>7. P \cap L = {} /\ P \cup L = Holding(S)
  BY DEF PendingBy, Live, Holding, Holds
<1>8. Cardinality(P \cup L) = Cardinality(P) + Cardinality(L) - Cardinality(P \cap L)
  BY <1>1, FS_Union
<1>9. Cardinality(P) \in Nat /\ Cardinality(L) \in Nat
  BY <1>1, FS_CardinalityType
<1>10. TakenInTime(S) = Cardinality(R) + Cardinality(L)
  BY DEF TakenInTime, Taken
<1> HIDE DEF P, R, L
<1>11. Cardinality(P \cap L) = 0
  BY <1>7, FS_EmptySet
<1>12. Cardinality(P \cup L) = Cardinality(P) + Cardinality(L)
  BY <1>8, <1>9, <1>11
<1>13. Cardinality(P \cup L) = Cardinality(Holding(S))
  BY <1>7, Zenon
<1> QED
  BY <1>6, <1>10, <1>12, <1>13

\* The license table is finite: it has no more rows than there are paid orders.
LEMMA LicensesFinite == Structure => IsFiniteSet(licenses)
<1> SUFFICES ASSUME Structure PROVE IsFiniteSet(licenses)
  OBVIOUS
<1> DEFINE P == {o \in Orders : status[o] = "paid"}
           f == [o \in P |-> CHOOSE l \in licenses : l.order = o]
<1>1. IsFiniteSet(P)
  BY ConstantsAssumption, FS_Subset
<1>2. \A o \in P : \E l \in licenses : CompletedBy({o}) = {l}
  BY DEF Structure, Issued
<1>3. \A o \in P : f[o] \in licenses /\ CompletedBy({o}) = {f[o]}
  BY <1>2 DEF CompletedBy
<1>4. \A l \in licenses : l.order \in P /\ f[l.order] = l
  <2> SUFFICES ASSUME NEW l \in licenses PROVE l.order \in P /\ f[l.order] = l
    OBVIOUS
  <2>1. l.order \in Orders /\ l \in CompletedBy({l.order})
    BY DEF Structure, TypeOK, CompletedBy
  <2>2. l.order \in P
    BY <2>1 DEF Structure, Issued
  <2> QED
    BY <2>1, <2>2, <1>3
<1>5. f \in Surjection(P, licenses)
  BY <1>3, <1>4, Fun_IsSurj
<1> QED
  BY <1>1, <1>5, FS_Surjection

\* What a transaction counts is a number.
LEMMA TakenType ==
  Structure => \A S \in SUBSET Orders :
    /\ IsFiniteSet(CompletedBy(S)) /\ IsFiniteSet(PendingBy(S))
    /\ Cardinality(CompletedBy(S)) \in Nat /\ Cardinality(PendingBy(S)) \in Nat
    /\ Taken(S) \in Nat
<1> SUFFICES ASSUME Structure, NEW S \in SUBSET Orders
             PROVE  /\ IsFiniteSet(CompletedBy(S)) /\ IsFiniteSet(PendingBy(S))
                    /\ Cardinality(CompletedBy(S)) \in Nat /\ Cardinality(PendingBy(S)) \in Nat
                    /\ Taken(S) \in Nat
  OBVIOUS
<1>1. CompletedBy(S) \in SUBSET licenses /\ PendingBy(S) \in SUBSET Orders
  BY DEF CompletedBy, PendingBy
<1>2. IsFiniteSet(CompletedBy(S)) /\ IsFiniteSet(PendingBy(S))
  BY <1>1, LicensesFinite, FS_Subset, ConstantsAssumption
<1>3. Cardinality(CompletedBy(S)) \in Nat /\ Cardinality(PendingBy(S)) \in Nat
  BY <1>2, FS_CardinalityType
<1> QED
  BY <1>2, <1>3 DEF Taken

\* What a transaction counted is no less than what the campaign's orders among the
\* counted ones hold in time.
LEMMA HoldingIsTaken ==
  Structure => \A S \in SUBSET Orders : Cardinality(Holding(found \cap S)) <= Taken(S)
<1> SUFFICES ASSUME Structure, NEW S \in SUBSET Orders
             PROVE  Cardinality(Holding(found \cap S)) <= Taken(S)
  OBVIOUS
<1> DEFINE U == found \cap S
           T == U \ late
<1>1. T \in SUBSET Orders /\ U \in SUBSET Orders
  OBVIOUS
<1>2. CompletedBy(T) \in SUBSET CompletedBy(S) /\ PendingBy(T) \in SUBSET PendingBy(S)
  BY DEF CompletedBy, PendingBy
<1>3. /\ Cardinality(CompletedBy(T)) <= Cardinality(CompletedBy(S))
      /\ Cardinality(PendingBy(T)) <= Cardinality(PendingBy(S))
  BY <1>2, TakenType, FS_Subset
<1>4. TakenInTime(U) = Taken(T) /\ TakenInTime(U) = Cardinality(Holding(U))
  BY <1>1, TakenIsHolding DEF TakenInTime
<1> HIDE DEF T, U
<1>5. Taken(T) <= Taken(S)
  BY <1>1, <1>3, TakenType DEF Taken
<1>6. Cardinality(Holding(U)) <= Taken(S)
  BY <1>4, <1>5
<1> QED
  BY <1>6 DEF U

SharesTaken ==
  \A p \in Orders :
    Holds(p)' => Holds(p) \/ (status[p] = "none" /\ status'[p] # "none")

\* A share is taken only by an order that has counted and now commits.
LEMMA HoldsStep == Structure /\ [Next]_vars => SharesTaken
<1> SUFFICES ASSUME Structure, [Next]_vars PROVE SharesTaken
  OBVIOUS
<1> USE DEF Structure, purchaseVars, fundVars, scanVars, SharesTaken, Holds, Live,
            TypeOK, Phases, RowLocks
<1>1. ASSUME NEW o \in Orders, NEW r \in Requests, Quote(o, r) PROVE SharesTaken
  BY <1>1 DEF Quote
<1>2. ASSUME NEW o \in Orders, LockCampaign(o) PROVE SharesTaken
  BY <1>2 DEF LockCampaign
<1>3. ASSUME NEW o \in Orders, CountTaken(o) PROVE SharesTaken
  BY <1>3 DEF CountTaken
<1>4. ASSUME NEW o \in Orders, Rollback(o) PROVE SharesTaken
  BY <1>4 DEF Rollback
<1>5. ASSUME NEW o \in Orders, CommitOnline(o) PROVE SharesTaken
  BY <1>5 DEF CommitOnline
<1>6. ASSUME NEW o \in Orders, CommitBalance(o) PROVE SharesTaken
  BY <1>6 DEF CommitBalance, IssueAtOnce
<1>7. ASSUME NEW o \in Orders, CommitQuota(o) PROVE SharesTaken
  BY <1>7 DEF CommitQuota, IssueAtOnce
<1>8. ASSUME NEW o \in Orders, CommitFree(o) PROVE SharesTaken
  BY <1>8 DEF CommitFree, IssueAtOnce
<1>9. ASSUME NEW o \in Orders, GatewayAccepts(o) PROVE SharesTaken
  BY <1>9 DEF GatewayAccepts
<1>10. ASSUME NEW o \in Orders, GatewayRefuses(o) PROVE SharesTaken
  BY <1>10 DEF GatewayRefuses
<1>11. ASSUME NEW o \in Orders, Pay(o) PROVE SharesTaken
  BY <1>11 DEF Pay
<1>12. ASSUME NEW o \in Orders, Lapse(o) PROVE SharesTaken
  BY <1>12 DEF Lapse
<1>13. ASSUME NEW o \in Orders, NEW k \in Callbacks, SettleBegin(o, k) PROVE SharesTaken
  BY <1>13 DEF SettleBegin
<1>14. ASSUME NEW o \in Orders, NEW k \in Callbacks, SettleCommit(o, k) PROVE SharesTaken
  BY <1>14 DEF SettleCommit
<1>15. ASSUME NEW o \in Orders, NEW k \in Callbacks, SettleAbort(o, k) PROVE SharesTaken
  BY <1>15 DEF SettleAbort
<1>16. ASSUME NEW o \in Orders, ScanRow(o) PROVE SharesTaken
  BY <1>16 DEF ScanRow
<1>17. CASE ScanBegin
  BY <1>17 DEF ScanBegin
<1>18. CASE ScanEnd
  BY <1>18 DEF ScanEnd
<1>19. CASE ToggleCampaign
  BY <1>19 DEF ToggleCampaign
<1>20. CASE UNCHANGED vars
  BY <1>20 DEF vars
<1> QED
  BY <1>1, <1>2, <1>3, <1>4, <1>5, <1>6, <1>7, <1>8, <1>9, <1>10,
     <1>11, <1>12, <1>13, <1>14, <1>15, <1>16, <1>17, <1>18, <1>19, <1>20
  DEF Next, Purchase, Settle

OneAdmitted ==
  \A p \in Orders : status[p] = "none" /\ status'[p] # "none" =>
    /\ pc[p] = "counted" /\ pc'[p] \notin {"locked", "counted"}
    /\ req' = req /\ found' = found
    /\ \A q \in Orders \ {p} : pc'[q] = pc[q] /\ status'[q] = status[q]

\* An order enters its table by the commit of its own purchase transaction.
LEMMA AdmittedStep == Structure /\ [Next]_vars => OneAdmitted
<1> SUFFICES ASSUME Structure, [Next]_vars PROVE OneAdmitted
  OBVIOUS
<1> USE DEF Structure, purchaseVars, fundVars, scanVars, OneAdmitted, TypeOK, Phases,
            RowLocks
<1>1. ASSUME NEW o \in Orders, NEW r \in Requests, Quote(o, r) PROVE OneAdmitted
  BY <1>1 DEF Quote
<1>2. ASSUME NEW o \in Orders, LockCampaign(o) PROVE OneAdmitted
  BY <1>2 DEF LockCampaign
<1>3. ASSUME NEW o \in Orders, CountTaken(o) PROVE OneAdmitted
  BY <1>3 DEF CountTaken
<1>4. ASSUME NEW o \in Orders, Rollback(o) PROVE OneAdmitted
  BY <1>4 DEF Rollback
<1>5. ASSUME NEW o \in Orders, CommitOnline(o) PROVE OneAdmitted
  BY <1>5 DEF CommitOnline
<1>6. ASSUME NEW o \in Orders, CommitBalance(o) PROVE OneAdmitted
  BY <1>6 DEF CommitBalance, IssueAtOnce
<1>7. ASSUME NEW o \in Orders, CommitQuota(o) PROVE OneAdmitted
  BY <1>7 DEF CommitQuota, IssueAtOnce
<1>8. ASSUME NEW o \in Orders, CommitFree(o) PROVE OneAdmitted
  BY <1>8 DEF CommitFree, IssueAtOnce
<1>9. ASSUME NEW o \in Orders, GatewayAccepts(o) PROVE OneAdmitted
  BY <1>9 DEF GatewayAccepts
<1>10. ASSUME NEW o \in Orders, GatewayRefuses(o) PROVE OneAdmitted
  BY <1>10 DEF GatewayRefuses
<1>11. ASSUME NEW o \in Orders, Pay(o) PROVE OneAdmitted
  BY <1>11 DEF Pay
<1>12. ASSUME NEW o \in Orders, Lapse(o) PROVE OneAdmitted
  BY <1>12 DEF Lapse
<1>13. ASSUME NEW o \in Orders, NEW k \in Callbacks, SettleBegin(o, k) PROVE OneAdmitted
  BY <1>13 DEF SettleBegin
<1>14. ASSUME NEW o \in Orders, NEW k \in Callbacks, SettleCommit(o, k) PROVE OneAdmitted
  BY <1>14 DEF SettleCommit
<1>15. ASSUME NEW o \in Orders, NEW k \in Callbacks, SettleAbort(o, k) PROVE OneAdmitted
  BY <1>15 DEF SettleAbort
<1>16. ASSUME NEW o \in Orders, ScanRow(o) PROVE OneAdmitted
  BY <1>16 DEF ScanRow
<1>17. CASE ScanBegin
  BY <1>17 DEF ScanBegin
<1>18. CASE ScanEnd
  BY <1>18 DEF ScanEnd
<1>19. CASE ToggleCampaign
  BY <1>19 DEF ToggleCampaign
<1>20. CASE UNCHANGED vars
  BY <1>20 DEF vars
<1> QED
  BY <1>1, <1>2, <1>3, <1>4, <1>5, <1>6, <1>7, <1>8, <1>9, <1>10,
     <1>11, <1>12, <1>13, <1>14, <1>15, <1>16, <1>17, <1>18, <1>19, <1>20
  DEF Next, Purchase, Settle

\* In a step that admits nobody a set of orders holds no more than before, and in one
\* that admits p at most one more, provided the set gains no order that holds.
LEMMA HoldingBounds ==
  ASSUME Structure, Structure', [Next]_vars,
         NEW S \in SUBSET Orders, NEW T \in SUBSET Orders,
         \A o \in T \ S : ~Holds(o)'
  PROVE  /\ IsFiniteSet(Holding(S)) /\ Cardinality(Holding(S)) \in Nat
         /\ Cardinality({o \in T : Holds(o)'}) \in Nat
         /\ (\A o \in T : status[o] = "none" => status'[o] = "none")
              => Cardinality({o \in T : Holds(o)'}) <= Cardinality(Holding(S))
         /\ \A p \in Orders : status[p] = "none" /\ status'[p] # "none"
              => Cardinality({o \in T : Holds(o)'}) <= Cardinality(Holding(S)) + 1
<1> DEFINE Before == Holding(S)
           After == {o \in T : Holds(o)'}
<1>1. IsFiniteSet(Before) /\ IsFiniteSet(After)
  BY ConstantsAssumption, FS_Subset DEF Holding
<1>2. Cardinality(Before) \in Nat /\ Cardinality(After) \in Nat
  BY <1>1, FS_CardinalityType
<1>3. ASSUME \A o \in T : status[o] = "none" => status'[o] = "none"
      PROVE  Cardinality(After) <= Cardinality(Before)
  <2>1. After \in SUBSET Before
    BY <1>3, HoldsStep DEF Holding, SharesTaken
  <2> QED
    BY <1>1, <2>1, FS_Subset
<1>4. ASSUME NEW p \in Orders, status[p] = "none", status'[p] # "none"
      PROVE  Cardinality(After) <= Cardinality(Before) + 1
  <2>1. \A q \in Orders \ {p} : status'[q] = status[q]
    BY <1>4, AdmittedStep DEF OneAdmitted
  <2>2. After \in SUBSET (Before \cup {p})
    BY <2>1, HoldsStep DEF Holding, SharesTaken
  <2> HIDE DEF Before, After
  <2>3. IsFiniteSet(Before \cup {p}) /\ Cardinality(Before \cup {p}) <= Cardinality(Before) + 1
    BY <1>1, <1>2, FS_AddElement
  <2>4. Cardinality(After) <= Cardinality(Before \cup {p})
    BY <2>2, <2>3, FS_Subset
  <2>5. Cardinality(Before \cup {p}) \in Nat
    BY <2>3, FS_CardinalityType
  <2> QED
    BY <1>2, <2>3, <2>4, <2>5
<1> QED
  BY <1>1, <1>2, <1>3, <1>4

JoinsEarly ==
  \A p \in Orders :
    /\ req'[p] # req[p] => pc'[p] = "quoted"
    /\ p \in found' \ found => pc'[p] = "locked"

\* Only quoting gives an order its request.
LEMMA RequestStep == Structure /\ [Next]_vars => JoinsEarly
<1> SUFFICES ASSUME Structure, [Next]_vars PROVE JoinsEarly
  OBVIOUS
<1> USE DEF Structure, purchaseVars, fundVars, scanVars, JoinsEarly, TypeOK
<1>1. ASSUME NEW o \in Orders, NEW r \in Requests, Quote(o, r) PROVE JoinsEarly
  BY <1>1 DEF Quote
<1>2. ASSUME NEW o \in Orders, LockCampaign(o) PROVE JoinsEarly
  BY <1>2 DEF LockCampaign
<1>3. ASSUME NEW o \in Orders, CountTaken(o) PROVE JoinsEarly
  BY <1>3 DEF CountTaken
<1>4. ASSUME NEW o \in Orders, Rollback(o) PROVE JoinsEarly
  BY <1>4 DEF Rollback
<1>5. ASSUME NEW o \in Orders, CommitOnline(o) PROVE JoinsEarly
  BY <1>5 DEF CommitOnline
<1>6. ASSUME NEW o \in Orders, CommitBalance(o) PROVE JoinsEarly
  BY <1>6 DEF CommitBalance, IssueAtOnce
<1>7. ASSUME NEW o \in Orders, CommitQuota(o) PROVE JoinsEarly
  BY <1>7 DEF CommitQuota, IssueAtOnce
<1>8. ASSUME NEW o \in Orders, CommitFree(o) PROVE JoinsEarly
  BY <1>8 DEF CommitFree, IssueAtOnce
<1>9. ASSUME NEW o \in Orders, GatewayAccepts(o) PROVE JoinsEarly
  BY <1>9 DEF GatewayAccepts
<1>10. ASSUME NEW o \in Orders, GatewayRefuses(o) PROVE JoinsEarly
  BY <1>10 DEF GatewayRefuses
<1>11. ASSUME NEW o \in Orders, Pay(o) PROVE JoinsEarly
  BY <1>11 DEF Pay
<1>12. ASSUME NEW o \in Orders, Lapse(o) PROVE JoinsEarly
  BY <1>12 DEF Lapse
<1>13. ASSUME NEW o \in Orders, NEW k \in Callbacks, SettleBegin(o, k) PROVE JoinsEarly
  BY <1>13 DEF SettleBegin
<1>14. ASSUME NEW o \in Orders, NEW k \in Callbacks, SettleCommit(o, k) PROVE JoinsEarly
  BY <1>14 DEF SettleCommit
<1>15. ASSUME NEW o \in Orders, NEW k \in Callbacks, SettleAbort(o, k) PROVE JoinsEarly
  BY <1>15 DEF SettleAbort
<1>16. ASSUME NEW o \in Orders, ScanRow(o) PROVE JoinsEarly
  BY <1>16 DEF ScanRow
<1>17. CASE ScanBegin
  BY <1>17 DEF ScanBegin
<1>18. CASE ScanEnd
  BY <1>18 DEF ScanEnd
<1>19. CASE ToggleCampaign
  BY <1>19 DEF ToggleCampaign
<1>20. CASE UNCHANGED vars
  BY <1>20 DEF vars
<1> QED
  BY <1>1, <1>2, <1>3, <1>4, <1>5, <1>6, <1>7, <1>8, <1>9, <1>10,
     <1>11, <1>12, <1>13, <1>14, <1>15, <1>16, <1>17, <1>18, <1>19, <1>20
  DEF Next, Purchase, Settle

\* An order joins its owner's orders, and the campaign's, before it holds a share.
LEMMA JoinsStep ==
  Structure /\ Structure' /\ [Next]_vars =>
    /\ \A x : \A o \in (found \cap OrdersOf(x))' \ (found \cap OrdersOf(x)) : ~Holds(o)'
    /\ \A o \in found' \ found : ~Holds(o)'
<1> SUFFICES ASSUME Structure, Structure', [Next]_vars
             PROVE  /\ \A x : \A o \in (found \cap OrdersOf(x))' \ (found \cap OrdersOf(x)) :
                                ~Holds(o)'
                    /\ \A o \in found' \ found : ~Holds(o)'
  OBVIOUS
<1>1. ASSUME NEW o \in Orders, pc'[o] \in {"quoted", "locked"} PROVE ~Holds(o)'
  BY <1>1 DEF Structure, Phases, Holds, Live
<1>2. \A o \in found' \ found : ~Holds(o)'
  BY <1>1, RequestStep DEF JoinsEarly, Structure, TypeOK
<1>3. ASSUME NEW x, NEW o \in (found \cap OrdersOf(x))', o \notin found \cap OrdersOf(x)
      PROVE  ~Holds(o)'
  <2>1. o \in Orders /\ (req'[o] # req[o] \/ o \in found' \ found)
    BY <1>3 DEF OrdersOf
  <2> QED
    BY <2>1, <1>1, RequestStep DEF JoinsEarly
<1> QED
  BY <1>2, <1>3

RowExclusive == \A a, b \in (InTransaction \cap found)' : a = b

\* The campaign row admits one transaction at a time.
LEMMA LockStep == Structure /\ Admission /\ [Next]_vars => RowExclusive
<1> SUFFICES ASSUME Structure, Admission, [Next]_vars PROVE RowExclusive
  OBVIOUS
<1> USE DEF Structure, purchaseVars, fundVars, scanVars, RowExclusive, Admission,
            InTransaction, TypeOK
<1>1. ASSUME NEW o \in Orders, NEW r \in Requests, Quote(o, r) PROVE RowExclusive
  BY <1>1 DEF Quote
<1>2. ASSUME NEW o \in Orders, LockCampaign(o) PROVE RowExclusive
  <2>1. o \notin found /\ o \notin InTransaction
    BY <1>2 DEF LockCampaign, Phases, InTransaction
  <2>2. InTransaction' = InTransaction \cup {o}
    BY <1>2 DEF LockCampaign, InTransaction, TypeOK
  <2>3. CASE campaign
    BY <1>2, <2>1, <2>2, <2>3 DEF LockCampaign, RowExclusive
  <2>4. CASE ~campaign
    BY <1>2, <2>1, <2>2, <2>4 DEF LockCampaign, RowExclusive, Admission
  <2> QED
    BY <2>3, <2>4
<1>3. ASSUME NEW o \in Orders, CountTaken(o) PROVE RowExclusive
  BY <1>3 DEF CountTaken
<1>4. ASSUME NEW o \in Orders, Rollback(o) PROVE RowExclusive
  BY <1>4 DEF Rollback
<1>5. ASSUME NEW o \in Orders, CommitOnline(o) PROVE RowExclusive
  BY <1>5 DEF CommitOnline
<1>6. ASSUME NEW o \in Orders, CommitBalance(o) PROVE RowExclusive
  BY <1>6 DEF CommitBalance, IssueAtOnce
<1>7. ASSUME NEW o \in Orders, CommitQuota(o) PROVE RowExclusive
  BY <1>7 DEF CommitQuota, IssueAtOnce
<1>8. ASSUME NEW o \in Orders, CommitFree(o) PROVE RowExclusive
  BY <1>8 DEF CommitFree, IssueAtOnce
<1>9. ASSUME NEW o \in Orders, GatewayAccepts(o) PROVE RowExclusive
  BY <1>9 DEF GatewayAccepts
<1>10. ASSUME NEW o \in Orders, GatewayRefuses(o) PROVE RowExclusive
  BY <1>10 DEF GatewayRefuses
<1>11. ASSUME NEW o \in Orders, Pay(o) PROVE RowExclusive
  BY <1>11 DEF Pay
<1>12. ASSUME NEW o \in Orders, Lapse(o) PROVE RowExclusive
  BY <1>12 DEF Lapse
<1>13. ASSUME NEW o \in Orders, NEW k \in Callbacks, SettleBegin(o, k) PROVE RowExclusive
  BY <1>13 DEF SettleBegin
<1>14. ASSUME NEW o \in Orders, NEW k \in Callbacks, SettleCommit(o, k) PROVE RowExclusive
  BY <1>14 DEF SettleCommit
<1>15. ASSUME NEW o \in Orders, NEW k \in Callbacks, SettleAbort(o, k) PROVE RowExclusive
  BY <1>15 DEF SettleAbort
<1>16. ASSUME NEW o \in Orders, ScanRow(o) PROVE RowExclusive
  BY <1>16 DEF ScanRow
<1>17. CASE ScanBegin
  BY <1>17 DEF ScanBegin
<1>18. CASE ScanEnd
  BY <1>18 DEF ScanEnd
<1>19. CASE ToggleCampaign
  BY <1>19 DEF ToggleCampaign
<1>20. CASE UNCHANGED vars
  BY <1>20 DEF vars
<1> QED
  BY <1>1, <1>2, <1>3, <1>4, <1>5, <1>6, <1>7, <1>8, <1>9, <1>10,
     <1>11, <1>12, <1>13, <1>14, <1>15, <1>16, <1>17, <1>18, <1>19, <1>20
  DEF Next, Purchase, Settle

CountsKept ==
  \A q \in found' : pc'[q] = "counted" =>
    /\ q \in found /\ req'[q] = req[q] /\ q \in InTransaction
    /\ pc[q] = "counted" \/ WithinLimits(req[q].owner)

\* A purchase that has counted was in its transaction before, under the same campaign.
LEMMA CountedStep == Structure /\ [Next]_vars => CountsKept
<1> SUFFICES ASSUME Structure, [Next]_vars PROVE CountsKept
  OBVIOUS
<1> USE DEF Structure, purchaseVars, fundVars, scanVars, CountsKept, InTransaction,
            TypeOK
<1>1. ASSUME NEW o \in Orders, NEW r \in Requests, Quote(o, r) PROVE CountsKept
  BY <1>1 DEF Quote
<1>2. ASSUME NEW o \in Orders, LockCampaign(o) PROVE CountsKept
  BY <1>2 DEF LockCampaign
<1>3. ASSUME NEW o \in Orders, CountTaken(o) PROVE CountsKept
  BY <1>3 DEF CountTaken
<1>4. ASSUME NEW o \in Orders, Rollback(o) PROVE CountsKept
  BY <1>4 DEF Rollback
<1>5. ASSUME NEW o \in Orders, CommitOnline(o) PROVE CountsKept
  BY <1>5 DEF CommitOnline
<1>6. ASSUME NEW o \in Orders, CommitBalance(o) PROVE CountsKept
  BY <1>6 DEF CommitBalance, IssueAtOnce
<1>7. ASSUME NEW o \in Orders, CommitQuota(o) PROVE CountsKept
  BY <1>7 DEF CommitQuota, IssueAtOnce
<1>8. ASSUME NEW o \in Orders, CommitFree(o) PROVE CountsKept
  BY <1>8 DEF CommitFree, IssueAtOnce
<1>9. ASSUME NEW o \in Orders, GatewayAccepts(o) PROVE CountsKept
  BY <1>9 DEF GatewayAccepts
<1>10. ASSUME NEW o \in Orders, GatewayRefuses(o) PROVE CountsKept
  BY <1>10 DEF GatewayRefuses
<1>11. ASSUME NEW o \in Orders, Pay(o) PROVE CountsKept
  BY <1>11 DEF Pay
<1>12. ASSUME NEW o \in Orders, Lapse(o) PROVE CountsKept
  BY <1>12 DEF Lapse
<1>13. ASSUME NEW o \in Orders, NEW k \in Callbacks, SettleBegin(o, k) PROVE CountsKept
  BY <1>13 DEF SettleBegin
<1>14. ASSUME NEW o \in Orders, NEW k \in Callbacks, SettleCommit(o, k) PROVE CountsKept
  BY <1>14 DEF SettleCommit
<1>15. ASSUME NEW o \in Orders, NEW k \in Callbacks, SettleAbort(o, k) PROVE CountsKept
  BY <1>15 DEF SettleAbort
<1>16. ASSUME NEW o \in Orders, ScanRow(o) PROVE CountsKept
  BY <1>16 DEF ScanRow
<1>17. CASE ScanBegin
  BY <1>17 DEF ScanBegin
<1>18. CASE ScanEnd
  BY <1>18 DEF ScanEnd
<1>19. CASE ToggleCampaign
  BY <1>19 DEF ToggleCampaign
<1>20. CASE UNCHANGED vars
  BY <1>20 DEF vars
<1> QED
  BY <1>1, <1>2, <1>3, <1>4, <1>5, <1>6, <1>7, <1>8, <1>9, <1>10,
     <1>11, <1>12, <1>13, <1>14, <1>15, <1>16, <1>17, <1>18, <1>19, <1>20
  DEF Next, Purchase, Settle

\* The limits survive every step: a share is handed back at any time, but taken, among
\* the purchases that found the campaign, only by the one that holds its row and has
\* counted.
LEMMA AdmissionStep == Structure /\ Structure' /\ Admission /\ [Next]_vars => Admission'
<1> SUFFICES ASSUME Structure, Structure', Admission, [Next]_vars
             PROVE  Admission'
  OBVIOUS
<1>1. \A a, b \in (InTransaction \cap found)' : a = b
  BY LockStep DEF RowExclusive
<1>2. ASSUME NEW q \in found', pc'[q] = "counted"
      PROVE  /\ PerOwnerLimit > 0
                  => Cardinality(Holding(found \cap OrdersOf(req[q].owner)))' < PerOwnerLimit
             /\ StockLimit > 0 => Cardinality(Holding(found))' < StockLimit
  <2> PICK x : x = req[q].owner
    OBVIOUS
  <2> DEFINE mine == found \cap OrdersOf(x)
             mineNext == (found \cap OrdersOf(x))'
  <2>1. /\ q \in found /\ req'[q] = req[q] /\ q \in InTransaction
        /\ pc[q] = "counted" \/ WithinLimits(req[q].owner)
    BY <1>2, CountedStep DEF CountsKept
  <2>2. \A o \in found' : status[o] = "none" => status'[o] = "none"
    <3> SUFFICES ASSUME NEW o \in found', status[o] = "none", status'[o] # "none"
                 PROVE  FALSE
      OBVIOUS
    <3>1. /\ pc[o] = "counted" /\ pc'[o] \notin {"locked", "counted"}
          /\ o \in found /\ o \in Orders
      BY AdmittedStep DEF OneAdmitted, Structure, TypeOK
    <3>2. o = q
      BY <2>1, <3>1 DEF Admission, InTransaction
    <3> QED
      BY <3>1, <3>2, <1>2
  <2>3. /\ mine \in SUBSET Orders /\ mineNext \in SUBSET Orders
        /\ found \in SUBSET Orders /\ found' \in SUBSET Orders /\ mineNext \subseteq found'
    BY DEF OrdersOf, Structure, TypeOK
  <2>4. /\ \A o \in mineNext \ mine : ~Holds(o)'
        /\ \A o \in found' \ found : ~Holds(o)'
    BY JoinsStep
  <2>5. /\ Cardinality({o \in mineNext : Holds(o)'}) <= Cardinality(Holding(mine))
        /\ Cardinality({o \in mineNext : Holds(o)'}) \in Nat
        /\ Cardinality(Holding(mine)) \in Nat
    <3> HIDE DEF mine, mineNext
    <3> QED
      BY <2>2, <2>3, <2>4, HoldingBounds
  <2>6. /\ Cardinality({o \in found' : Holds(o)'}) <= Cardinality(Holding(found))
        /\ Cardinality({o \in found' : Holds(o)'}) \in Nat
        /\ Cardinality(Holding(found)) \in Nat
    BY <2>2, <2>3, <2>4, HoldingBounds
  <2>7. /\ PerOwnerLimit > 0 => Cardinality(Holding(mine)) < PerOwnerLimit
        /\ StockLimit > 0 => Cardinality(Holding(found)) < StockLimit
    <3>1. CASE pc[q] = "counted"
      BY <2>1, <3>1 DEF Admission
    <3>2. CASE WithinLimits(req[q].owner)
      <4>1. OrdersOf(x) \in SUBSET Orders /\ Orders \in SUBSET Orders /\ found \cap Orders = found
        BY <2>3 DEF OrdersOf
      <4>2. /\ Cardinality(Holding(mine)) <= Taken(OrdersOf(x))
            /\ Cardinality(Holding(found)) <= Taken(Orders)
        BY <4>1, HoldingIsTaken
      <4>3. Taken(OrdersOf(x)) \in Nat /\ Taken(Orders) \in Nat
        BY <4>1, TakenType
      <4> QED
        BY <3>2, <4>2, <4>3, <2>5, <2>6, ConstantsAssumption DEF WithinLimits
    <3> QED
      BY <2>1, <3>1, <3>2
  <2>8. Holding(found \cap OrdersOf(req[q].owner))' = {o \in mineNext : Holds(o)'}
    <3>1. req'[q].owner = x
      BY <2>1
    <3> QED
      BY <3>1 DEF Holding, OrdersOf
  <2>9. Holding(found)' = {o \in found' : Holds(o)'}
    BY DEF Holding
  <2> HIDE DEF mine, mineNext
  <2>10. PerOwnerLimit > 0 => Cardinality({o \in mineNext : Holds(o)'}) < PerOwnerLimit
    BY <2>5, <2>7, ConstantsAssumption
  <2>11. StockLimit > 0 => Cardinality({o \in found' : Holds(o)'}) < StockLimit
    BY <2>6, <2>7, ConstantsAssumption
  <2> QED
    BY <2>8, <2>9, <2>10, <2>11
<1> QED
  BY <1>1, <1>2 DEF Admission

\* The rows an owner and the plan have taken under the campaign are the orders among
\* them that hold a share.
TakenAccounted ==
  /\ \A x : TakenInTime(found \cap OrdersOf(x)) = Cardinality(Holding(found \cap OrdersOf(x)))
  /\ TakenInTime(found) = Cardinality(Holding(found))

\* In every state that the structural invariant describes they are.
LEMMA TakenByOwner == Structure => TakenAccounted
<1> SUFFICES ASSUME Structure PROVE TakenAccounted
  OBVIOUS
<1>1. found \in SUBSET Orders /\ \A x : found \cap OrdersOf(x) \in SUBSET Orders
  BY DEF OrdersOf, Structure, TypeOK
<1> QED
  BY <1>1, TakenIsHolding DEF TakenAccounted

\* At the start nobody is in a transaction.
LEMMA InitAdmission == Init => Admission
BY DEF Init, Admission, InTransaction

\* Purchases admitted under a campaign stay within the limit of their owner and within
\* the stock, whatever settles, expires or is bought between the count and the commit.
THEOREM LimitsRespected == Spec => AdmissionWithinLimits
<1> DEFINE Within(o) ==
             /\ PerOwnerLimit > 0
                  => TakenInTime(found \cap OrdersOf(req[o].owner))' <= PerOwnerLimit
             /\ StockLimit > 0 => TakenInTime(found)' <= StockLimit
<1>1. Structure /\ Structure' /\ Admission /\ [Next]_vars
      => [\A o \in Orders : Admitted(o) => Within(o)]_vars
  <2> SUFFICES ASSUME Structure, Structure', Admission, [Next]_vars,
                      NEW o \in Orders, Admitted(o)
               PROVE  Within(o)
    OBVIOUS
  <2> PICK x : x = req[o].owner
    OBVIOUS
  <2> DEFINE mine == found \cap OrdersOf(x)
             mineNext == (found \cap OrdersOf(x))'
  <2>1. status[o] = "none" /\ status'[o] # "none" /\ o \in found
    BY DEF Admitted
  <2>2. pc[o] = "counted" /\ req' = req
    BY <2>1, AdmittedStep DEF OneAdmitted
  <2>3. /\ mine \in SUBSET Orders /\ mineNext \in SUBSET Orders
        /\ found \in SUBSET Orders /\ found' \in SUBSET Orders
    BY DEF OrdersOf, Structure, TypeOK
  <2>4. /\ \A p \in mineNext \ mine : ~Holds(p)'
        /\ \A p \in found' \ found : ~Holds(p)'
    BY JoinsStep
  <2>5. /\ Cardinality({p \in mineNext : Holds(p)'}) <= Cardinality(Holding(mine)) + 1
        /\ Cardinality({p \in mineNext : Holds(p)'}) \in Nat
        /\ Cardinality(Holding(mine)) \in Nat
    <3> HIDE DEF mine, mineNext
    <3> QED
      BY <2>1, <2>3, <2>4, HoldingBounds
  <2>6. /\ Cardinality({p \in found' : Holds(p)'}) <= Cardinality(Holding(found)) + 1
        /\ Cardinality({p \in found' : Holds(p)'}) \in Nat
        /\ Cardinality(Holding(found)) \in Nat
    BY <2>1, <2>3, <2>4, HoldingBounds
  <2>7. /\ PerOwnerLimit > 0 => Cardinality(Holding(mine)) < PerOwnerLimit
        /\ StockLimit > 0 => Cardinality(Holding(found)) < StockLimit
    BY <2>1, <2>2 DEF Admission
  <2>8. /\ Holding(found \cap OrdersOf(x))' = {p \in mineNext : Holds(p)'}
        /\ Holding(found)' = {p \in found' : Holds(p)'}
    BY DEF Holding
  <2>9. TakenAccounted'
    BY TakenByOwner, PTL
  <2>10. /\ TakenInTime(found \cap OrdersOf(x))' = Cardinality({p \in mineNext : Holds(p)'})
         /\ TakenInTime(found)' = Cardinality({p \in found' : Holds(p)'})
    BY <2>8, <2>9 DEF TakenAccounted
  <2>11. TakenInTime(found \cap OrdersOf(req[o].owner))' = TakenInTime(found \cap OrdersOf(x))'
    <3>1. req'[o].owner = x
      BY <2>2
    <3> QED
      BY <3>1 DEF OrdersOf, TakenInTime, Taken, CompletedBy, PendingBy
  <2> HIDE DEF mine, mineNext
  <2> QED
    BY <2>5, <2>6, <2>7, <2>10, <2>11, ConstantsAssumption
<1> QED
  BY InitAdmission, AdmissionStep, StructureInvariant, <1>1, PTL DEF Spec, AdmissionWithinLimits

--------------------------------------------------------------------------------
(* The balances *)

\* The payer whose balance paid for an order, if one did.
SpentBy(o) ==
  {p \in {req[o].payer} : req[o].method = "balance" /\ status[o] = "paid"}

Unspent == balance' = balance /\ \A o \in Orders : SpentBy(o)' = SpentBy(o)

BalanceSteps == (\E o \in Orders : CommitBalance(o)) \/ Unspent

\* Only a balance purchase's commit spends a balance.
LEMMA BalanceStepsOnly == Structure /\ [Next]_vars => BalanceSteps
<1> SUFFICES ASSUME Structure, [Next]_vars PROVE BalanceSteps
  OBVIOUS
<1> USE DEF Structure, purchaseVars, fundVars, scanVars, BalanceSteps
<1>1. ASSUME NEW o \in Orders, NEW r \in Requests, Quote(o, r) PROVE BalanceSteps
  BY <1>1 DEF Quote, Unspent, SpentBy, TypeOK, Phases, RowLocks
<1>2. ASSUME NEW o \in Orders, LockCampaign(o) PROVE BalanceSteps
  BY <1>2 DEF LockCampaign, Unspent, SpentBy, TypeOK, Phases, RowLocks
<1>3. ASSUME NEW o \in Orders, CountTaken(o) PROVE BalanceSteps
  BY <1>3 DEF CountTaken, Unspent, SpentBy, TypeOK, Phases, RowLocks
<1>4. ASSUME NEW o \in Orders, Rollback(o) PROVE BalanceSteps
  BY <1>4 DEF Rollback, Unspent, SpentBy, TypeOK, Phases, RowLocks
<1>5. ASSUME NEW o \in Orders, CommitOnline(o) PROVE BalanceSteps
  BY <1>5 DEF CommitOnline, Unspent, SpentBy, TypeOK, Phases, RowLocks
<1>6. ASSUME NEW o \in Orders, CommitBalance(o) PROVE BalanceSteps
  BY <1>6
<1>7. ASSUME NEW o \in Orders, CommitQuota(o) PROVE BalanceSteps
  BY <1>7 DEF CommitQuota, IssueAtOnce, Unspent, SpentBy, TypeOK, Phases, RowLocks
<1>8. ASSUME NEW o \in Orders, CommitFree(o) PROVE BalanceSteps
  BY <1>8 DEF CommitFree, IssueAtOnce, Unspent, SpentBy, TypeOK, Phases, RowLocks
<1>9. ASSUME NEW o \in Orders, GatewayAccepts(o) PROVE BalanceSteps
  BY <1>9 DEF GatewayAccepts, Unspent, SpentBy, TypeOK, Phases, RowLocks
<1>10. ASSUME NEW o \in Orders, GatewayRefuses(o) PROVE BalanceSteps
  BY <1>10 DEF GatewayRefuses, Unspent, SpentBy, TypeOK, Phases, RowLocks
<1>11. ASSUME NEW o \in Orders, Pay(o) PROVE BalanceSteps
  BY <1>11 DEF Pay, Unspent, SpentBy, TypeOK, Phases, RowLocks
<1>12. ASSUME NEW o \in Orders, Lapse(o) PROVE BalanceSteps
  BY <1>12 DEF Lapse, Unspent, SpentBy, TypeOK, Phases, RowLocks
<1>13. ASSUME NEW o \in Orders, NEW k \in Callbacks, SettleBegin(o, k) PROVE BalanceSteps
  BY <1>13 DEF SettleBegin, Unspent, SpentBy, TypeOK, Phases, RowLocks
<1>14. ASSUME NEW o \in Orders, NEW k \in Callbacks, SettleCommit(o, k) PROVE BalanceSteps
  BY <1>14 DEF SettleCommit, Unspent, SpentBy, TypeOK, Phases, RowLocks
<1>15. ASSUME NEW o \in Orders, NEW k \in Callbacks, SettleAbort(o, k) PROVE BalanceSteps
  BY <1>15 DEF SettleAbort, Unspent, SpentBy, TypeOK, Phases, RowLocks
<1>16. ASSUME NEW o \in Orders, ScanRow(o) PROVE BalanceSteps
  BY <1>16 DEF ScanRow, Unspent, SpentBy, TypeOK, Phases, RowLocks
<1>17. CASE ScanBegin
  BY <1>17 DEF ScanBegin, Unspent, SpentBy, TypeOK, Phases, RowLocks
<1>18. CASE ScanEnd
  BY <1>18 DEF ScanEnd, Unspent, SpentBy, TypeOK, Phases, RowLocks
<1>19. CASE ToggleCampaign
  BY <1>19 DEF ToggleCampaign, Unspent, SpentBy, TypeOK, Phases, RowLocks
<1>20. CASE UNCHANGED vars
  BY <1>20 DEF vars, Unspent, SpentBy, TypeOK, Phases, RowLocks
<1> QED
  BY <1>1, <1>2, <1>3, <1>4, <1>5, <1>6, <1>7, <1>8, <1>9, <1>10,
     <1>11, <1>12, <1>13, <1>14, <1>15, <1>16, <1>17, <1>18, <1>19, <1>20
  DEF Next, Purchase, Settle

\* One order's worth leaves the payer's balance and nobody else's.
LEMMA CommitBalanceSpends ==
  ASSUME Structure, NEW o \in Orders, CommitBalance(o)
  PROVE  /\ req[o].payer \in Owners /\ balance[req[o].payer] \in Nat \ {0}
         /\ balance' = [balance EXCEPT ![req[o].payer] = @ - 1]
         /\ SpentBy(o) = {} /\ SpentBy(o)' = {req[o].payer}
         /\ \A q \in Orders \ {o} : SpentBy(q)' = SpentBy(q)
<1>1. req[o] \in Requests /\ status[o] = "none"
  BY DEF Structure, Phases, CommitBalance, IssueAtOnce
<1>2. req[o].payer \in Owners /\ balance[req[o].payer] \in Nat \ {0}
  BY <1>1, ConstantsAssumption DEF Structure, TypeOK, CommitBalance, RequestType
<1>3. balance' = [balance EXCEPT ![req[o].payer] = @ - 1]
  BY DEF CommitBalance, Deducted
<1>4. req' = req /\ status' = [status EXCEPT ![o] = "paid"] /\ req[o].method = "balance"
  BY DEF CommitBalance, IssueAtOnce
<1>5. SpentBy(o) = {} /\ SpentBy(o)' = {req[o].payer}
  BY <1>1, <1>4 DEF SpentBy, Structure, TypeOK
<1>6. \A q \in Orders \ {o} : SpentBy(q)' = SpentBy(q)
  BY <1>4 DEF SpentBy, Structure, TypeOK
<1> QED
  BY <1>2, <1>3, <1>5, <1>6

\* Concurrent purchases never spend a balance twice: at any time a balance is what it
\* was at the start less one price for each order paid from it.
THEOREM BalancesAdd == Spec => []BalanceAccounted
<1> DEFINE Spent(p) == {o \in Orders : p \in SpentBy(o)}
           Inv == \A p \in Owners : balance[p] + Cardinality(Spent(p)) = InitialBalance
<1>1. BalanceAccounted <=> Inv
  <2>1. \A p : Spent(p) = {o \in Orders : /\ req[o].payer = p
                                          /\ req[o].method = "balance"
                                          /\ status[o] = "paid"}
    BY DEF SpentBy
  <2> HIDE DEF Spent
  <2> QED
    BY <2>1 DEF BalanceAccounted
<1>2. Init => Inv
  <2> SUFFICES ASSUME Init, NEW p \in Owners
               PROVE  balance[p] + Cardinality(Spent(p)) = InitialBalance
    OBVIOUS
  <2>1. Spent(p) = {}
    BY DEF Init, SpentBy
  <2>2. Cardinality(Spent(p)) = 0
    BY <2>1, FS_EmptySet
  <2> QED
    BY <2>2, ConstantsAssumption DEF Init
<1>3. Structure /\ Inv /\ [Next]_vars => Inv'
  <2> SUFFICES ASSUME Structure, Inv, [Next]_vars, NEW p \in Owners
               PROVE  balance'[p] + Cardinality(Spent(p))' = InitialBalance
    OBVIOUS
  <2> DEFINE Before == Spent(p)
             After == {o \in Orders : p \in SpentBy(o)'}
  <2>1. balance[p] \in Nat /\ Cardinality(Before) \in Nat /\ IsFiniteSet(Before)
    <3>1. IsFiniteSet(Before)
      BY ConstantsAssumption, FS_Subset
    <3> QED
      BY <3>1, FS_CardinalityType DEF Structure, TypeOK
  <2>2. balance[p] + Cardinality(Before) = InitialBalance
    OBVIOUS
  <2>3. balance'[p] + Cardinality(After) = InitialBalance
    <3>1. CASE Unspent
      <4>1. After = Before
        BY <3>1 DEF Unspent
      <4> QED
        BY <4>1, <2>2, <3>1, Zenon DEF Unspent
    <3>2. ASSUME NEW o \in Orders, CommitBalance(o)
          PROVE  balance'[p] + Cardinality(After) = InitialBalance
      <4>1. CASE req[o].payer = p
        <5>1. After = Before \cup {o} /\ o \notin Before
          BY <3>2, <4>1, CommitBalanceSpends
        <5>2. balance'[p] = balance[p] - 1 /\ balance[p] \in Nat \ {0}
          BY <3>2, <4>1, CommitBalanceSpends DEF Structure, TypeOK
        <5> HIDE DEF Before, After
        <5>3. Cardinality(After) = Cardinality(Before) + 1
          BY <5>1, <2>1, FS_AddElement
        <5> QED
          BY <5>2, <5>3, <2>1, <2>2, ConstantsAssumption
      <4>2. CASE req[o].payer # p
        <5>1. After = Before
          BY <3>2, <4>2, CommitBalanceSpends
        <5>2. balance'[p] = balance[p]
          BY <3>2, <4>2, CommitBalanceSpends DEF Structure, TypeOK
        <5> HIDE DEF Before, After
        <5> QED
          BY <5>1, <5>2, <2>2
      <4> QED
        BY <4>1, <4>2
    <3> QED
      BY <3>1, <3>2, BalanceStepsOnly DEF BalanceSteps
  <2> QED
    BY <2>3
<1> HIDE DEF Inv
<1> QED
  BY StructureInvariant, <1>1, <1>2, <1>3, PTL DEF Spec
================================================================================
