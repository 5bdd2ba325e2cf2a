---------------------------- MODULE LicensePurchase ----------------------------
(***************************************************************************)
(* Buying a license of one plan: the two purchase handlers (user_panel.go, *)
(* agent_panel.go), the online branch they share (agent_panel_payment.go), *)
(* the campaign limits they run under (purchase_limit.go), the callbacks   *)
(* that settle an online order, and the worker that expires it.            *)
(*                                                                         *)
(* One step is one database statement group whose effects become visible   *)
(* together: a transaction's commit, a single UPDATE, or the acquisition   *)
(* of a row lock other transactions can be seen to wait for.               *)
(***************************************************************************)
EXTENDS Naturals, FiniteSets

CONSTANTS
  Orders,           \* order numbers, one per purchase request
  Users, Agents,    \* the two kinds of account
  Requests,         \* the requests the clients may send (bounds the inputs)
  Callbacks,        \* concurrent deliveries of a payment callback (notify, return)
  PerOwnerLimit,    \* promotion_campaign_plans.per_owner_limit, 0: none
  StockLimit,       \* promotion_campaign_plans.stock_limit, 0: none
  InitialBalance,   \* balance of every account at the start, in units of the price
  QuotaTotal        \* agent_quotas.total of every agent

Owners == Users \cup Agents
Methods == {"online", "balance", "quota", "free"}

\* A user buys for himself; an agent buys for himself or for a user, and only
\* an agent has a quota or is given a plan whose price is zero without a charge.
LegalRequest(r) ==
  \/ /\ r.payer \in Users
     /\ r.owner = r.payer
     /\ r.method \in {"online", "balance"}
  \/ /\ r.payer \in Agents
     /\ r.owner \in Users \cup {r.payer}
     /\ r.method \in Methods

RequestType == [payer : Owners, owner : Owners, method : Methods]

ASSUME ConstantsAssumption ==
  /\ IsFiniteSet(Orders)
  /\ Users \cap Agents = {}
  /\ Requests \subseteq {r \in RequestType : LegalRequest(r)}
  /\ PerOwnerLimit \in Nat
  /\ StockLimit \in Nat
  /\ InitialBalance \in Nat
  /\ QuotaTotal \in Nat

VARIABLES
  campaign,     \* whether a campaign with purchase limits is active for the plan now
  req,          \* order -> the request its handler serves
  pc,           \* order -> how far that handler is
  seen,         \* order -> the balance its handler read before its transaction
  found,        \* the orders whose transaction found the campaign active
  status,       \* order -> license_purchase_orders.status, "none": no row
  lapsed,       \* the orders whose expires_at has passed
  licenses,     \* rows of table licenses: the order and the transaction that wrote it
  late,         \* history: orders settled after expires_at had passed
  bill,         \* order -> the gateway's side of an online order
  settling,     \* callbacks inside the settlement transaction: <<order, callback>>
  todo,         \* rows the worker's running UPDATE has still to lock
  swept,        \* rows it has locked and will cancel
  balance,      \* account -> users.balance / agents.balance
  used,         \* agent -> agent_quotas.used
  ledger        \* order -> the transactions row written for it

purchaseVars == <<req, pc, seen, found>>
fundVars == <<balance, used, ledger>>
scanVars == <<todo, swept>>
vars == <<campaign, purchaseVars, status, lapsed, licenses, late, bill, settling,
          scanVars, fundVars>>

NoRequest == [payer |-> "nobody", owner |-> "nobody", method |-> "none"]
NoEntry == [charge |-> 0, after |-> {}]

\* transactions.balance_after is NULL ({}) or one amount.
EntryType == [charge : {0, 1}, after : SUBSET Nat]

PC == {"idle", "quoted", "locked", "counted", "gateway", "done"}
Statuses == {"none", "pending", "paid", "failed", "cancelled"}
Bills == {"none", "open", "paid"}

TypeOK ==
  /\ campaign \in BOOLEAN
  /\ req \in [Orders -> Requests \cup {NoRequest}]
  /\ pc \in [Orders -> PC]
  /\ seen \in [Orders -> Nat]
  /\ found \subseteq Orders
  /\ status \in [Orders -> Statuses]
  /\ lapsed \subseteq Orders
  /\ licenses \subseteq [order : Orders, by : Callbacks \cup {"handler"}]
  /\ late \subseteq Orders
  /\ bill \in [Orders -> Bills]
  /\ settling \subseteq Orders \X Callbacks
  /\ todo \subseteq Orders
  /\ swept \subseteq Orders
  /\ balance \in [Owners -> Nat]
  /\ used \in [Agents -> 0..QuotaTotal]
  /\ ledger \in [Orders -> EntryType]

Init ==
  /\ campaign \in BOOLEAN
  /\ req = [o \in Orders |-> NoRequest]
  /\ pc = [o \in Orders |-> "idle"]
  /\ seen = [o \in Orders |-> 0]
  /\ found = {}
  /\ status = [o \in Orders |-> "none"]
  /\ lapsed = {}
  /\ licenses = {}
  /\ late = {}
  /\ bill = [o \in Orders |-> "none"]
  /\ settling = {}
  /\ todo = {}
  /\ swept = {}
  /\ balance = [p \in Owners |-> InitialBalance]
  /\ used = [a \in Agents |-> 0]
  /\ ledger = [o \in Orders |-> NoEntry]

--------------------------------------------------------------------------------
(* What the transactions read *)

Live(o) == status[o] = "pending" /\ o \notin lapsed

\* Rows counted against a limit, over the orders of one owner or of all: the
\* licenses issued so far and the unexpired pending orders.
CompletedBy(S) == {l \in licenses : l.order \in S}
PendingBy(S) == {o \in S : Live(o)}
Taken(S) == Cardinality(CompletedBy(S)) + Cardinality(PendingBy(S))

OrdersOf(x) == {o \in Orders : req[o].owner = x}

WithinLimits(x) ==
  /\ PerOwnerLimit > 0 => Taken(OrdersOf(x)) < PerOwnerLimit
  /\ StockLimit > 0 => Taken(Orders) < StockLimit

\* The open purchase transactions; those that found a campaign hold its row.
InTransaction == {o \in Orders : pc[o] \in {"locked", "counted"}}

OrderRowFree(o) == o \notin swept /\ \A k \in Callbacks : <<o, k>> \notin settling

--------------------------------------------------------------------------------
(* The purchase handler *)

\* The handler loads plan and price and looks at the payer's funds outside of
\* any transaction; a payer without funds is turned away.
Quote(o, r) ==
  /\ pc[o] = "idle"
  /\ r.method = "balance" => balance[r.payer] >= 1
  /\ r.method = "quota" => used[r.payer] < QuotaTotal
  /\ req' = [req EXCEPT ![o] = r]
  /\ seen' = [seen EXCEPT ![o] = balance[r.payer]]
  /\ pc' = [pc EXCEPT ![o] = "quoted"]
  /\ UNCHANGED <<campaign, found, status, lapsed, licenses, late, bill, settling,
                 fundVars, scanVars>>

\* Mutant: the campaign row is read without FOR UPDATE.
LockCampaignNoLock(o) ==
  /\ pc[o] = "quoted"
  /\ found' = IF campaign THEN found \cup {o} ELSE found
  /\ pc' = [pc EXCEPT ![o] = "locked"]
  /\ UNCHANGED <<campaign, req, seen, status, lapsed, licenses, late, bill,
                 settling, fundVars, scanVars>>

\* BEGIN, then the row of the campaign that is active now FOR UPDATE: one purchase
\* at a time holds it.  A purchase that finds no campaign has nothing to wait for.
LockCampaign(o) ==
  /\ pc[o] = "quoted"
  /\ campaign => InTransaction \cap found = {}
  /\ found' = IF campaign THEN found \cup {o} ELSE found
  /\ pc' = [pc EXCEPT ![o] = "locked"]
  /\ UNCHANGED <<campaign, req, seen, status, lapsed, licenses, late, bill,
                 settling, fundVars, scanVars>>

\* The COUNTs of enforcePurchaseLimit, all in the snapshot the first one opens.
CountTaken(o) ==
  /\ pc[o] = "locked"
  /\ o \in found => WithinLimits(req[o].owner)
  /\ pc' = [pc EXCEPT ![o] = "counted"]
  /\ UNCHANGED <<campaign, req, seen, found, status, lapsed, licenses, late, bill,
                 settling, fundVars, scanVars>>

\* insertAllowedLicensePurchaseOrder inserts the pending row and commits.
CommitOnline(o) ==
  /\ pc[o] = "counted"
  /\ req[o].method = "online"
  /\ status' = [status EXCEPT ![o] = "pending"]
  /\ pc' = [pc EXCEPT ![o] = "gateway"]
  /\ UNCHANGED <<campaign, req, seen, found, lapsed, licenses, late, bill, settling,
                 fundVars, scanVars>>

IssueAtOnce(o) ==
  /\ pc[o] = "counted"
  /\ status' = [status EXCEPT ![o] = "paid"]
  /\ licenses' = licenses \cup {[order |-> o, by |-> "handler"]}
  /\ pc' = [pc EXCEPT ![o] = "done"]
  /\ UNCHANGED <<campaign, req, seen, found, lapsed, late, bill, settling, scanVars>>

\* Mutant: the balance is written back from the value read before the transaction.
DeductedFromSeen(o) == seen[o] - 1

\* deductPurchaseBalance: the row as it is now, locked, not the one seen before.
Deducted(o) == balance[req[o].payer] - 1

CommitBalance(o) ==
  /\ req[o].method = "balance"
  /\ balance[req[o].payer] >= 1
  /\ balance' = [balance EXCEPT ![req[o].payer] = Deducted(o)]
  /\ ledger' = [ledger EXCEPT ![o] = [charge |-> 1, after |-> {Deducted(o)}]]
  /\ IssueAtOnce(o)
  /\ UNCHANGED used

\* UPDATE agent_quotas SET used = used + 1 WHERE used < total.
CommitQuota(o) ==
  /\ req[o].method = "quota"
  /\ used[req[o].payer] < QuotaTotal
  /\ used' = [used EXCEPT ![req[o].payer] = @ + 1]
  /\ ledger' = [ledger EXCEPT ![o] = [charge |-> 0, after |-> {seen[o]}]]
  /\ IssueAtOnce(o)
  /\ UNCHANGED balance

CommitFree(o) ==
  /\ req[o].method = "free"
  /\ ledger' = [ledger EXCEPT ![o] = [charge |-> 0, after |-> {seen[o]}]]
  /\ IssueAtOnce(o)
  /\ UNCHANGED <<balance, used>>

\* Any error before the commit (a limit reached, funds gone by now, a failed
\* statement, a lost connection) rolls the transaction back.
Rollback(o) ==
  /\ pc[o] \in {"locked", "counted"}
  /\ pc' = [pc EXCEPT ![o] = "done"]
  /\ UNCHANGED <<campaign, req, seen, found, status, lapsed, licenses, late, bill,
                 settling, fundVars, scanVars>>

--------------------------------------------------------------------------------
(* The payment gateway and its callbacks *)

\* The gateway accepts the bill and the payer is sent to the checkout.
GatewayAccepts(o) ==
  /\ pc[o] = "gateway"
  /\ bill' = [bill EXCEPT ![o] = "open"]
  /\ pc' = [pc EXCEPT ![o] = "done"]
  /\ UNCHANGED <<campaign, req, seen, found, status, lapsed, licenses, late, settling,
                 fundVars, scanVars>>

\* The gateway refuses, or its answer is lost and the bill is open all the same:
\* UPDATE ... SET status = 'failed' WHERE status = 'pending'.
GatewayRefuses(o) ==
  /\ pc[o] = "gateway"
  /\ OrderRowFree(o)
  /\ status' = [status EXCEPT ![o] = IF @ = "pending" THEN "failed" ELSE @]
  /\ bill' \in {bill, [bill EXCEPT ![o] = "open"]}
  /\ pc' = [pc EXCEPT ![o] = "done"]
  /\ UNCHANGED <<campaign, req, seen, found, lapsed, licenses, late, settling,
                 fundVars, scanVars>>

\* The payer pays at the gateway, which does not know when the order expires.
Pay(o) ==
  /\ bill[o] = "open"
  /\ bill' = [bill EXCEPT ![o] = "paid"]
  /\ UNCHANGED <<campaign, purchaseVars, status, lapsed, licenses, late, settling,
                 fundVars, scanVars>>

\* Mutant: the order row is read without FOR UPDATE.
SettleBeginUnlocked(o, k) ==
  /\ bill[o] = "paid"
  /\ status[o] = "pending"
  /\ settling' = settling \cup {<<o, k>>}
  /\ UNCHANGED <<campaign, purchaseVars, status, lapsed, licenses, late, bill,
                 fundVars, scanVars>>

\* A verified callback locks the order row and reads its status.  It goes on only
\* with a pending order: a paid one is answered as a success, any other as an
\* error, both without a change.  A callback may come any number of times.
SettleBegin(o, k) ==
  /\ bill[o] = "paid"
  /\ OrderRowFree(o)
  /\ status[o] = "pending"
  /\ settling' = settling \cup {<<o, k>>}
  /\ UNCHANGED <<campaign, purchaseVars, status, lapsed, licenses, late, bill,
                 fundVars, scanVars>>

\* The license, the order's new status and the ledger row commit together.
SettleCommit(o, k) ==
  /\ <<o, k>> \in settling
  /\ licenses' = licenses \cup {[order |-> o, by |-> k]}
  /\ status' = [status EXCEPT ![o] = "paid"]
  /\ ledger' = [ledger EXCEPT ![o] = [charge |-> 1, after |-> {}]]
  /\ late' = IF o \in lapsed THEN late \cup {o} ELSE late
  /\ settling' = settling \ {<<o, k>>}
  /\ UNCHANGED <<campaign, purchaseVars, lapsed, bill, balance, used, scanVars>>

\* Some statement fails and the transaction is rolled back; the gateway retries.
SettleAbort(o, k) ==
  /\ <<o, k>> \in settling
  /\ settling' = settling \ {<<o, k>>}
  /\ UNCHANGED <<campaign, purchaseVars, status, lapsed, licenses, late, bill,
                 fundVars, scanVars>>

--------------------------------------------------------------------------------
(* Time, the expiry worker and the administrator *)

\* The 30 minutes of a pending order pass.
Lapse(o) ==
  /\ status[o] = "pending"
  /\ o \notin lapsed
  /\ lapsed' = lapsed \cup {o}
  /\ UNCHANGED <<campaign, purchaseVars, status, licenses, late, bill, settling,
                 fundVars, scanVars>>

\* Mutant: the worker spares the orders the gateway has accepted.
ExpiredWithoutBill == {o \in lapsed : status[o] = "pending" /\ bill[o] = "none"}

Expired == {o \in lapsed : status[o] = "pending"}

\* The worker's UPDATE picks the rows that are due, locks them one after the
\* other, waiting for those a callback holds, passes over the ones that are no
\* longer pending, and cancels the rest when it commits.
ScanBegin ==
  /\ todo = {}
  /\ swept = {}
  /\ Expired # {}
  /\ todo' = Expired
  /\ UNCHANGED <<campaign, purchaseVars, status, lapsed, licenses, late, bill, settling,
                 swept, fundVars>>

\* Mutant: the UPDATE's WHERE loses its "status = 'pending'".
ScanRowBlind(o) ==
  /\ o \in todo
  /\ OrderRowFree(o)
  /\ todo' = todo \ {o}
  /\ swept' = swept \cup {o}
  /\ UNCHANGED <<campaign, purchaseVars, status, lapsed, licenses, late, bill, settling,
                 fundVars>>

ScanRow(o) ==
  /\ o \in todo
  /\ OrderRowFree(o)
  /\ todo' = todo \ {o}
  /\ swept' = IF status[o] = "pending" THEN swept \cup {o} ELSE swept
  /\ UNCHANGED <<campaign, purchaseVars, status, lapsed, licenses, late, bill, settling,
                 fundVars>>

ScanEnd ==
  /\ todo = {}
  /\ swept # {}
  /\ status' = [o \in Orders |-> IF o \in swept THEN "cancelled" ELSE status[o]]
  /\ swept' = {}
  /\ UNCHANGED <<campaign, purchaseVars, lapsed, licenses, late, bill, settling, todo,
                 fundVars>>

\* The campaign becomes active or ceases to be, by the clock (starts_at, ends_at) at
\* any time, or by the administrator, who waits for the purchases on the app row.
ToggleCampaign ==
  /\ campaign' = ~campaign
  /\ UNCHANGED <<purchaseVars, status, lapsed, licenses, late, bill, settling,
                 fundVars, scanVars>>

--------------------------------------------------------------------------------

Purchase(o) ==
  \/ \E r \in Requests : Quote(o, r)
  \/ LockCampaign(o) \/ CountTaken(o) \/ Rollback(o)
  \/ CommitOnline(o) \/ CommitBalance(o) \/ CommitQuota(o) \/ CommitFree(o)
  \/ GatewayAccepts(o) \/ GatewayRefuses(o)

Settle(o, k) == SettleBegin(o, k) \/ SettleCommit(o, k) \/ SettleAbort(o, k)

Next ==
  \/ \E o \in Orders : Purchase(o) \/ Pay(o) \/ Lapse(o)
  \/ \E o \in Orders, k \in Callbacks : Settle(o, k)
  \/ ScanBegin \/ ScanEnd \/ \E o \in Orders : ScanRow(o)
  \/ ToggleCampaign

Spec == Init /\ [][Next]_vars

\* Time passes; a settlement transaction ends one way or the other; the worker
\* ticks every minute, and its UPDATE queues at the row locks it meets.
Fairness ==
  /\ \A o \in Orders : WF_vars(Lapse(o))
  /\ \A o \in Orders, k \in Callbacks : WF_vars(SettleCommit(o, k) \/ SettleAbort(o, k))
  /\ WF_vars(ScanBegin) /\ WF_vars(ScanEnd)
  /\ \A o \in Orders : SF_vars(ScanRow(o))

FairSpec == Spec /\ Fairness

--------------------------------------------------------------------------------
(* Properties *)

\* However often and however concurrently the gateway calls back, and whatever
\* the expiry worker does meanwhile, an order has one license if it is paid and
\* none otherwise (settleLicensePurchaseOrder: "FOR UPDATE", status checks).
OneLicensePerPaidOrder ==
  \A o \in Orders :
    Cardinality(CompletedBy({o})) = IF status[o] = "paid" THEN 1 ELSE 0

\* No payer's balance is spent twice by purchases that read it concurrently:
\* it is what it was less the paid balance orders (deductPurchaseBalance).
BalanceAccounted ==
  \A p \in Owners :
    balance[p] + Cardinality({o \in Orders : /\ req[o].payer = p
                                             /\ req[o].method = "balance"
                                             /\ status[o] = "paid"}) = InitialBalance

\* The limits, for the orders that were settled in time: orders that were settled
\* only after they had given their share of the limit back are set aside.
TakenInTime(S) == Taken(S \ late)

\* An order that found the campaign active enters the table.
Admitted(o) == status[o] = "none" /\ status'[o] # "none" /\ o \in found

\* A purchase admitted under a campaign leaves the campaign's purchases of its owner,
\* and all of them, within the limits, though settlements, expiries, other purchases
\* and the campaign's own end run between the counts and the commit
\* (enforcePurchaseLimit inside the purchase transaction).
AdmissionWithinLimits ==
  [][\A o \in Orders : Admitted(o) =>
       /\ PerOwnerLimit > 0 => TakenInTime(found \cap OrdersOf(req[o].owner))' <= PerOwnerLimit
       /\ StockLimit > 0 => TakenInTime(found)' <= StockLimit]_vars

\* A closed order stays closed, even when its payment arrives afterwards.
NeverReopened ==
  [][\A o \in Orders : status[o] \in {"paid", "failed", "cancelled"}
                         => status'[o] = status[o]]_vars

\* Every pending order ends: paid, failed, or cancelled by the worker, so that no
\* order holds a share of a limit for ever.
PendingEnds == \A o \in Orders : status[o] = "pending" ~> status[o] # "pending"

--------------------------------------------------------------------------------
(* License purchase orders keep the promise of every payable order *)

Abstract(st) == CASE st = "none" -> "none"
                  [] st = "pending" -> "open"
                  [] st = "paid" -> "granted"
                  [] st \in {"failed", "cancelled"} -> "closed"

Promise == INSTANCE OrderSettlement WITH
  state <- [o \in Orders |-> Abstract(status[o])],
  grants <- [o \in Orders |-> Cardinality(CompletedBy({o}))]

\* Each step of a purchase, a callback or the worker is a step of the abstract
\* order or leaves it alone.
ImplementsPromise == Promise!Spec
================================================================================
