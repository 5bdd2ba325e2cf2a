----------------------------- MODULE AccountUpgrade -----------------------------
(***************************************************************************)
(* A user becomes an agent (account_upgrade.go): he pays the opening fee   *)
(* from his balance or at a payment gateway, and one transaction moves his *)
(* balance and his licenses to a new agent account and locks the old one.  *)
(* Meanwhile his other orders (recharges, epay.go; license purchases,      *)
(* agent_panel_payment.go) are made and settled by handlers of their own,  *)
(* and the administrator may disable him (user_manage.go) or make an agent *)
(* account with his address (agent.go).                                    *)
(*                                                                         *)
(* The row locks modelled are those of the upgrade order and of the user.  *)
(* An amount is a number of units; that amounts agree with the order is    *)
(* checked before every step here and left out.                            *)
(***************************************************************************)
EXTENDS Naturals, FiniteSets

CONSTANTS
  Users,
  Upgrades,         \* numbers of agent upgrade orders
  Sides,            \* numbers of the users' other orders
  Fee, Bonus,       \* agent_levels.upgrade_price and opening_bonus
  Recharge,         \* amount of a recharge order
  Price,            \* price of a license plan
  InitialBalance,
  Cap,              \* maxAgentLevelMoneyCents: what an agent's balance may be at most
  Toggles           \* how often the administrator steps in (a bound)

Methods == {"online", "balance"}
Kinds == {"recharge", "purchase", "buy"}
Nobody == "nobody"

ASSUME ConstantsAssumption ==
  /\ IsFiniteSet(Users) /\ IsFiniteSet(Upgrades) /\ IsFiniteSet(Sides)
  /\ Fee \in Nat /\ Bonus \in Nat /\ Recharge \in Nat /\ Price \in Nat
  /\ InitialBalance \in Nat /\ Cap \in Nat /\ Toggles \in Nat
  /\ Nobody \notin Users

VARIABLES
  converted,    \* users whose account_status is 'converted'
  disabled,     \* users whose enabled is 0
  balance,      \* user -> users.balance
  agents,       \* rows of agents: the user, the order, the balance
  req,          \* upgrade order -> who asked for it and how he pays
  pc,           \* upgrade order -> how far the creating handler is
  status,       \* upgrade order -> agent_upgrade_orders.status, "none": no row
  bill,         \* upgrade order -> the gateway's side of it
  settling,     \* upgrade order -> the row locks its settlement holds
  seen,         \* upgrade order -> the balance its transaction read with the lock
  counted,      \* upgrade order -> his other orders when its transaction counted them
  side,         \* other order -> its user and kind
  sideStatus,   \* other order -> "asked" by a handler, then the status of its row
  owner,        \* other order -> who owns the license it bought
  clash,        \* users whose email or telephone number an agent made by hand has
  toggled

accountVars == <<converted, disabled, balance, agents>>
readVars == <<seen, counted>>
orderVars == <<req, pc, status, bill, settling, readVars>>
sideVars == <<side, sideStatus, owner>>
adminVars == <<clash, toggled>>
vars == <<accountVars, orderVars, sideVars, adminVars>>

NoRequest == [user |-> Nobody, method |-> "none"]
NoSide == [user |-> Nobody, kind |-> "none"]

TypeOK ==
  /\ converted \subseteq Users
  /\ disabled \subseteq Users
  /\ balance \in [Users -> Nat]
  /\ agents \subseteq [user : Users, order : Upgrades, balance : Nat]
  /\ req \in [Upgrades -> [user : Users, method : Methods] \cup {NoRequest}]
  /\ pc \in [Upgrades -> {"idle", "locked", "gateway", "done"}]
  /\ status \in [Upgrades -> {"none", "pending", "paid", "completed", "failed", "cancelled"}]
  /\ bill \in [Upgrades -> {"none", "open", "paid"}]
  /\ settling \in [Upgrades -> {"none", "order", "user"}]
  /\ seen \in [Upgrades -> Nat]
  /\ counted \in [Upgrades -> SUBSET Sides]
  /\ side \in [Sides -> [user : Users, kind : Kinds] \cup {NoSide}]
  /\ sideStatus \in [Sides -> {"none", "asked", "pending", "paid", "cancelled"}]
  /\ owner \in [Sides -> {"none", "user", "agent"}]
  /\ clash \subseteq Users
  /\ toggled \in 0..Toggles

Init ==
  /\ converted = {}
  /\ disabled = {}
  /\ balance = [u \in Users |-> InitialBalance]
  /\ agents = {}
  /\ req = [o \in Upgrades |-> NoRequest]
  /\ pc = [o \in Upgrades |-> "idle"]
  /\ status = [o \in Upgrades |-> "none"]
  /\ bill = [o \in Upgrades |-> "none"]
  /\ settling = [o \in Upgrades |-> "none"]
  /\ seen = [o \in Upgrades |-> 0]
  /\ counted = [o \in Upgrades |-> {}]
  /\ side = [s \in Sides |-> NoSide]
  /\ sideStatus = [s \in Sides |-> "none"]
  /\ owner = [s \in Sides |-> "none"]
  /\ clash = {}
  /\ toggled = 0

--------------------------------------------------------------------------------
(* What the transactions read *)

\* The checks that the middleware and the transactions make of the account.
Active(u) == u \notin converted /\ u \notin disabled

OrdersOf(u) == {o \in Upgrades : req[o].user = u}
ActiveOrders(u) == {o \in OrdersOf(u) : status[o] \in {"pending", "paid"}}
SidesOf(u) == {s \in Sides : side[s].user = u}

\* Mutant: only recharges are counted, not the license purchases.
PendingRecharges(u) ==
  {s \in SidesOf(u) : side[s].kind = "recharge" /\ sideStatus[s] = "pending"}

PendingSides(u) == {s \in SidesOf(u) : sideStatus[s] = "pending"}

\* His other orders that have a row, and so are looked at when orders are counted.
PlacedSides(u) == {s \in SidesOf(u) : sideStatus[s] \notin {"none", "asked"}}

AgentsOf(u) == {a \in agents : a.user = u}

\* Mutant: the user is read without FOR UPDATE.
UserRowUnlocked(u) == u \in Users

UserRowFree(u) == \A o \in OrdersOf(u) : pc[o] # "locked" /\ settling[o] # "user"
OrderRowFree(o) == settling[o] = "none"

\* No agent with his email or telephone number, and nothing left to pay.
Convertible(u, o) ==
  /\ AgentsOf(u) = {}
  /\ u \notin clash
  /\ PendingSides(u) = {}
  /\ ActiveOrders(u) \ {o} = {}

--------------------------------------------------------------------------------
(* The upgrade handler *)

\* A transaction keeps the balance it read with the lock and what it counted, until it
\* is rolled back.
ReadAll(o, u) ==
  /\ seen' = [seen EXCEPT ![o] = balance[u]]
  /\ counted' = [counted EXCEPT ![o] = PlacedSides(u)]

Forget(o) ==
  /\ seen' = [seen EXCEPT ![o] = 0]
  /\ counted' = [counted EXCEPT ![o] = {}]

\* BEGIN, the user row FOR UPDATE, the count of his unfinished upgrade orders.  The
\* counts of the conversion that a balance order goes on to make are taken in the
\* snapshot that this one opened.
Create(o, u, m) ==
  /\ pc[o] = "idle"
  /\ UserRowFree(u)
  /\ Active(u)
  /\ ActiveOrders(u) = {}
  /\ m = "balance" => Convertible(u, o)
  /\ req' = [req EXCEPT ![o] = [user |-> u, method |-> m]]
  /\ pc' = [pc EXCEPT ![o] = "locked"]
  /\ ReadAll(o, u)
  /\ UNCHANGED <<accountVars, status, bill, settling, sideVars, adminVars>>

\* createOnlineAgentUpgrade inserts the pending row and commits.
CommitOnline(o) ==
  /\ pc[o] = "locked"
  /\ req[o].method = "online"
  /\ status' = [status EXCEPT ![o] = "pending"]
  /\ pc' = [pc EXCEPT ![o] = "gateway"]
  /\ Forget(o)
  /\ UNCHANGED <<accountVars, req, bill, settling, sideVars, adminVars>>

\* Any error: the transaction is rolled back.
CreateAbort(o) ==
  /\ pc[o] = "locked"
  /\ pc' = [pc EXCEPT ![o] = "done"]
  /\ Forget(o)
  /\ UNCHANGED <<accountVars, req, status, bill, settling, sideVars, adminVars>>

GatewayAccepts(o) ==
  /\ pc[o] = "gateway"
  /\ bill' = [bill EXCEPT ![o] = "open"]
  /\ pc' = [pc EXCEPT ![o] = "done"]
  /\ UNCHANGED <<accountVars, req, status, settling, readVars, sideVars, adminVars>>

\* markAgentUpgradeOrderFailed: only a pending order fails.  After an answer that was
\* lost on its way, the gateway has opened the bill all the same.
GatewayRefuses(o) ==
  /\ pc[o] = "gateway"
  /\ OrderRowFree(o)
  /\ status' = [status EXCEPT ![o] = IF @ = "pending" THEN "failed" ELSE @]
  /\ pc' = [pc EXCEPT ![o] = "done"]
  /\ bill' \in {bill, [bill EXCEPT ![o] = "open"]}
  /\ UNCHANGED <<accountVars, req, settling, readVars, sideVars, adminVars>>

\* cancelPendingAgentUpgradeOrder, by its user: whether he is still active was asked by
\* the middleware, before.
Cancel(o) ==
  /\ status[o] = "pending"
  /\ OrderRowFree(o)
  /\ status' = [status EXCEPT ![o] = "cancelled"]
  /\ UNCHANGED <<accountVars, req, pc, bill, settling, readVars, sideVars, adminVars>>

--------------------------------------------------------------------------------
(* The payment callback and the conversion *)

\* The user pays at the gateway.
Pay(o) ==
  /\ bill[o] = "open"
  /\ bill' = [bill EXCEPT ![o] = "paid"]
  /\ UNCHANGED <<accountVars, req, pc, status, settling, readVars, sideVars, adminVars>>

\* Mutant: the callback does not look at the order's status.
RecordPaymentAnyway(o) ==
  /\ bill[o] = "paid"
  /\ OrderRowFree(o)
  /\ status[o] # "paid"
  /\ status' = [status EXCEPT ![o] = "paid"]
  /\ UNCHANGED <<accountVars, req, pc, bill, settling, readVars, sideVars, adminVars>>

\* recordAgentUpgradeOnlinePayment, a transaction of its own; a callback that finds
\* the order paid or completed goes on, one that finds it closed is refused.
RecordPayment(o) ==
  /\ bill[o] = "paid"
  /\ OrderRowFree(o)
  /\ status[o] = "pending"
  /\ status' = [status EXCEPT ![o] = "paid"]
  /\ UNCHANGED <<accountVars, req, pc, bill, settling, readVars, sideVars, adminVars>>

\* Mutant: the conversion is made for orders whose payment is not recorded yet.
SettleBeginFirst(o) ==
  /\ bill[o] = "paid"
  /\ OrderRowFree(o)
  /\ status[o] = "pending"
  /\ settling' = [settling EXCEPT ![o] = "order"]
  /\ UNCHANGED <<accountVars, req, pc, status, bill, readVars, sideVars, adminVars>>

\* settleAgentUpgradeOrder: BEGIN, the order row FOR UPDATE.  The same callback or
\* any later one comes here; a completed order is answered with its conversion.
SettleBegin(o) ==
  /\ bill[o] = "paid"
  /\ OrderRowFree(o)
  /\ status[o] = "paid"
  /\ settling' = [settling EXCEPT ![o] = "order"]
  /\ UNCHANGED <<accountVars, req, pc, status, bill, readVars, sideVars, adminVars>>

\* The user row FOR UPDATE, then the counts, all in one snapshot.
SettleLockUser(o) ==
  /\ settling[o] = "order"
  /\ UserRowFree(req[o].user)
  /\ Active(req[o].user)
  /\ Convertible(req[o].user, o)
  /\ settling' = [settling EXCEPT ![o] = "user"]
  /\ ReadAll(o, req[o].user)
  /\ UNCHANGED <<accountVars, req, pc, status, bill, sideVars, adminVars>>

FeeOf(o) == IF req[o].method = "balance" THEN Fee ELSE 0

\* The balance is compared with the fee only when the fee is to be deducted.
Affordable(o) == seen[o] >= FeeOf(o)

\* "Balance after the bonus over the account's limit": nothing is converted.
Fits(o) == (seen[o] - FeeOf(o)) + Bonus <= Cap

\* A check fails, of the account and the counts or of the balance after them; the order
\* stays paid, with the error noted.
SettleRefused(o) ==
  /\ \/ /\ settling[o] = "order"
        /\ UserRowFree(req[o].user)
        /\ ~Active(req[o].user) \/ ~Convertible(req[o].user, o)
     \/ settling[o] = "user" /\ ~Fits(o)
  /\ settling' = [settling EXCEPT ![o] = "none"]
  /\ Forget(o)
  /\ UNCHANGED <<accountVars, req, pc, status, bill, sideVars, adminVars>>

\* Mutant: the agent is inserted through another connection, and stays.
SettleAbortAgentKept(o) ==
  /\ settling[o] # "none"
  /\ settling' = [settling EXCEPT ![o] = "none"]
  /\ agents' = IF settling[o] = "order" THEN agents
               ELSE agents \cup {[user |-> req[o].user, order |-> o, balance |-> 0]}
  /\ Forget(o)
  /\ UNCHANGED <<converted, disabled, balance, req, pc, status, bill, sideVars, adminVars>>

\* A statement fails (the INSERT of an agent whose email was taken after the count) or
\* the process dies: rolled back.
SettleAbort(o) ==
  /\ settling[o] # "none"
  /\ settling' = [settling EXCEPT ![o] = "none"]
  /\ Forget(o)
  /\ UNCHANGED <<accountVars, req, pc, status, bill, sideVars, adminVars>>

\* UPDATE licenses SET owner_type = 'agent' WHERE owner_type = 'user' AND owner_id = u.
Migrated(u) == [s \in Sides |-> IF s \in SidesOf(u) /\ owner[s] = "user" THEN "agent" ELSE owner[s]]

\* The conversion commits: agent account, balance, licenses, locked user, order.
Convert(o) ==
  LET u == req[o].user IN
  /\ Affordable(o) /\ Fits(o)
  /\ agents' = agents \cup {[user |-> u, order |-> o,
                             balance |-> (seen[o] - FeeOf(o)) + Bonus]}
  /\ balance' = [balance EXCEPT ![u] = 0]
  /\ converted' = converted \cup {u}
  /\ disabled' = disabled \cup {u}
  /\ owner' = Migrated(u)
  /\ status' = [status EXCEPT ![o] = "completed"]
  /\ seen' = [seen EXCEPT ![o] = 0]
  /\ UNCHANGED <<req, bill, counted, side, sideStatus, adminVars>>

ConvertPaid(o) ==
  /\ settling[o] = "user"
  /\ Convert(o)
  /\ settling' = [settling EXCEPT ![o] = "none"]
  /\ UNCHANGED pc

\* createBalanceAgentUpgrade inserts, settles and commits in its one transaction.
ConvertFromBalance(o) ==
  /\ pc[o] = "locked"
  /\ req[o].method = "balance"
  /\ Convert(o)
  /\ pc' = [pc EXCEPT ![o] = "done"]
  /\ UNCHANGED settling

--------------------------------------------------------------------------------
(* The user's other orders and the administrator *)

\* A recharge or purchase handler passes RequireActiveUser.
SideAsk(s, u, k) ==
  /\ sideStatus[s] = "none"
  /\ Active(u)
  /\ side' = [side EXCEPT ![s] = [user |-> u, kind |-> k]]
  /\ sideStatus' = [sideStatus EXCEPT ![s] = "asked"]
  /\ UNCHANGED <<accountVars, orderVars, owner, adminVars>>

\* It inserts its pending order, for which it does not lock the user.
SideInsert(s) ==
  /\ sideStatus[s] = "asked"
  /\ side[s].kind \in {"recharge", "purchase"}
  /\ sideStatus' = [sideStatus EXCEPT ![s] = "pending"]
  /\ UNCHANGED <<accountVars, orderVars, side, owner, adminVars>>

\* settleRechargeOrder: UPDATE users SET balance = balance + ? with the order's row.
SettleRecharge(s) ==
  /\ sideStatus[s] = "pending"
  /\ side[s].kind = "recharge"
  /\ UserRowFree(side[s].user)
  /\ balance' = [balance EXCEPT ![side[s].user] = @ + Recharge]
  /\ sideStatus' = [sideStatus EXCEPT ![s] = "paid"]
  /\ UNCHANGED <<converted, disabled, agents, orderVars, side, owner, adminVars>>

\* settleLicensePurchaseOrder writes the license for the owner the order names.
SettlePurchase(s) ==
  /\ sideStatus[s] = "pending"
  /\ side[s].kind = "purchase"
  /\ owner' = [owner EXCEPT ![s] = "user"]
  /\ sideStatus' = [sideStatus EXCEPT ![s] = "paid"]
  /\ UNCHANGED <<accountVars, orderVars, side, adminVars>>

\* The expiry worker knows license purchase orders; recharge orders do not expire.
ExpirePurchase(s) ==
  /\ sideStatus[s] = "pending"
  /\ side[s].kind = "purchase"
  /\ sideStatus' = [sideStatus EXCEPT ![s] = "cancelled"]
  /\ UNCHANGED <<accountVars, orderVars, side, owner, adminVars>>

\* A purchase from the balance: deductPurchaseBalance locks the user row and looks at
\* the balance, not at the account's state.
BuyFromBalance(s) ==
  /\ sideStatus[s] = "asked"
  /\ side[s].kind = "buy"
  /\ UserRowFree(side[s].user)
  /\ balance[side[s].user] >= Price
  /\ balance' = [balance EXCEPT ![side[s].user] = @ - Price]
  /\ owner' = [owner EXCEPT ![s] = "user"]
  /\ sideStatus' = [sideStatus EXCEPT ![s] = "paid"]
  /\ UNCHANGED <<converted, disabled, agents, orderVars, side, adminVars>>

\* UPDATE users SET enabled = 1 - enabled, whatever the account's state.
ToggleEnabled(u) ==
  /\ toggled < Toggles
  /\ UserRowFree(u)
  /\ disabled' = IF u \in disabled THEN disabled \ {u} ELSE disabled \cup {u}
  /\ toggled' = toggled + 1
  /\ UNCHANGED <<converted, balance, agents, orderVars, sideVars, clash>>

\* AgentCreate, AgentDelete and AgentUpdate: an agent account with the user's email or
\* telephone number appears or goes; no lock of the user is involved.
SwitchClash(u) ==
  /\ toggled < Toggles
  /\ clash' = IF u \in clash THEN clash \ {u} ELSE clash \cup {u}
  /\ toggled' = toggled + 1
  /\ UNCHANGED <<accountVars, orderVars, sideVars>>

--------------------------------------------------------------------------------

Upgrade(o) ==
  \/ \E u \in Users, m \in Methods : Create(o, u, m)
  \/ CommitOnline(o) \/ CreateAbort(o) \/ ConvertFromBalance(o)
  \/ GatewayAccepts(o) \/ GatewayRefuses(o) \/ Cancel(o) \/ Pay(o)

Callback(o) ==
  \/ RecordPayment(o)
  \/ SettleBegin(o) \/ SettleLockUser(o) \/ SettleRefused(o) \/ SettleAbort(o)
  \/ ConvertPaid(o)

SideOrder(s) ==
  \/ \E u \in Users, k \in Kinds : SideAsk(s, u, k)
  \/ SideInsert(s) \/ SettleRecharge(s) \/ SettlePurchase(s) \/ ExpirePurchase(s)
  \/ BuyFromBalance(s)

Next ==
  \/ \E o \in Upgrades : Upgrade(o) \/ Callback(o)
  \/ \E s \in Sides : SideOrder(s)
  \/ \E u \in Users : ToggleEnabled(u) \/ SwitchClash(u)

Spec == Init /\ [][Next]_vars

\* The gateway repeats a notification until it is answered with success; handlers
\* end; and a statement that can succeed does not fail for ever.
Fairness ==
  \A o \in Upgrades :
    /\ WF_vars(CommitOnline(o) \/ CreateAbort(o) \/ ConvertFromBalance(o))
    /\ WF_vars(RecordPayment(o)) /\ WF_vars(SettleBegin(o))
    /\ WF_vars(SettleRefused(o))
    /\ SF_vars(SettleLockUser(o)) /\ SF_vars(ConvertPaid(o))

FairSpec == Spec /\ Fairness

--------------------------------------------------------------------------------
(* Properties *)

\* What the conversions and the other orders of u have moved so far.
CompletedOf(u, m) == {o \in OrdersOf(u) : status[o] = "completed" /\ req[o].method = m}
PaidSides(u, k) == {s \in Sides : side[s] = [user |-> u, kind |-> k] /\ sideStatus[s] = "paid"}
AgentBalance(u) ==
  IF AgentsOf(u) = {} THEN 0 ELSE (CHOOSE a \in AgentsOf(u) : TRUE).balance
Income(u) == InitialBalance + Recharge * Cardinality(PaidSides(u, "recharge"))
               + Bonus * Cardinality(CompletedOf(u, "online") \cup CompletedOf(u, "balance"))
Spending(u) == Price * Cardinality(PaidSides(u, "buy"))
                 + Fee * Cardinality(CompletedOf(u, "balance"))

\* No unit of money is lost or made by a conversion, whatever recharges and purchases
\* run at the same time: what user and agent hold is what came in less what was
\* spent (settleAgentUpgradeOrderTx reads the balance early and clears it late).
MoneyConserved ==
  \A u \in Users : balance[u] + AgentBalance(u) + Spending(u) = Income(u)

\* A user is converted exactly when one completed order of his has made one agent
\* account, and he never has two (order status, account status and agent row are
\* checked and written by several handlers).
OneConversion ==
  \A u \in Users :
    /\ Cardinality(AgentsOf(u)) = IF u \in converted THEN 1 ELSE 0
    /\ {a.order : a \in AgentsOf(u)} = {o \in OrdersOf(u) : status[o] = "completed"}

\* A user never has two unfinished upgrade orders, though two requests may count
\* them at the same time.
AtMostOneActive == \A u \in Users : Cardinality(ActiveOrders(u)) <= 1

\* Of the orders that a conversion looked at when it counted, none is still to be paid
\* afterwards and none has its license with the closed account: what is pending then is
\* counted, what was bought before is moved.
NothingLeftBehind ==
  \A o \in Upgrades : status[o] = "completed"
    => \A s \in counted[o] : sideStatus[s] # "pending" /\ owner[s] # "user"

\* Whose balance comes with the bonus to more than an agent may have.
OverCap == {u \in Users : balance[u] + Bonus > Cap}

\* What keeps a paid order from being completed: the account is disabled, another order
\* of the user is still to be paid, an agent has his address or his balance is too high.
Obstacle(o) ==
  \/ req[o].user \in disabled \cup clash \cup OverCap
  \/ PendingSides(req[o].user) # {}

\* "can be retried safely" (account_upgrade.go:1047): a conversion that failed after
\* the payment is made up for by the next callbacks, unless an obstacle returns again
\* and again.
RetriesComplete ==
  \A o \in Upgrades : <>[](status[o] = "paid") => []<>Obstacle(o)

--------------------------------------------------------------------------------
(* Agent upgrade orders keep the promise of every payable order *)

Abstract(st) == CASE st = "none" -> "none"
                  [] st \in {"pending", "paid"} -> "open"
                  [] st = "completed" -> "granted"
                  [] st \in {"failed", "cancelled"} -> "closed"

Promise == INSTANCE OrderSettlement WITH
  Orders <- Upgrades,
  state <- [o \in Upgrades |-> Abstract(status[o])],
  grants <- [o \in Upgrades |-> Cardinality({a \in agents : a.order = o})]

\* Every step is a step of the abstract order or leaves it alone.
ImplementsPromise == Promise!Spec

================================================================================
