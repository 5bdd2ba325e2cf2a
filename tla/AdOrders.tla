-------------------------------- MODULE AdOrders --------------------------------
(***************************************************************************)
(* Advertising orders (ad_orders.go): a buyer takes days of an advertising *)
(* slot, the days are locked while he pays, the payment callback starts an *)
(* automatic check in a goroutine, and the check or a reviewer puts the    *)
(* advertisement up, sends it back, or takes it down.                      *)
(*                                                                         *)
(* Creation and settlement are transactions.  The reviews are not: each    *)
(* reads the order with one statement and writes with others, which a task *)
(* in this model keeps apart.  One slot is modelled.                       *)
(***************************************************************************)
EXTENDS Naturals, FiniteSets

CONSTANTS
  Orders,       \* order numbers
  Days,         \* days of the slot, as numbers
  Capacity,     \* adSlotDef.Capacity: advertisements per day
  Tasks,        \* requests and goroutines at work at one time (a bound)
  Ads           \* identities of advertisements (bounds materialization)

ASSUME ConstantsAssumption ==
  /\ IsFiniteSet(Orders)
  /\ Days \subseteq Nat
  /\ Capacity \in Nat \ {0}

VARIABLES
  days,         \* order -> the days asked for
  held,         \* order -> the day rows its creating transaction has locked
  status,       \* order -> source_ad_orders.status, "none": no row, "creating": not yet
  lapsed,       \* orders whose lock_until has passed
  paid,         \* orders whose paid_at is set
  clean,        \* orders whose texts pass the automatic check
  adOf,         \* order -> source_ad_orders.advertisement_id
  locked,       \* day -> source_ad_slot_days.locked, 0 without a row
  reserved,     \* day -> source_ad_slot_days.reserved
  bill,         \* order -> the gateway's side of it
  task,         \* task -> what it read and will do next
  madeFor,      \* advertisement -> the order it was made for
  shown,        \* advertisements in source_advertisements
  payments      \* history: order -> how often its payment was taken

dayVars == <<held, locked, reserved>>
orderVars == <<days, status, paid, clean, adOf>>
adVars == <<madeFor, shown>>
vars == <<dayVars, orderVars, adVars, lapsed, bill, task, payments>>

NoAd == "no advertisement"
NoOrder == "no order"

Reviewed == {"checking", "scheduled", "manual_review", "need_edit"}
Statuses == {"none", "creating", "pending_pay", "expired_lock", "voided"} \cup Reviewed

Kinds == {"release", "checkout", "check", "verdict", "show", "insert", "link",
          "approve", "return", "resubmit", "void", "voiding"}
Task == [kind : Kinds, order : Orders, ok : BOOLEAN, ad : Ads \cup {NoAd}]
Idle == [kind |-> "idle", order |-> NoOrder, ok |-> FALSE, ad |-> NoAd]

TypeOK ==
  /\ days \in [Orders -> SUBSET Days]
  /\ held \in [Orders -> SUBSET Days]
  /\ status \in [Orders -> Statuses]
  /\ lapsed \subseteq Orders
  /\ paid \subseteq Orders
  /\ clean \subseteq Orders
  /\ adOf \in [Orders -> Ads \cup {NoAd}]
  /\ locked \in [Days -> 0..Capacity]
  /\ reserved \in [Days -> 0..Capacity]
  /\ bill \in [Orders -> {"none", "open", "paid"}]
  /\ task \in [Tasks -> Task \cup {Idle}]
  /\ madeFor \in [Ads -> Orders \cup {NoOrder}]
  /\ shown \subseteq Ads
  /\ payments \in [Orders -> Nat]

Init ==
  /\ days = [o \in Orders |-> {}]
  /\ held = [o \in Orders |-> {}]
  /\ status = [o \in Orders |-> "none"]
  /\ lapsed = {}
  /\ paid = {}
  /\ clean = {}
  /\ adOf = [o \in Orders |-> NoAd]
  /\ locked = [d \in Days |-> 0]
  /\ reserved = [d \in Days |-> 0]
  /\ bill = [o \in Orders |-> "none"]
  /\ task = [t \in Tasks |-> Idle]
  /\ madeFor = [a \in Ads |-> NoOrder]
  /\ shown = {}
  /\ payments = [o \in Orders |-> 0]

--------------------------------------------------------------------------------
(* Creation: ClientAdOrderCreate *)

DayFree(d) == \A o \in Orders : d \notin held[o]

CreateBegin(o, D) ==
  /\ status[o] = "none"
  /\ D # {}
  /\ days' = [days EXCEPT ![o] = D]
  /\ status' = [status EXCEPT ![o] = "creating"]
  /\ UNCHANGED <<dayVars, paid, clean, adOf, adVars, lapsed, bill, task, payments>>

NextDay(o, d) ==
  /\ status[o] = "creating"
  /\ d \in days[o] \ held[o]
  /\ \A e \in days[o] \ held[o] : d <= e

\* Mutant: the day row is read without FOR UPDATE.
LockDayUnlocked(o, d) ==
  /\ NextDay(o, d)
  /\ reserved[d] + locked[d] < Capacity
  /\ held' = [held EXCEPT ![o] = @ \cup {d}]
  /\ UNCHANGED <<locked, reserved, orderVars, adVars, lapsed, bill, task, payments>>

\* lockAdSlotDay: the days in ascending order, each row FOR UPDATE.  Two orders that both
\* find no row for a day collide at the INSERT, and one of them is rolled back.
LockDay(o, d) ==
  /\ NextDay(o, d)
  /\ DayFree(d)
  /\ reserved[d] + locked[d] < Capacity
  /\ held' = [held EXCEPT ![o] = @ \cup {d}]
  /\ UNCHANGED <<locked, reserved, orderVars, adVars, lapsed, bill, task, payments>>

CreateCommit(o) ==
  /\ status[o] = "creating"
  /\ held[o] = days[o]
  /\ locked' = [d \in Days |-> IF d \in days[o] THEN locked[d] + 1 ELSE locked[d]]
  /\ status' = [status EXCEPT ![o] = "pending_pay"]
  /\ clean' \in {clean, clean \cup {o}}
  /\ held' = [held EXCEPT ![o] = {}]
  /\ UNCHANGED <<reserved, days, paid, adOf, adVars, lapsed, bill, task, payments>>

\* A day is full, or a statement fails; the buyer may try again.
CreateAbort(o) ==
  /\ status[o] = "creating"
  /\ status' = [status EXCEPT ![o] = "none"]
  /\ days' = [days EXCEPT ![o] = {}]
  /\ held' = [held EXCEPT ![o] = {}]
  /\ UNCHANGED <<locked, reserved, paid, clean, adOf, adVars, lapsed, bill, task, payments>>

\* The 15 minutes of lock_until pass.
Lapse(o) ==
  /\ status[o] = "pending_pay"
  /\ o \notin lapsed
  /\ lapsed' = lapsed \cup {o}
  /\ UNCHANGED <<dayVars, orderVars, adVars, bill, task, payments>>

--------------------------------------------------------------------------------
(* Payment *)

\* expandAdOrderDays: the driver is opened with parseTime (config.go), scans a DATE into
\* a string as "2006-01-02T00:00:00+08:00", and the layout "2006-01-02" does not parse
\* it: an order read from the table has no days.
Expanded(o) == {}

\* GREATEST(locked - 1, 0) on each of the order's day rows.
Unlocked(o) ==
  [d \in Days |-> IF d \in Expanded(o) /\ locked[d] > 0 THEN locked[d] - 1 ELSE locked[d]]

Begun(t, k, o, ok, a) ==
  /\ task[t] = Idle
  /\ task' = [task EXCEPT ![t] = [kind |-> k, order |-> o, ok |-> ok, ad |-> a]]

Goes(t, k) == task' = [task EXCEPT ![t].kind = k]
Ends(t) == task' = [task EXCEPT ![t] = Idle]
At(t, k, o) == task[t].kind = k /\ task[t].order = o

\* ClientAdOrderPay reads the order: its lock has passed, or it may be paid.
PayRead(t, o) ==
  /\ status[o] = "pending_pay"
  /\ Begun(t, IF o \in lapsed THEN "release" ELSE "checkout", o, FALSE, NoAd)
  /\ UNCHANGED <<dayVars, orderVars, adVars, lapsed, bill, payments>>

\* releaseAdOrderLock: the days are given back, and a pending order expires.
Release(t, o) ==
  /\ At(t, "release", o)
  /\ \A d \in Expanded(o) : DayFree(d)
  /\ locked' = Unlocked(o)
  /\ status' = [status EXCEPT ![o] = IF @ = "pending_pay" THEN "expired_lock" ELSE @]
  /\ Ends(t)
  /\ UNCHANGED <<held, reserved, days, paid, clean, adOf, adVars, lapsed, bill, payments>>

\* The order's bill is opened at the gateway; what became of the order meanwhile is not
\* looked at.
Checkout(t, o) ==
  /\ At(t, "checkout", o)
  /\ bill' = [bill EXCEPT ![o] = IF @ = "none" THEN "open" ELSE @]
  /\ Ends(t)
  /\ UNCHANGED <<dayVars, orderVars, adVars, lapsed, payments>>

Pay(o) ==
  /\ bill[o] = "open"
  /\ bill' = [bill EXCEPT ![o] = "paid"]
  /\ UNCHANGED <<dayVars, orderVars, adVars, lapsed, task, payments>>

\* Mutant: only an order that is being checked is taken for a paid one.
SettleReviewed(t, o) ==
  /\ bill[o] = "paid"
  /\ status[o] \in {"pending_pay", "scheduled", "manual_review", "need_edit"}
  /\ status' = [status EXCEPT ![o] = "checking"]
  /\ paid' = paid \cup {o}
  /\ payments' = [payments EXCEPT ![o] = @ + 1]
  /\ Begun(t, "check", o, FALSE, NoAd)
  /\ UNCHANGED <<dayVars, days, clean, adOf, adVars, lapsed, bill>>

\* settleAdOrder, under the order's row lock: a reviewed order is answered as paid, any
\* other that is not pending with an error, both without a change.  lock_until is not
\* looked at.  After the commit a goroutine checks the order.
Settle(t, o) ==
  /\ bill[o] = "paid"
  /\ status[o] = "pending_pay"
  /\ \A d \in Expanded(o) : DayFree(d)
  /\ locked' = Unlocked(o)
  /\ reserved' = [d \in Days |-> IF d \in Expanded(o) THEN reserved[d] + 1 ELSE reserved[d]]
  /\ status' = [status EXCEPT ![o] = "checking"]
  /\ paid' = paid \cup {o}
  /\ payments' = [payments EXCEPT ![o] = @ + 1]
  /\ Begun(t, "check", o, FALSE, NoAd)
  /\ UNCHANGED <<held, days, clean, adOf, adVars, lapsed, bill>>

--------------------------------------------------------------------------------
(* The automatic check and the advertisement *)

\* runAdOrderAutoCheck reads status and texts.
CheckRead(t, o) ==
  /\ At(t, "check", o)
  /\ IF status[o] = "checking"
     THEN task' = [task EXCEPT ![t].kind = "verdict", ![t].ok = (o \in clean)]
     ELSE Ends(t)
  /\ UNCHANGED <<dayVars, orderVars, adVars, lapsed, bill, payments>>

\* UPDATE ... WHERE status = 'checking'.  The advertisement is made whether or not the
\* UPDATE found the order.
CheckWrite(t, o) ==
  /\ At(t, "verdict", o)
  /\ status' = [status EXCEPT ![o] =
       IF @ = "checking" THEN (IF task[t].ok THEN "scheduled" ELSE "manual_review") ELSE @]
  /\ IF task[t].ok THEN Goes(t, "show") ELSE Ends(t)
  /\ UNCHANGED <<dayVars, days, paid, clean, adOf, adVars, lapsed, bill, payments>>

\* materializeAdOrderAdvertisement reads the order, inserts, and links.
ShowRead(t, o) ==
  /\ At(t, "show", o)
  /\ IF adOf[o] = NoAd THEN Goes(t, "insert") ELSE Ends(t)
  /\ UNCHANGED <<dayVars, orderVars, adVars, lapsed, bill, payments>>

ShowInsert(t, o, a) ==
  /\ At(t, "insert", o)
  /\ madeFor[a] = NoOrder
  /\ madeFor' = [madeFor EXCEPT ![a] = o]
  /\ shown' = shown \cup {a}
  /\ task' = [task EXCEPT ![t].kind = "link", ![t].ad = a]
  /\ UNCHANGED <<dayVars, orderVars, lapsed, bill, payments>>

ShowLink(t, o) ==
  /\ At(t, "link", o)
  /\ IF status[o] \in {"scheduled", "checking"}
     THEN /\ status' = [status EXCEPT ![o] = "scheduled"]
          /\ adOf' = [adOf EXCEPT ![o] = task[t].ad]
     ELSE UNCHANGED <<status, adOf>>
  /\ Ends(t)
  /\ UNCHANGED <<dayVars, days, paid, clean, adVars, lapsed, bill, payments>>

--------------------------------------------------------------------------------
(* The reviewer and the buyer *)

\* Mutant: an order that is not paid may be approved.
ReviewableUnpaid(o) == status[o] \in {"pending_pay", "manual_review", "checking"}

Reviewable(o) == status[o] \in {"manual_review", "checking"}

\* AdminAdAuditApprove and AdminAdAuditReturn read, then write without a condition.
ReviewRead(t, o, k) ==
  /\ Reviewable(o)
  /\ k \in {"approve", "return"}
  /\ Begun(t, k, o, FALSE, NoAd)
  /\ UNCHANGED <<dayVars, orderVars, adVars, lapsed, bill, payments>>

Approve(t, o) ==
  /\ At(t, "approve", o)
  /\ status' = [status EXCEPT ![o] = "scheduled"]
  /\ Goes(t, "show")
  /\ UNCHANGED <<dayVars, days, paid, clean, adOf, adVars, lapsed, bill, payments>>

Return(t, o) ==
  /\ At(t, "return", o)
  /\ status' = [status EXCEPT ![o] = "need_edit"]
  /\ Ends(t)
  /\ UNCHANGED <<dayVars, days, paid, clean, adOf, adVars, lapsed, bill, payments>>

\* ClientAdOrderResubmit, the same way; then the check again.
ResubmitRead(t, o) ==
  /\ status[o] = "need_edit"
  /\ Begun(t, "resubmit", o, FALSE, NoAd)
  /\ UNCHANGED <<dayVars, orderVars, adVars, lapsed, bill, payments>>

Resubmit(t, o) ==
  /\ At(t, "resubmit", o)
  /\ status' = [status EXCEPT ![o] = "checking"]
  /\ clean' \in {clean \ {o}, clean \cup {o}}
  /\ Goes(t, "check")
  /\ UNCHANGED <<dayVars, days, paid, adOf, adVars, lapsed, bill, payments>>

\* AdminAdOrderVoid, in any status: the advertisement it read, then the order.
VoidRead(t, o) ==
  /\ status[o] \notin {"none", "creating"}
  /\ Begun(t, "void", o, FALSE, adOf[o])
  /\ UNCHANGED <<dayVars, orderVars, adVars, lapsed, bill, payments>>

VoidDelete(t, o) ==
  /\ At(t, "void", o)
  /\ shown' = shown \ {task[t].ad}
  /\ Goes(t, "voiding")
  /\ UNCHANGED <<dayVars, orderVars, madeFor, lapsed, bill, payments>>

VoidWrite(t, o) ==
  /\ At(t, "voiding", o)
  /\ status' = [status EXCEPT ![o] = "voided"]
  /\ Ends(t)
  /\ UNCHANGED <<dayVars, days, paid, clean, adOf, adVars, lapsed, bill, payments>>

\* A statement fails, or the process stops: what the task had still to do is not done.
Fail(t) ==
  /\ task[t] # Idle
  /\ Ends(t)
  /\ UNCHANGED <<dayVars, orderVars, adVars, lapsed, bill, payments>>

--------------------------------------------------------------------------------

Create(o) ==
  \/ \E D \in SUBSET Days : CreateBegin(o, D)
  \/ \E d \in Days : LockDay(o, d)
  \/ CreateCommit(o) \/ CreateAbort(o)

Payment(t, o) == PayRead(t, o) \/ Release(t, o) \/ Checkout(t, o) \/ Settle(t, o)

Check(t, o) ==
  \/ CheckRead(t, o) \/ CheckWrite(t, o)
  \/ ShowRead(t, o) \/ ShowLink(t, o) \/ \E a \in Ads : ShowInsert(t, o, a)

Review(t, o) ==
  \/ \E k \in {"approve", "return"} : ReviewRead(t, o, k)
  \/ Approve(t, o) \/ Return(t, o) \/ ResubmitRead(t, o) \/ Resubmit(t, o)
  \/ VoidRead(t, o) \/ VoidDelete(t, o) \/ VoidWrite(t, o)

Next ==
  \/ \E o \in Orders : Create(o) \/ Lapse(o) \/ Pay(o)
  \/ \E t \in Tasks, o \in Orders : Payment(t, o) \/ Check(t, o) \/ Review(t, o)
  \/ \E t \in Tasks : Fail(t)

Spec == Init /\ [][Next]_vars

--------------------------------------------------------------------------------
(* Properties *)

Live(o) == status[o] \in {"pending_pay"} \cup Reviewed

\* No day is sold more often than the slot has places, though orders of overlapping days
\* are made at the same time and others expire (lockAdSlotDay, releaseAdOrderLock).
NoDayOversold ==
  \A d \in Days : Cardinality({o \in Orders : Live(o) /\ d \in days[o]}) <= Capacity

\* Nothing is reviewed or put up that was not paid, whatever a reviewer read before.
NothingUnpaid ==
  /\ \A o \in Orders : status[o] \in Reviewed => o \in paid
  /\ \A a \in shown : madeFor[a] \in paid

\* A paid order never expires and never waits for payment again, though a request that
\* saw its lock pass may still be on its way (releaseAdOrderLock against settleAdOrder).
PaidStaysPaid ==
  [][\A o \in Orders : o \in paid => status'[o] \in Reviewed \cup {"voided"}]_vars

State(o) == CASE o \in paid -> "granted"
              [] o \notin paid /\ status[o] \in {"none", "creating"} -> "none"
              [] o \notin paid /\ status[o] = "pending_pay" -> "open"
              [] o \notin paid /\ status[o] \notin {"none", "creating", "pending_pay"} -> "closed"

Promise == INSTANCE OrderSettlement WITH
  state <- [o \in Orders |-> State(o)],
  grants <- payments

\* Advertising orders keep the promise of every payable order: the payment is taken once,
\* and not after the order expired or was voided.
ImplementsPromise == Promise!Spec
================================================================================
