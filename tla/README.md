# Verification of auth-pro

This directory holds TLA+ models of the auth-pro back end (`src/backend`), the TLC
configurations that check them on small instances, and theorems about eight of the
models whose proofs TLAPS checks. auth-pro sells and manages software licenses: users
and agents buy plans, pay from a balance or at a payment gateway, bind licenses to
domains, become agents, and applications verify licenses over HTTP. Handlers are
goroutines of one Go process that share a MySQL database; nearly every guarantee
rests on row locks, conditional updates and transaction boundaries, and on what a
handler still believes of a row it read before. These are what the models keep.

## How to run

    tlc -workers 2 -config LicensePurchase_limits.cfg MCLicensePurchase
    tlapm LicensePurchaseProofs.tla

`PROJECT.json` lists every run with its module and configuration, for every
definition the source lines it models, for every property a plausible bug that the
run would find, the hazards of the code, and the theorems.

## The system

| component | source (`src/backend/...`) | state it keeps | operations | what is hard | correct when |
|---|---|---|---|---|---|
| license purchase | `handler/user_panel.go`, `agent_panel.go`, `agent_panel_payment.go`, `purchase_limit.go`, `balance_deduct.go` | `license_purchase_orders`, `licenses`, balances, `agent_quotas`, `transactions` | buy (online, balance, quota, free), settle, expire | concurrent callbacks; counts before inserts; payment against expiry | one license per paid order; limits; no balance spent twice |
| connection pool | `config/db.go` | the current `*sql.DB`, its DSN | hand out, rebuild, retire | shared by every request; nested use | every request ends; nobody closes it |
| agent upgrade | `handler/account_upgrade.go` | `agent_upgrade_orders`, `users`, `agents` | create, cancel, record payment, convert, retry | two transactions per payment; other orders of the user in flight | money conserved; one agent per user; paid orders are completed |
| site changes | `handler/site_change.go`, `license_site.go`, `license_site_manage.go`, `store_access.go` | `license_domains`, free changes left, `license_site_change_orders`, `license_domain_changes` | replace, unbind, pay, settle, verify, adjust | decided at the order, carried out at the payment | limits; nothing changed for nothing; a paid order is one change at most |
| advertising orders | `handler/ad_orders.go`, `ad_slots.go`, `advertisement.go` | orders, per-day locks, advertisements | order, pay, review, void, expire | status read and written in separate statements; a goroutine reviews | capacity per day; nothing unpaid shown; paid orders stay paid |
| license cards | `handler/license_card.go` | batches, cards | make, switch, redeem, delete | two redemptions; deletion and upgrade against redemption | one card, one license, for its redeemer |
| identity checks | `handler/realname.go`, `xiaomu_realname.go` | sessions, the owner's identity, records, attempts in memory | begin, submit a photo, poll, confirm | billed calls outside any transaction; errors ignored; restart | no double or unbounded billing; a success is final and written |
| campaigns and prices | `handler/promotion_campaign.go`, `purchase_pricing.go`, `plan.go`, `quota.go`, `agent_level.go` | campaigns, plans, quotas, levels | edit, switch, price | overlapping campaigns; locks shared with purchases | one active campaign per plan |
| license administration and verification | `handler/license.go`, `license_verify.go` | `licenses`, `verify_logs` | edit, verify, sign | edits without the license's lock | answers agree with the row |
| payment channels | `handler/epay*.go`, `payment/` | recharge orders, channel settings | create, notify, return | notify and return race | a callback settles its own order once |
| panels and accounts | `handler/user*.go`, `agent*.go`, `middleware/` | accounts, sessions, roles | sign in, adjust, disable | disabled while an order is in flight | only active accounts act |
| replay protection, rate limits | `handler/replay_nonce.go`, `rate_limiter.go` | two generations of nonces; counters | admit | full cache | a nonce is admitted once per window |
| buyer and store | `handler/store_*.go` | bindings, snapshots, handoff tickets | bind, refresh, hand over, revoke | remote call between read and write | a ticket is used once; snapshot belongs to the binding |
| source station, catalog | `handler/source_*.go`, `catalog_*.go` | items, their versions, prices | submit, review, publish, point to the latest, deprecate | rows read and written without a transaction; one item in two tables | what is published was reviewed; what is shown is the latest |
| storage | `handler/storage_*.go` | one state blob; objects | switch, check, migrate | load, change, save without one lock | no change lost; files reachable |
| online update | `handler/update*.go`, `update_restart.sh.tmpl`, `guardian_start.sh` | job in memory and on disk, handoff, the program and the frontend, two configuration keys | download, verify, replace, restart, roll back, install at night | three programs share files; any of them may be killed | an update ends, whole, and the site comes back |
| the rest | plugins, templates, mail, tickets, statistics, SDK packages, installer, front end | their own rows and files | single statements, input and output | little | see `PROJECT.json` |

Components meet in four ways. They **call** one another inside one transaction
(`settleLicensePurchaseOrder` is reached from `EpayNotify`, `EpayReturn` and their V2
and Alipay siblings through `settleEpayCallback`, as are the recharge, upgrade and site
change settlements). They **share rows** (`users.balance` is changed by recharges,
purchases, site changes and conversions). They **share the pool** of connections. And
**workers** (expiry every minute, automatic update) run beside the handlers.

## Conventions of the models

* One action is one group of statements whose effects appear together: a commit, a
  single `UPDATE`, or a row lock others can be seen to wait for. What a handler read
  earlier is kept in a variable when the code keeps it (`seen`, `req`), and re-read
  when the code re-reads it.
* `FOR UPDATE` is a guard that no other transaction holds the row. Counts are taken in
  the snapshot of the transaction's first read (InnoDB REPEATABLE READ) and therefore
  form one step with the step that opens that snapshot.
* Any transaction may be rolled back at any step. This stands for failed statements,
  lost connections and the death of the process: nothing outside the database survives
  a rollback except what another transaction committed, which the models do keep
  (`Finish` in `SiteChange`). Where the code uses no transaction (`AdOrders`, `Realname`,
  `SourceCatalog`) every statement is a step, and the handler may end after any of them.
* The gateway is external: it has accepted a bill or not, the bill is paid or not, and
  from then on it may call back any number of times, from several sides at once. What a
  handler takes for a refusal may be a lost answer: the bill is then open though its order
  has failed, and a later callback finds the failed order.
  Signatures, amounts and channel comparisons refuse a callback before anything changes
  and are left out.
* Money is counted in units, prices are constants.
* A variable or definition introduced as *history* is not in the code: it remembers what a
  property asks about (`found`, `late`, `lost`, `slips`, `released`).
* A definition introduced as *Mutant* is a plausible bug in the definition that follows it.
  Nothing uses it; put in that definition's place, it breaks the property it is listed with.

## Modules

### `OrderSettlement` — the promise of every payable order

An order is opened at most once, granted at most once, and never granted after it was
closed. Five components with tables and handlers of their own implement it:
`LicensePurchase`, `AccountUpgrade`, `SiteChange`, `AdOrders` and `LicenseCards`, each by an
`INSTANCE` with a refinement mapping of the status, and for the grants the licenses issued,
the agents made, the changes carried out, the payments taken, the cards' licenses. Several
orders may open together, as a batch of cards does, and close together, as the worker
closes them and the deletion of a batch does.

### `LicensePurchase` — the core

| model | code |
|---|---|
| `Quote` | the handler up to `BEGIN`: plan, price, funds (`AgentPanelPurchase`, `UserPurchase`) |
| `LockCampaign`, `CountTaken` | `enforcePurchaseLimit`: the campaign active *now*, locked, and the counts under it |
| `CommitOnline` | `insertAllowedLicensePurchaseOrder` |
| `CommitBalance`, `CommitQuota`, `CommitFree` | the three ways to be served at once: order, license, funds and ledger in one commit |
| `GatewayAccepts`, `GatewayRefuses` | after the commit the gateway is called; a refusal or a lost answer marks the order `failed` if it is still pending, with or without a bill |
| `SettleBegin`, `SettleCommit`, `SettleAbort` | `settleLicensePurchaseOrder`, for each concurrent callback |
| `Lapse`, `ScanBegin`, `ScanRow`, `ScanEnd` | `expires_at` passes; the worker's single `UPDATE`, which locks row after row and re-evaluates its condition on each |
| `ToggleCampaign` | the clock passes `starts_at` or `ends_at`, or the administrator switches |

A campaign's boundary is evaluated by `NOW()` in the purchase's own transaction, so the
clock may cross it between any two steps; the variable `found` remembers which purchases
found the campaign active. Those respect its limits; a purchase that found none holds no
lock on it (see *Seen and not run*).

### `DBPool`

`ReadConfig` then `ReusePool` or `OpenPool` are `config.DB()`: the configuration is read
under one lock and the pool looked up under another. `Retire` is the goroutine
`retirePool`; `Reconfigure` is the installer. `TakeConn`, `TakeSecond`, `Finish` are what
`database/sql` does for a handler; the second connection is
`appIsCommercialProduct(db, ...)` inside the settlement. `CloseGiven` is the `db.Close()`
of the payment return pages.

Settlements can jam the pool. Each holds a connection and asks for another; when as many
settlements as the pool has connections have come that far, or a single one where
`AUTO_PRO_DB_MAX_OPEN_CONNS` is 1, none of them gets its second connection and nobody else
a first one, for ever: neither the queries nor the wait for a connection has a timeout.
`Jammed` is that state, the run reaches it, and `RequestsEnd` excuses it. What the property
says is that nothing else leaves a request waiting.

### `AccountUpgrade`

`Create` to `Cancel` are the user's handlers, `RecordPayment` and `Settle...` the callback's
two transactions, `Convert` the body of `settleAgentUpgradeOrderTx`, reached from a callback
(`ConvertPaid`) and from a balance order (`ConvertFromBalance`). The transaction locks the user's
row and reads (`ReadAll`: the balance into `seen`, the orders it counts into `counted`), and
writes later from what it read: the agent's balance is `seen` with the bonus, the user's
is set to 0. A conversion is refused while the account is disabled, another order of the user is
pending, an agent has his email address or telephone number (`clash`, which the administrator switches
by making or changing agents), or the balance with the bonus is above the limit of an account
(`Fits`). Beside it run the same user's recharges (`epay.go`), license purchases and balance
purchases, the expiry worker, and the administrator who disables and enables him.

### `SiteChange`

Every writer locks the license row first, so one record per license (`tx`) is the open
transaction: what it decided, what it charges, which order it serves. `ChangeBegin`,
`BalanceBegin`, `OnlineOrder` and `SettleBegin` decide, `Finish` is
`finishProductDomainChange`, which writes through another connection before the commit,
`Commit` and `Abort` end. `Verify` (which counts and inserts under the license's lock), `RefreshKey`,
`AdminUnbind`, `AdminAdjust` and `Cool` are the other writers and the clock. Domain licenses are
sold for one row, key licenses have a list.

One writer keeps no lock: the administrator's edit of a domain license (`LicenseUpdate`). Its
`UPDATE licenses` waits for the row (`EditBegin`), then `EditDelete`, `EditInsert` and `EditRecord`
are statements of their own, each of which may fail unnoticed, and the process may die between
them (`EditBreaks`). A change of the owner that commits between the deletion and the insertion,
or a deletion that fails, leaves the license with two domains; `torn` remembers such licenses.

The thirty days rest on a row of `license_domain_changes`. `guardProductDomainChange` takes a
failed read for no earlier change, and `finishProductDomainChange` passes over the error of its
`INSERT` (`store_access.go:584`); `Guarded` and `Finish` may do both, and `slips` remembers the
licenses it happened to.

### `AdOrders`

Creation is one transaction that locks day after day (`CreateBegin`, `LockDay`,
`CreateCommit`, `CreateAbort`), and `Settle` and `Release` are one each. The rest of
`ad_orders.go` runs outside transactions, so a task keeps what a request or goroutine has
read and which statement it comes to next: a pay request (`PayRead`, then `Release` or
`Checkout`), the automatic check and the advertisement it makes (`CheckRead`, `CheckWrite`,
`ShowRead`, `ShowInsert`, `ShowLink`), an approval or a return (`ReviewRead`, then `Approve` or
`Return`), a resubmission, and a voiding (`VoidRead`, `VoidDelete`, `VoidWrite`). `Fail` ends a
task at any statement, which is also how the goroutine is lost when the process stops.
`Expanded` is empty because that is what `expandAdOrderDays` returns for an order that was
read from the table (see *Seen and not run*); `Release` and `Settle` say what they would do with days.

### `LicenseCards`

A redemption is a transaction that takes its locks one after another: `LockCard`, `LockBatch`
and `LockApp` are the one `SELECT ... FOR UPDATE` over three tables, `LockOwner` the account's,
then `Redeem` or `Refuse`, and `Abort` at any point. Beside it run `BatchCreate`, `BatchToggle`,
`CardToggle`, `BatchDelete` (cards first, then the batch, in one transaction: `BatchDeleted`),
`AppToggle`, `AccountToggle`, `UserDelete`, `LicenseDelete`, and `Convert`, the step in which an
upgrade closes the user's account and takes his licenses along.

### `Realname`

Four kinds of check begin with `InitRead` and differ in who asks the provider when. A photo
session is claimed (`Claim`, `QueryClaim`: the two conditional updates), charged an attempt
(`Attempt`), sent to the billed interface (`VerifyPassed`, `VerifyFailed`, `VerifyError`,
`Confirmed`, `ConfirmPending`, the `Query...` answers), and settled. Records and orders are asked
for (`AskOpen`, `AskFailed`, `AskPassed`) until the provider decides (`Decide`, external). A success
goes through `Pass`, `Write` (the owner's row), `Record` and for orders `Delete`. `StatementFails`
ends a statement whose error the code ignores, or whose request is answered with an error;
`Restart` ends every request and forgets the attempts, which are in memory; `Expire` is the clock.
A provider's decision is final in the model (`Decide` happens once). For records and orders
`PassedIsFinal` rests on this; `xiaomu_realname.go:282` allows for a record that is replaced by a later
one. The one repetition of a photo call after the answer 401 or 403 is part of the call.

### `SourceRules`, `SourceStore`, `SourceCatalog`

The back end has two stores of the catalog behind one interface: the database, and one in
memory that its tests run on. `SourceRules` is what both share: rows, requests, and the
transitions allowed. `SourceStore` is the store in memory: a request's outcome at once
(`Outcomes`), as a set, since some choices among versions depend on an order the model leaves open.
Its writes (`SetStatus`, `SetLatest`, `SetShown`, `SetRelease`) are operators of their own, which its
methods are put together from and the proofs speak of.

`SourceCatalog` is the database. Nothing in it is a transaction, so what a request has still to do
is a sequence of calls, `calls[w]`; a step takes the first call, runs one statement (`Read` or
`Write`), and puts what follows in its place. `UpsertPlugin` to `Publish` bear the names of the
store's methods, `SubmitItem`, `SubmitVersion` and `Handler` those of the HTTP handlers. A request
may break off anywhere (`BreakOff`). As long as requests come one after another and run to their
end, `SourceCatalog` implements `SourceStore` (`ImplementsMemory`): the tests, which run on the
store in memory, then speak of the database too. Once requests have met the mapping says that
nothing is known of the store, and the other properties take over.

### `OnlineUpdate`

Three programs: the service, the detached script `update_restart.sh.tmpl`, which
outlives it, and `start.sh`, which the process guardian runs.

| model | code |
|---|---|
| `Launch`, `PrepareFails`, `Spawn`, `FinishMemory`, `FinishFile` | the job's reservation and its goroutine (`update.go`), which starts the script |
| `Poll`, `Heal` | the status handlers, which reconcile the job with the result file |
| `Waiter...` | the goroutine that settles unfinished jobs after a start |
| `Watch...` | the nightly installation and its two keys (`update_auto.go`) |
| `SwitchFrontend` to `WriteFailed` | the script, with the guardian's owner and without |
| `GuardStart` to `GuardExec` | `start.sh`: the trial of the new version, its attempts, the rollback |
| `ProcessDies`, `ScriptKilled`, `MachineRestarts`, `UndoFails`, `GuardUndoFails` | faults, `MaxFaults` of them; `OperatorStarts` is the operator where no guardian is |

Memory is lost with the process; job files, result files, the handoff, the program, the frontend
and the keys are not. The version installed works or does not (`healthy`), and the site has a
guardian or not (`guarded`). Three assumptions about time are written as guards: the windows
after which a job without a result is settled are longer than a health check (`WindowOver`); the
watch, which first runs a minute after the process has started and then every hour, meets no script of an
earlier process but one that checks, nor an automatic job of its own process that is still
open (`WatchDue`); and the automatic job's key is saved before the download, database dump and checks of any
job, its own or one that follows its failure, come to the script (`Spawn`).

What the scripts do when their own steps fail is kept. `write_pending_handoff` that fails may
leave half of `handoff.sh` behind (`torn`), which its caller does not remove; whoever runs `start.sh`
then breaks off in it. A rollback that cannot copy the program or the frontend back goes on all the
same (`UndoFails`, `GuardUndoFails`): the program may stay, or be written halfway and not start
(`"broken"`, history `unrestored`). A port that stays taken ends `start.sh`'s trial like a failed check
(`Attempt`, `GuardFails`). A half-written handoff is no fault in `WholeOutcome`; a copy that fails in a
rollback, which would be the second failure of one update, is.

`lost` are the jobs whose goroutine or script was killed, or whose handoff was taken away: no code is
left to end those. The frontend is the overlay layout, which the
panel the guardian belongs to uses.

## Runs

| run | instance | states | shows |
|---|---|---|---|
| `purchase_limits` | 3 orders, 2 users, 2 callbacks, limit 1 per owner and 2 in stock | 1 190 970 | one license per paid order, admissions within limits whatever runs between count and commit, `OrderSettlement` is implemented (closed orders stay closed) |
| `purchase_funds` | 2 orders, an agent and a user, all four methods, 2 callbacks, fair | 101 976 | no balance spent twice, every pending order ends |
| `pool_use` | 2 nested requests and a return page, 2 pools, 2 DSNs, 2 connections, fair | 71 332 | the pool handed out is open until a return page closes it, every request is answered or fails unless settlements jam the pool |
| `upgrade` | 1 user, 2 upgrade orders, 2 other orders, 2 switches by the administrator, fair | 163 540 | money conserved, one conversion, no counted order or license left behind, recorded payments completed but for four obstacles, `OrderSettlement` |
| `sites` | 1 domain license of an edition, 1 key license of 1 site, 2 domains, 2 site rows, 1 order, the administrator's edits and one value he sets | 1 021 152 | sites within the limit, one domain, changes covered by free ones or payments, balance accounted, a paid order is a change carried out, once, no two free moves of an edition within thirty days, `OrderSettlement` |
| `ads_review` | 2 orders, 2 days with one place each, 2 tasks, 1 advertisement | 1 079 952 | no day oversold, nothing unpaid reviewed or shown, `OrderSettlement` |
| `cards_redeem` | 2 cards of 1 batch, 1 person with both accounts, 2 redemptions, 2 switches, fair | 90 418 | a license is issued only while all it rests on is in force, belongs to its redeemer or to what he became, no request waits for ever, `OrderSettlement` |
| `realname` | 1 session of any kind, 3 requests, 3 attempts, 1 restart, 1 lost statement, fair | 31 856 | one billed call at a time, calls bounded, a success is written and final, no session stays claimed |
| `catalog_requests` | 2 versions, 2 packages, 2 workers, any 3 requests, the first 2 of which may meet or break off | 1 185 697 | only administrators release, the latest was released and is shown, the database agrees with the store in memory |
| `update_restart` | 2 jobs, 1 fault, guarded or not, a version that works or not, handoffs left half written, fair | 431 837 | an undisturbed update ends whole, a failed version is not retried at night, every job ends, the site comes back |
| `catalog_shelf` | as `catalog_requests` | to the first violation | expected violation, below |
| `pool_close` | 1 request of each kind, otherwise as `pool_use` | to the first violation | expected violation, below |

`TypeOK` (`PoolTypeOK`) is proved for every component and, for `OnlineUpdate`, checked by TLC too.

**Why the bounds are enough.** Every property of purchases relates at most two orders of
one owner to a third that takes the freed share; two callbacks are the notification and the
return page, and a third would wait for the same row. With limits 1 and 2 each limit is
reached, exceeded by an attempt, freed by expiry, and reached again. In `purchase_funds` the
balance 2 pays for both orders and the quota 1 for one of two, so that both the guarded and
the failing branch occur. One user is enough for upgrades since every lock and count there is
per user; two side orders give every pair of kinds (recharge and purchase in flight at
once), and two switches let the administrator disable and enable the user, or give and take his
address. A domain license and a key license of one site with two domains are the least with a
conflict and with a limit to exceed; the administrator may take the one free change away, before,
between and after its use. One order is made, paid and called back any number of times,
among changes of both licenses; that the balance pays once for each of several orders is a theorem
(`BalancePays`), as every property of that run is for any number of orders. Two settlements
and a return page on two connections make each wait for its second connection, alone, with the
other (the jam), and while the pool is closed. Two advertising orders with two days overlap in one day, both or
none, and two tasks are a reviewer or payer against one other; one advertisement lets the
second materialization fail, which is its only effect on the properties.
Two redemptions contend for one card or, with two cards, for one batch, application or
account. Three requests on one identity session are one that holds the claim, one that claims it
next and one that is refused or late; sessions meet only in the owner's row. Two updates are
one that failed and the next, which the first must neither keep out nor be confused with; the
properties that speak of faults excuse what one fault kills, so that a second fault shows
nothing more. An item of two versions has an old and a new release and a latest to move;
two requests that meet and a third after them show what a meeting leaves
behind, and three in sequence build a published item, withdraw it, and release again.
Bounds of the models proper are the sets of order numbers and site row identities (each used
once), `Toggles`, `Adjustments`, `Pools` (how often the pool is rebuilt), `MaxSwitches`,
`MaxRestarts`, `MaxFailures`, `MaxFaults` (kills, restarts, lost keys and copies that fail in a
rollback), `MaxJobs`, `Workers`, `Tasks` and `Requests` (how many
are at work at once), `MaxRequests` and `MaxMeeting`.

**Symmetry** is used only in runs without liveness, over orders and callbacks (purchases),
domains and site rows (sites), orders, tasks and advertisements (advertising), and versions,
packages and workers (catalog), which the specifications never distinguish.

**Deadlock** checking is off since requests are used up: the system of a small instance stops
when all orders are closed.

## Fairness

* `LicensePurchase`: time passes (`Lapse`), a settlement ends by commit or rollback, the
  worker ticks (`runExpiredLicensePurchaseOrderScan` runs every minute), and its `UPDATE` is
  queued by InnoDB at each row lock, hence strong fairness of `ScanRow`. Nothing is assumed of
  payers, callbacks or purchase handlers.
* `DBPool`: `database/sql` gives a returned connection to a waiting request, and a request
  runs to its end: strong fairness of a request's own work. The pool is never reconfigured
  by assumption.
* `AccountUpgrade`: the gateway repeats an unanswered notification, handlers end, and a
  statement that can succeed does not fail for ever: strong fairness of the locked steps,
  since other handlers hold the user row in between. The user, the administrator and the
  other orders are under no obligation.
* `LicenseCards`: InnoDB queues a redemption for each lock it wants, and the deletion of a batch for
  the batch's row: strong fairness of both, none of the administrator, who may or may not act.
* `Realname`: a request's next statement or its provider's answer comes (weak fairness of `Work`:
  its steps need no lock). Owners need not poll, providers need not decide.
* `OnlineUpdate`: goroutines, the script and `start.sh` run, a process that was started listens, and
  the guardian runs `start.sh` again (weak fairness of each). Nobody has to look at a job, the
  watch has to do nothing but save the key of a job it launched, and without a guardian nobody
  has to start the service.
* `SiteChange`, `AdOrders` and `SourceCatalog` are checked for safety only and assume none.

## Proofs

Every component has its proofs, the online update and the pool of connections, which are the service
process's own, in one module. Each proves an inductive invariant, `Inv` (`Structure` in the purchases,
`UpdateInv` and `PoolInv`), with one step for every action, and derives the theorems from it.

### `LicensePurchaseProofs`

For every finite set of orders, any accounts, callbacks,
requests and limits that satisfy `ConstantsAssumption` (finite orders; users are not agents;
requests are ones the handlers accept; limits, balance and quota are naturals):

| theorem | says |
|---|---|
| `StructureInvariant` | `Spec => []Structure` |
| `TypeCorrect` | `Spec => []TypeOK`, the quota bound `used <= QuotaTotal` included |
| `ExactlyOneLicense` | `Spec => []OneLicensePerPaidOrder` |
| `ClosedStaysClosed` | `Spec => NeverReopened` |
| `Refinement` | `Spec => ImplementsPromise` |
| `LimitsRespected` | `Spec => AdmissionWithinLimits` |
| `BalancesAdd` | `Spec => []BalanceAccounted` |

`OneLicensePerPaidOrder` is not inductive: that a commit adds the *first* license needs that
the order is still pending at the commit, hence that the row is locked by one callback and
not swept by the worker at the same time. `Structure` says this: `Phases` ties an order's
status to its handler and bill, `RowLocks` gives each row to one transaction and keeps it
pending meanwhile, `Issued` ties the rows of `licenses` to the paid orders. Each conjunct
has a lemma with one step per action.

From `Structure`, `MovesStep` shows that a step opens one order, pays one order, closes a
set of pending orders, or touches none; `ClosedStaysClosed` and `Refinement` follow.

`LimitsRespected` needs a second invariant, `Admission`: a purchase that has counted still
finds room at its commit. The argument: the shares of a limit that are held (`Holding`: paid
in time, or pending and unexpired) can grow only by an admission (`SharesTaken`,
`OneAdmitted`), an admission under a campaign is made by the one purchase that holds the
campaign row (`RowExclusive`), and a purchase joins `found` before it counts (`JoinsEarly`). A
purchase made without a campaign is not in `found` and is counted by neither side. Every
count is finite (`LicensesFinite`, `TakenType`), so that cardinalities may be compared.

`BalancesAdd` splits the steps into `CommitBalance` and those that leave every balance and
the set of paid balance orders alone (`BalanceSteps`), and shows that the former moves one
unit from one side of the equation to the other.

### `ServiceProofs`: the online update

`UpdateEndsWhole` (`WholeOutcome`), `FailsOnceAtNight` (`AutoFailsOnce`), `UpdatesDoNotOverlap` and
`UpdateTypeCorrect`, for any number of jobs and faults. `Types` holds under every fault: with it goes
`Backups`, that whoever rolls back finds a program set aside. `Undisturbed` holds as long as nothing was
killed or lost:

* `OneAtWork`: at most one job prepares, changes files, or is tried by `start.sh` (`InWork`). Nothing
  locks this across processes. It follows from `Stages`: wherever the old version serves while a job is
  at work, it is the process that launched the job, with its slot taken and no result to free it
  (`Launcher`); everywhere else no process serves, or the new version, which finds no update.
* `Stages`, with `Stage` along the script and `OnTrial` along `start.sh`: what is on disk, what is set
  aside and what runs at each step, so that every failure leads back to the old version whole and every
  success on to the new one.
* `Records`: a result is written exactly by the end of a script or of `start.sh`, so that neither a
  poll, nor the settling at start, nor the waiter reports anything else when all is quiet. `Sourced`
  goes with it: the handoff that `start.sh` works on is the one that lies there.
* `AtRest`: between two updates program, frontend and process are of one version, the new one exactly
  when a job succeeded, also where half a handoff was left behind.
* `AutoKeys`: at most one automatic job has not succeeded, and it is known to the watcher, to its saved
  key, or as a failure. This is what carries `AutoFailsOnce` over any number of updates by hand
  in between, each of which ends the process and with it the watcher's memory. It rests on the
  assumption of `Spawn`, a package takes longer than the saving of a key, and on that of `WatchDue`
  (`WatchStep`): an automatic job of this process has ended when the watch runs again.

Jobs that have written no result yet but change nothing any more (`revived`) are not `InWork`: the slot
may be free again by then, and a new job begins.

### `ServiceProofs`: the pool

`HandedOutOpen` (`CurrentPoolOpen`), `PoolTypeCorrect` with the limit on connections, `NothingLeaks`, and
`StallsOnlyJammed` (`WaitsForSomeone`), for any requests, pools and DSNs and every limit. `Held` says that a request has connections only
while it works, all on the pool it was given, and one, or two where it asked for a second; `Current`
that the pool in `dbPool` was made and not given to `retirePool`. A retired pool therefore is never
the current one, however late the request that opens its successor read the configuration.
`StallsOnlyJammed` is the safe half of `RequestsEnd`: a full pool has a request on it that goes on
without another connection, or is jammed. `Asked` says who holds which connection; without
the requests that go on, the connections of a full pool are one to one with settlements that
wait for their second one, so these are as many as the pool has connections.

### `AccountUpgradeProofs`

`MoneyAdds`, `ConvertedOnce`, `OneActive`, `NoneLeftBehind` (`NothingLeftBehind`), `Refinement`, for any
users and orders, every fee, bonus, balance and limit. `Phases` ties an order to its handler, bill and settlement; `Locks`
gives a user's row to one transaction and has the ones that lock it find him unconverted;
`Agents` pairs agents, converted users and completed orders one to one. `Reads` says that the
balance a conversion has read is still the user's when it writes, because every writer of it waits for the
row. `Behind` speaks of the orders it has counted, which no lock protects: all of them were paid or
cancelled by then, which they stay, and the conversion takes the licenses of the paid ones along. The sums of `MoneyConserved`
change by one unit with one order (`OneMore`), so the equation is carried along with `Safe`.

### `SiteChangeProofs`

`OneDomainAtMost`, `NothingForNothing`, `KeysWithinLimit`, `BalancePays`, `PaidApplied`, `ThirtyDays`,
`Refinement`, for any licenses, domains, sites, orders and limits. What a transaction decided under
the license's lock is still so when it commits (`Decided`), because `Held` lets nobody else write that
license; `Owned` says the same of an order and of the balance. The administrator's edit is not kept out by `Held`:
`Bound` says that a license he did not leave torn has one row at most, and none between his deletion and his
insertion. What `Decided` says of rows it says of keys, which he does not edit, so that `PaidApplied` needs a
commit to write over whatever it finds (`Affected`). `ThirtyDays` needs `Recorded` besides: a license that has
moved is on record, before its commit already, and a free change that has begun found none, unless a
read or a record of that license has failed; no step of the edit takes a record away.

### `AdOrdersProofs`

`NeverOversold`, `OnlyPaidShown`, `PaidStands`, `Refinement`, for any orders, days, places and tasks. No
row lock is needed for what is shown: `PaidFirst` says that every task that reviews or shows
holds an order that was paid, and paid orders never go back to waiting. `LocksCounted` equates a
day's count with the orders ever made for it, and `Room` keeps a place for the transaction that has
locked the day.

### `LicenseCardsProofs`

`RedeemerKeepsLicense`, `OnlyWhileValid`, `Refinement`, for any people, cards, batches and redemptions.
`Locks` makes each row one transaction's, `LockedIsUsable` has what a redemption read hold until it
inserts, `Counted` pairs cards with licenses, and `ConvertedClosed` keeps a converted account from
being found enabled unless the administrator enabled it.

### `RealnameProofs`

`BilledOneAtATime`, `CallsAreBounded`, `PassedWritten`, `PassedStands`, for any sessions, owners,
requests and bounds. `Exclusive` is what the two conditional updates give: a photo session
belongs to one request from its claim to its settlement. `Counted` bounds the calls by the attempts
of this life of the process and all of those of earlier ones, but only while more may follow: a
settled session's counter is forgotten. `Written` says of a session that passed that its owner's row is
written or the request that will write it is at work, unless a statement was lost.

### `SourceCatalogProofs`

`LatestReleased` (`LatestWasReleased`) and `Reviewed` (`ReleasesAreReviewed`), for any number of
workers that interleave and break off anywhere. The invariant `Calls` says of every request what it
may still have to do, by who asked: a developer's request never comes to give a version the
status `published`, and one that publishes a version points to it afterwards, not before. No read
made earlier is relied on, which is why no interleaving matters.

While requests come one after another there is more to say, and the proof has two parts.

`CatalogImplementsMemory` (`ImplementsMemory`): the statements of a request come to what the store in
memory makes of it at once. `Effect` gives every call an effect on the store in the terms of `SourceStore`,
as if nobody came between, errors included; the effect of `SetPluginStatus` is `Memory!SetPluginStatus`, of
`WriteItemStatus` the write alone, and so on. `Fits` says that a list of calls, carried out from a
store, ends in a store of a given set, an error halfway included. A list has no bounded length and induction is
out of the prover's reach, so `Fits` is a set closed under carrying out calls (`Closed`) that holds the
list. Each statement has a lemma (`...Fits`): the calls it leaves come to what its call did, or to less
(`StepFits`). `HandlerFits` begins, `Promise` carries it along, and at the last statement the store
is one of `Outcomes` (`FitsEnd`). Two facts carry the weight: what the
item shows is the same when it is worked out twice (`DenormalizedTwice`), as the database does where the
item takes a version along; and an item that goes out of use with its last published version picks no
other and is only worked out once more (`WithdrawnOnce`).

`LatestIsShown` (`ShownIsLatest`): it is enough that the store in memory keeps a public item at its latest
release (`OutcomesGood`, with one lemma for each of its methods), since `InOrder` says the store was in order
where the request at work began. A developer's upload leaves the row alone because a public item has a latest
version, which is never the empty one (`VersionsAssumption`; `normalizeSourceVersion` names a version left
out); a change of a version that was not published leaves the published one (`StillPublic`).

### Only model-checked

Liveness (`PendingEnds`, `RequestsEnd`, `RetriesComplete`, `ProcessingEnds`, `JobsEnd`, `SiteComesBack`):
fairness and `ENABLED` are beyond the prover. Every other property of a passing run is a theorem.

## Disagreements between the code and its documents

`catalog_shelf` — `docs/design/software-source-enterprise.md:10` decides that whatever a developer
writes ends as a draft or in review and never makes an item published. `UpsertPlugin`
(`source_station_store.go:1963`) reads the item's row and writes the status it has read back
with `ON DUPLICATE KEY UPDATE`, with no transaction: an upload that began while the item was public
puts it back on the shelf after an administrator has taken it off. That a *version* becomes
published only through an administrator holds all the same (`ReleasesAreReviewed`).

`pool_close` — `config/db.go:34`: callers must not close the pool, which is reused for the whole
life of the process (`调用方不得关闭返回的 *sql.DB，它由本包持有并在整个进程生命周期内复用`). `EpayReturn` (`epay.go:285`)
and `EpayV2Return` (`epay_v2.go:462`) close it before they redirect the payer, and `dbPoolFor`, which looks at the DSN
only, hands the closed pool to everyone after: every request fails until the configuration
changes or the process is restarted. `CurrentPoolOpen` says what holds otherwise: no
reconfiguration does the same.

### Seen and not run

Read in the code while modelling it; most of these the models contain.

*Purchases and upgrades*

* An order whose half hour has passed is not counted any more but is still `pending` until the
  worker's next tick, and `settleLicensePurchaseOrder` does not look at `expires_at`: its share is sold
  again and its late payment still issues a license, while `schema.sql:257` calls `stock_limit` the
  total stock. `AdmissionWithinLimits` therefore counts orders paid in time (`late`).
* Purchases that found no campaign and are in flight when one starts are not counted by it
  until they commit, and may together with its own exceed the stock.
* The ledger's `balance_after` of a quota or free purchase is the balance read before the
  transaction (`agent_panel.go:1154`), which another purchase may have changed; `schema.sql:494`
  describes it as the balance after. It is in the model (`ledger`, `seen`).
* As many settlements of license purchases as the pool has connections (50; one where
  `AUTO_PRO_DB_MAX_OPEN_CONNS=1`) wait for one another for ever when each has begun its transaction and asks
  for a second connection (`agent_panel_payment.go:872`). It is in the model (`Jammed`); `RequestsEnd` excuses it.
* A user cancels his upgrade order after he has paid at the gateway and before the callback
  (`account_upgrade.go:1031`): the callback is refused, the money received.
* A recharge inserted after the conversion's count (`account_upgrade.go:380`) is settled into
  the locked user account. `MoneyConserved` counts it there. A recharge that is never paid never
  expires and keeps its user from being converted (`:385`).
* A paid upgrade stays paid, and its user a user, as long as an agent has his email address or
  telephone number (`account_upgrade.go:368`) or his balance with the bonus is above an account's limit
  (`:405`). Neither is looked at before the money is taken. `RetriesComplete` names both among its obstacles.

*Sites*

* `docs/admin.md:11`: an occupied domain is refused. Only when the license already has one;
  a license without a domain takes one that another license holds.
* `docs/commercial.md:39`: the thirty days hold for paid changes too. The guard is asked when an
  order is made and skipped when it is carried out, so two orders made before the first is paid
  are both carried out. `FreeOncePerThirtyDays` says what holds of the rest.
* A paid change of a site is not made when the domain was taken, or the site unbound, between
  order and payment (`site_change.go:382`): the order stays pending and the money stays, while
  `docs/admin.md:13` says that a paid change is made.
* `finishProductDomainChange` writes through another connection (`store_access.go:584`), so a
  change that is rolled back has revoked bindings and counts for the thirty days.
* Unbinding a key's site that is already gone is counted by the license's first site and
  uses up a free change (`site_change.go:519`, `544`, `553`), while `CHANGELOG.md:314`
  suggests it would not. `ChangesCovered` is therefore an inequality.
* The administrator's edit deletes and inserts a license's domain in two statements without the
  license's lock and without looking at the errors of either (`license.go:1053`, `1054`): a change that commits
  between them, or a deletion that fails, leaves a license for one domain with two. It is in the model
  (`EditDelete`, `EditInsert`); `OneDomain` excuses it (`torn`).
* The record of a change of an edition's domain is written with its error passed over (`store_access.go:584`),
  and the guard takes an error of reading it for no earlier change (`:561`): a second free change
  within thirty days is then made, against `docs/commercial.md:39`. `FreeOncePerThirtyDays` excuses it (`slips`).

*Advertising*

* `ad_orders.go:128`: places are locked for 15 minutes; `ad_orders.go:464`: a payment turns the
  lock into an occupation. `expandAdOrderDays` parses `day_start` with the layout
  `2006-01-02`, but under `parseTime=True` (`config/config.go:228`) a `DATE` scans into a string as
  RFC 3339: it returns no days, so neither a release (`:446`) nor a settlement touches a day row.
  Places of orders that expired stay taken for ever. No day is oversold by it.
* An approval, a return or a resubmission writes the status it decided on earlier
  (`ad_orders.go:817`, `833`, `702`) and so undoes a voiding made in between. Voiding deletes the
  advertisement it read (`901`), which may not have been linked yet and then stays online; two
  materializations of one order make two advertisements (`573`). When the process stops after the
  settlement's commit and before its goroutine (`510`) the order stays unchecked.
* An advertisement's window is put together from dates read as times (`ad_orders.go:580`),
  does not parse in `advertisementInWindow` (`advertisement.go:317`), and bounds nothing.
* Were days read back, a release would give them back whether or not the order was still
  pending (`ad_orders.go:434`): two pay requests of one expired order would do it twice.

*Identity checks*

* Two polls of one record or order at the same time both find the success and write two records.
* A session that passed leaves its owner unverified when the error of the owner's `UPDATE` is
  ignored (`realname.go:924`) or the process stops before it; `PassedIsWritten` excuses both (`lost`).
* A second session begun before the first passed overwrites the verified identity, while the
  handler that begins one answers "您已完成实名认证，无需重复认证" (`realname.go:794`).
* A session that passes after its user became an agent verifies the closed account. A restart
  forgets the attempts, so that as many calls may follow as before (`CallsBounded`).

*Catalog*

* `publishSourcePackageItem` ignores the version it is given (`_ = version`).
* An administrator's upload over a published version takes that version back to draft while the item
  stays published, so a developer's later edit of it is public at once
  (`software-source-enterprise.md:10`, `:201`). `ShownIsLatest` excuses it (`touched`).
* A developer can change the package that is under review, which
  `docs/developer/review-and-catalog.md:11` rules out. A stale `UpsertVersion` takes a version that was
  published meanwhile back to draft.
* An edit of the row's data (`UpdatePluginMetadata`) shows a package other than the latest
  version's (`software-source-enterprise.md:249`).
* The two stores differ where a review finds only a published version, and for a developer's
  upload without a package over a published version.

*Online update*

* `update_restart.sh.tmpl:809`, `docs/deployment.md:179`: after repeated failures the backup is put back
  and the old program runs. When `start.sh` is stopped between the frontend's rollback and the removal
  of the handoff, its second rollback deletes the frontend that the first has put back.
* Likewise, `start.sh` killed between `finish_handoff success` and the removal of the handoff leads
  to the rollback of an update that was reported done. A process that dies between the swap
  and `write_pending_handoff` is started again as the new version, on trial by nobody.
* A script killed while the old process lives leaves that process's `runningID` set: no update
  starts until it is restarted.
* `write_pending_handoff` that fails after it has begun `handoff.sh` (`update_restart.sh.tmpl:740`, a full disk)
  is undone by its caller (`:926`), which reports that the old program is back and was not stopped (`已恢复旧程序，没有退出进程`)
  but leaves the half-written file. `start.sh` reads it under `set -e` the next time it runs, perhaps at a
  restart of the machine weeks later, and breaks off in it: the site stays down until the file is removed or
  written again. `SiteComesBack` excuses it (`torn`).
* A rollback does not look at whether it could copy the program or the frontend back (`:860`, `:919`,
  `:929`, `:948`) and removes the handoff all the same (`:865`). A program that was copied halfway does not start, and no
  code is left to try again. `WholeOutcome` counts it as a fault, `SiteComesBack` excuses it (`unrestored`).
* After a rollback that was broken off the old version may serve while `start.sh` still waits for the new one
  to answer. An update begun then replaces the handoff of the first (`:717`), whose job never ends.
  `JobsEnd` excuses it (`lost`).
* A failed version is installed again by night when its key was not saved (`update_auto.go:101`), or
  when the job fails between the watch's settlement and its launch (`:21`).

## Open hazards

Known, in modelled code or near it, and covered by no property: the buyer's snapshot is written after
a remote call without asking whether the binding is still the one it was read for
(`store_buyer_client.go:634`); the storage state is loaded, changed and saved under a lock
that is held inside each call only (`storage_state.go:163`); a full generation of the nonce cache remembers no
new nonce and so admits it again (`replay_nonce.go:45`); `db.go:48` reads the configuration and the pool under two locks (the
model has it, and `CurrentPoolOpen` says what must not follow, but not that the newest configuration
wins); and the ones marked above as excused.

A property that excuses something says what holds of everything else, and does not find what it
excuses: `CurrentPoolOpen` the return pages, `RequestsEnd` the jam, `OneDomain` the torn edit,
`FreeOncePerThirtyDays` the lost record, `PassedIsWritten` the ignored error and the restart, `AutoFailsOnce` the
unsaved key and every killed process, `SiteComesBack` and `JobsEnd` what `lost`, `torn` and `unrestored` stand
for. `BalanceAccounted`, of the purchases as of the site changes, compares a balance with the orders paid from
it; that no balance is overspent is part of `TypeOK` (balances are naturals) and so a theorem, which rests on
the condition of `deductPurchaseBalance`, kept in the models as a guard.

## Not modelled, and why

Every component without a model is listed in `PROJECT.json` with its reason. In short:
protocols of others (S3, WebDAV, GitHub, gateways), input and output (archives, templates,
mail, SDK packages), pages that only read, and handlers of one statement over one row. What
is left and worth modelling is in the plan.

Within the modelled components left out are: amounts and discounts, dates and keys of the
license issued, the grant of a commercial edition in the settlement, logs and notifications,
what the administrator's edit of a license changes besides its domain, his own changes of sites under the
license's lock (`adminSiteChange`), and the schema migrations.

## Plan

1. Done: `OrderSettlement`, `LicensePurchase`, `DBPool`, `AccountUpgrade`, `SiteChange`, `AdOrders`,
   `LicenseCards`, `Realname`, `SourceRules`, `SourceStore`, `SourceCatalog`, `OnlineUpdate`, and their proofs.
2. Next: campaigns (`Campaigns`: no two active for one plan, with the locks shared with purchases); the
   nonce cache and the rate limiter (`ReplayNonce`: a nonce is admitted once within its window while
   there is room); the buyer's snapshot and handoff (`StoreBuyer`); the storage state
   (`StorageState`). Each belongs into the instance of a component it meets, or takes the place of a
   run that shows least.
3. Proofs: what the next components promise, as each is modelled.
