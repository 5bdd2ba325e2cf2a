------------------------------ MODULE LicenseCards ------------------------------
(***************************************************************************)
(* License cards (license_card.go): the administrator has a batch of cards *)
(* printed, an account redeems a card for a license.  A redemption is a    *)
(* transaction that takes its row locks one after another: the card's, the *)
(* batch's and the application's by one SELECT ... FOR UPDATE, then the    *)
(* account's.  Meanwhile the administrator switches and deletes batches,   *)
(* cards, applications and accounts, and an upgrade turns the user into an *)
(* agent and takes his licenses along (account_upgrade.go).                *)
(*                                                                         *)
(* One application is modelled.  A card's license is a copy of its batch's *)
(* snapshot; the copy, the card codes and the log lines are left out.      *)
(***************************************************************************)
EXTENDS Naturals

CONSTANTS
  Cards, Batches,
  BatchOf,      \* card -> license_cards.batch_id
  People,       \* each with a user account, and an agent account once upgraded
  Requests,     \* redemptions at work at one time (a bound)
  MaxSwitches   \* how often the administrator switches something (a bound)

ASSUME ConstantsAssumption ==
  /\ BatchOf \in [Cards -> Batches]
  /\ MaxSwitches \in Nat

User(p) == [kind |-> "user", id |-> p]
Agent(p) == [kind |-> "agent", id |-> p]
Accounts == [kind : {"user", "agent"}, id : People]
NoAccount == [kind |-> "nobody", id |-> "none"]
NoCard == "no card"

VARIABLES
  batch,        \* batch -> license_card_batches.status, "none" before, "deleted" after
  card,         \* card -> license_cards.status, likewise
  holder,       \* card -> the account in redeemed_by_type and redeemed_by_id
  license,      \* card -> the owner of the license it was redeemed for
  issued,       \* history: card -> how many licenses were inserted for it
  account,      \* account -> its row
  converted,    \* people whose users.account_status is 'converted'
  reopened,     \* converted people whose user row was switched on again
  app,          \* apps.enabled
  at,           \* request -> the last row its transaction has locked
  wants,        \* request -> the card
  by,           \* request -> the account that asks
  deleting,     \* batch -> the rows that its deletion has locked
  switches

batchVars == <<batch, card, deleting>>
licenseVars == <<holder, license, issued>>
accountVars == <<account, converted, reopened>>
requestVars == <<at, wants, by>>
vars == <<batchVars, licenseVars, accountVars, requestVars, app, switches>>

Stages == {"idle", "asked", "card", "batch", "app", "owner"}

TypeOK ==
  /\ batch \in [Batches -> {"none", "active", "disabled", "deleted"}]
  /\ card \in [Cards -> {"none", "unused", "redeemed", "disabled", "deleted"}]
  /\ holder \in [Cards -> Accounts \cup {NoAccount}]
  /\ license \in [Cards -> Accounts \cup {NoAccount}]
  /\ issued \in [Cards -> Nat]
  /\ account \in [Accounts -> {"none", "enabled", "disabled", "deleted"}]
  /\ converted \in SUBSET People
  /\ reopened \in SUBSET People
  /\ app \in BOOLEAN
  /\ at \in [Requests -> Stages]
  /\ wants \in [Requests -> Cards \cup {NoCard}]
  /\ by \in [Requests -> Accounts \cup {NoAccount}]
  /\ deleting \in [Batches -> {"none", "cards", "batch"}]
  /\ switches \in Nat

Init ==
  /\ batch = [b \in Batches |-> "none"]
  /\ card = [c \in Cards |-> "none"]
  /\ holder = [c \in Cards |-> NoAccount]
  /\ license = [c \in Cards |-> NoAccount]
  /\ issued = [c \in Cards |-> 0]
  /\ account = [a \in Accounts |-> IF a.kind = "user" THEN "enabled" ELSE "none"]
  /\ converted = {}
  /\ reopened = {}
  /\ app = TRUE
  /\ at = [r \in Requests |-> "idle"]
  /\ wants = [r \in Requests |-> NoCard]
  /\ by = [r \in Requests |-> NoAccount]
  /\ deleting = [b \in Batches |-> "none"]
  /\ switches = 0

--------------------------------------------------------------------------------
(* Row locks *)

Holds(r, stages) == at[r] \in stages

CardFree(c) ==
  /\ deleting[BatchOf[c]] # "cards"
  /\ \A r \in Requests : wants[r] = c => ~Holds(r, {"card", "batch", "app", "owner"})

\* Mutant: the card's row only is read FOR UPDATE.
BatchNeverLocked(b) == TRUE

BatchFree(b) ==
  /\ deleting[b] # "batch"
  /\ \A r \in Requests :
       ~(Holds(r, {"batch", "app", "owner"}) /\ BatchOf[wants[r]] = b)

AppFree == \A r \in Requests : ~Holds(r, {"app", "owner"})

\* Mutant: the account's row is not read FOR UPDATE.
AccountNeverLocked(a) == TRUE

AccountFree(a) == \A r \in Requests : by[r] = a => ~Holds(r, {"owner"})

--------------------------------------------------------------------------------
(* Redemption: redeemLicenseCard *)

\* The middleware lets the account pass.
Ask(r, c, a) ==
  /\ at[r] = "idle"
  /\ account[a] = "enabled"
  /\ a.kind = "user" => a.id \notin converted
  /\ at' = [at EXCEPT ![r] = "asked"]
  /\ wants' = [wants EXCEPT ![r] = c]
  /\ by' = [by EXCEPT ![r] = a]
  /\ UNCHANGED <<batchVars, licenseVars, accountVars, app, switches>>

Reached(r, stage) ==
  /\ at' = [at EXCEPT ![r] = stage]
  /\ UNCHANGED <<batchVars, licenseVars, accountVars, wants, by, app, switches>>

LockCard(r) ==
  /\ at[r] = "asked"
  /\ card[wants[r]] \notin {"none", "deleted"}
  /\ CardFree(wants[r])
  /\ Reached(r, "card")

LockBatch(r) ==
  /\ at[r] = "card"
  /\ BatchFree(BatchOf[wants[r]])
  /\ Reached(r, "batch")

LockApp(r) ==
  /\ at[r] = "batch"
  /\ AppFree
  /\ Reached(r, "app")

Usable(c) == card[c] = "unused" /\ batch[BatchOf[c]] = "active" /\ app

LockOwner(r) ==
  /\ at[r] = "app"
  /\ Usable(wants[r])
  /\ AccountFree(by[r])
  /\ account[by[r]] = "enabled"
  /\ Reached(r, "owner")

Ended(r) ==
  /\ at' = [at EXCEPT ![r] = "idle"]
  /\ wants' = [wants EXCEPT ![r] = NoCard]
  /\ by' = [by EXCEPT ![r] = NoAccount]

\* The license, the card's row and COMMIT.
Redeem(r) ==
  /\ at[r] = "owner"
  /\ card[wants[r]] = "unused"
  /\ card' = [card EXCEPT ![wants[r]] = "redeemed"]
  /\ holder' = [holder EXCEPT ![wants[r]] = by[r]]
  /\ license' = [license EXCEPT ![wants[r]] = by[r]]
  /\ issued' = [issued EXCEPT ![wants[r]] = @ + 1]
  /\ Ended(r)
  /\ UNCHANGED <<batch, deleting, accountVars, app, switches>>

\* Nothing to redeem: no such card, or one that is not usable (the redeemer's own card
\* is answered with its license), or an account that is not enabled.  A statement may
\* also fail, or the process end.  The transaction rolls back.  (That the card is not
\* unused any more when its row is written does not happen: LockedIsUsable in LicenseCardsProofs.)
Refused(r) ==
  \/ at[r] = "asked" /\ card[wants[r]] \in {"none", "deleted"} /\ CardFree(wants[r])
  \/ at[r] = "app" /\ ~Usable(wants[r])
  \/ at[r] = "app" /\ AccountFree(by[r]) /\ account[by[r]] # "enabled"

RollBack(r) ==
  /\ Ended(r)
  /\ UNCHANGED <<batchVars, licenseVars, accountVars, app, switches>>

Refuse(r) == Refused(r) /\ RollBack(r)

Abort(r) == at[r] # "idle" /\ RollBack(r)

--------------------------------------------------------------------------------
(* The administrator *)

\* AdminLicenseCardBatchCreate: one transaction under the application's row lock.
BatchCreate(b) ==
  /\ batch[b] = "none"
  /\ AppFree
  /\ app
  /\ batch' = [batch EXCEPT ![b] = "active"]
  /\ card' = [c \in Cards |-> IF BatchOf[c] = b THEN "unused" ELSE card[c]]
  /\ UNCHANGED <<deleting, licenseVars, accountVars, requestVars, app, switches>>

Switch ==
  /\ switches < MaxSwitches
  /\ switches' = switches + 1

BatchToggle(b, status) ==
  /\ batch[b] \in {"active", "disabled"}
  /\ BatchFree(b)
  /\ Switch
  /\ batch' = [batch EXCEPT ![b] = status]
  /\ UNCHANGED <<card, deleting, licenseVars, accountVars, requestVars, app>>

\* Mutant: a redeemed card is switched like any other.
CardToggleAny(c, status) ==
  /\ card[c] \notin {"none", "deleted"}
  /\ CardFree(c)
  /\ Switch
  /\ card' = [card EXCEPT ![c] = status]
  /\ UNCHANGED <<batch, deleting, licenseVars, accountVars, requestVars, app>>

CardToggle(c, status) ==
  /\ card[c] \in {"unused", "disabled"}
  /\ CardFree(c)
  /\ Switch
  /\ card' = [card EXCEPT ![c] = status]
  /\ UNCHANGED <<batch, deleting, licenseVars, accountVars, requestVars, app>>

\* Mutant: the batch is deleted before its cards, so that a redemption which holds its
\* card and waits for the batch is waited for.
BatchFirst == "batch"

\* AdminLicenseCardBatchDelete deletes the rows of license_cards first.
DeletedFirst == "cards"
DeletedSecond == CHOOSE rows \in {"cards", "batch"} : rows # DeletedFirst

RowsFree(b, rows) ==
  IF rows = "batch" THEN BatchFree(b) ELSE \A c \in Cards : BatchOf[c] = b => CardFree(c)

BatchDelete(b) ==
  /\ batch[b] \in {"active", "disabled"}
  /\ deleting[b] = "none"
  /\ RowsFree(b, DeletedFirst)
  /\ deleting' = [deleting EXCEPT ![b] = DeletedFirst]
  /\ UNCHANGED <<batch, card, licenseVars, accountVars, requestVars, app, switches>>

\* The rest, and COMMIT.
BatchDeleted(b) ==
  /\ deleting[b] # "none"
  /\ RowsFree(b, DeletedSecond)
  /\ batch' = [batch EXCEPT ![b] = "deleted"]
  /\ card' = [c \in Cards |-> IF BatchOf[c] = b THEN "deleted" ELSE card[c]]
  /\ deleting' = [deleting EXCEPT ![b] = "none"]
  /\ UNCHANGED <<licenseVars, accountVars, requestVars, app, switches>>

BatchDeleteFails(b) ==
  /\ deleting[b] # "none"
  /\ deleting' = [deleting EXCEPT ![b] = "none"]
  /\ UNCHANGED <<batch, card, licenseVars, accountVars, requestVars, app, switches>>

AppToggle ==
  /\ AppFree
  /\ Switch
  /\ app' = ~app
  /\ UNCHANGED <<batchVars, licenseVars, accountVars, requestVars>>

\* AdminUserToggle and the freezing of agents.
AccountToggle(a) ==
  /\ account[a] \in {"enabled", "disabled"}
  /\ AccountFree(a)
  /\ Switch
  /\ account' = [account EXCEPT ![a] = IF @ = "enabled" THEN "disabled" ELSE "enabled"]
  /\ reopened' = IF a.kind = "user" /\ a.id \in converted THEN reopened \cup {a.id}
                 ELSE reopened
  /\ UNCHANGED <<converted, batchVars, licenseVars, requestVars, app>>

\* AdminUserDelete; an agent that was a user is protected from deletion.
UserDelete(p) ==
  /\ account[User(p)] \in {"enabled", "disabled"}
  /\ AccountFree(User(p))
  /\ Switch
  /\ account' = [account EXCEPT ![User(p)] = "deleted"]
  /\ UNCHANGED <<converted, reopened, batchVars, licenseVars, requestVars, app>>

\* LicenseDelete.
LicenseDelete(c) ==
  /\ license[c] # NoAccount
  /\ Switch
  /\ license' = [license EXCEPT ![c] = NoAccount]
  /\ UNCHANGED <<holder, issued, batchVars, accountVars, requestVars, app>>

--------------------------------------------------------------------------------
(* The upgrade *)

\* settleAgentUpgradeOrderTx as AccountUpgrade has it: under the lock of the user's row.
Convert(p) ==
  /\ account[User(p)] = "enabled" /\ p \notin converted
  /\ AccountFree(User(p))
  /\ account' = [account EXCEPT ![User(p)] = "disabled", ![Agent(p)] = "enabled"]
  /\ converted' = converted \cup {p}
  /\ license' = [c \in Cards |-> IF license[c] = User(p) THEN Agent(p) ELSE license[c]]
  /\ UNCHANGED <<reopened, batchVars, holder, issued, requestVars, app, switches>>

--------------------------------------------------------------------------------

\* At each stage one of these is all that a redemption can do.
Advance(r) ==
  LockCard(r) \/ LockBatch(r) \/ LockApp(r) \/ LockOwner(r) \/ Redeem(r) \/ Refuse(r)

Redemption(r) ==
  \/ \E c \in Cards, a \in Accounts : Ask(r, c, a)
  \/ Advance(r) \/ Abort(r)

OfBatch(b) ==
  \/ BatchCreate(b)
  \/ \E status \in {"active", "disabled"} : BatchToggle(b, status)
  \/ BatchDelete(b) \/ BatchDeleted(b) \/ BatchDeleteFails(b)

OfCard(c) ==
  \/ \E status \in {"unused", "disabled"} : CardToggle(c, status)
  \/ LicenseDelete(c)

Next ==
  \/ \E r \in Requests : Redemption(r)
  \/ \E b \in Batches : OfBatch(b)
  \/ \E c \in Cards : OfCard(c)
  \/ \E a \in Accounts : AccountToggle(a)
  \/ \E p \in People : UserDelete(p) \/ Convert(p)
  \/ AppToggle

Spec == Init /\ [][Next]_vars

\* A transaction goes on when it has what it waits for, and what it waits for is free
\* again and again (InnoDB serves its waiters in order).
Fairness ==
  /\ \A r \in Requests : SF_vars(Advance(r))
  /\ \A b \in Batches : SF_vars(BatchDeleted(b))

FairSpec == Spec /\ Fairness

--------------------------------------------------------------------------------
(* Properties *)

\* Who a redeemer is today: a user who was upgraded goes on as an agent.
Heir(a) == IF a.kind = "user" /\ a.id \in converted THEN Agent(a.id) ELSE a

\* A license that a card was redeemed for belongs to the account that the card's row
\* names, or to what that account became: no upgrade, however it runs beside the
\* redemption, leaves a license behind on the closed account.
FollowsRedeemer ==
  \A c \in Cards :
    license[c] # NoAccount =>
      /\ holder[c] # NoAccount
      /\ holder[c].id \notin reopened => license[c] = Heir(holder[c])

\* A license is issued only while its card, its batch, its application and its owner
\* are all in force, and they are at the commit, several statements after they were read.
IssuedWhileValid ==
  [][\A c \in Cards : issued'[c] # issued[c] =>
        /\ card[c] = "unused"
        /\ batch[BatchOf[c]] = "active"
        /\ app
        /\ account[holder'[c]] = "enabled"]_vars

\* A redemption ends: it never waits for a deletion or another redemption that waits
\* for it.
RequestsEnd == \A r \in Requests : []<>(at[r] = "idle")

--------------------------------------------------------------------------------
(* A card keeps the promise of every payable order: one license, if any *)

State(c) == CASE card[c] = "none" -> "none"
              [] issued[c] > 0 -> "granted"
              [] card[c] = "deleted" -> "closed"
              [] OTHER -> "open"

GrantsOf(c) == issued[c]

Promise == INSTANCE OrderSettlement WITH
  Orders <- Cards,
  state <- [c \in Cards |-> State(c)],
  grants <- [c \in Cards |-> GrantsOf(c)]

\* However redemptions, retries, switches, deletions and upgrades interleave, a card
\* is granted at most once, also after its license was deleted, and never after its
\* batch was.
ImplementsPromise == Promise!Spec
================================================================================
