------------------------------- MODULE SiteChange -------------------------------
(***************************************************************************)
(* Changing the sites a license is bound to (site_change.go): a number of  *)
(* free changes per license, then changes paid from the balance or online, *)
(* the commercial edition's limit of one change in thirty days             *)
(* (store_access.go), the binding of new sites when a key is verified      *)
(* (license_site.go) and the administrator's interventions                 *)
(* (license_site_manage.go, license.go).  The licenses are those of one    *)
(* owner and one application.                                              *)
(*                                                                         *)
(* Every writer but one locks the license row first, so a transaction is   *)
(* modelled by what it decides once it has the lock, what it writes        *)
(* through other connections meanwhile, and its commit.  The one is the    *)
(* administrator's edit of a license (LicenseUpdate), which replaces its   *)
(* domain in statements of their own; it is made of one license at a time. *)
(***************************************************************************)
EXTENDS Integers, FiniteSets

CONSTANTS
  DomainLicenses,   \* licenses bound to at most one domain
  KeyLicenses,      \* licenses with a list of sites
  Commercial,       \* the domain licenses of an edition that is or was on sale
  Domains,
  Sites,            \* identities of license_domains rows (bounds new bindings)
  Orders,           \* numbers of site change orders
  MaxSites,         \* licenses.max_domains of a key license, 0: no limit
  Free,             \* license -> free_site_changes at the start, -1: no limit
  Price,            \* licenses.site_change_price, 0: changes are not sold
  InitialBalance,
  Adjustments       \* values the administrator may set the free changes to

Licenses == DomainLicenses \cup KeyLicenses
Actions == {"replace", "unbind"}

NoLicense == "none"
NoSite == "no site"
NoDomain == "no domain"
NoOrder == "no order"

ASSUME ConstantsAssumption ==
  /\ NoLicense \notin Licenses /\ NoSite \notin Sites /\ NoDomain \notin Domains /\ NoOrder \notin Orders
  /\ IsFiniteSet(Sites) /\ IsFiniteSet(Orders)
  /\ DomainLicenses \cap KeyLicenses = {}
  /\ Commercial \subseteq DomainLicenses
  /\ MaxSites \in Nat /\ Price \in Nat /\ InitialBalance \in Nat
  /\ Free \in [Licenses -> Nat \cup {-1}] /\ Adjustments \subseteq Nat \cup {-1}

VARIABLES
  rows,       \* rows of license_domains
  spent,      \* the row identities given away so far
  left,       \* license -> free_site_changes
  cooling,    \* licenses whose last row in license_domain_changes is under 30 days old
  tx,         \* license -> the transaction that holds its row lock
  edit,       \* license -> how far the administrator's edit of it is
  req,        \* order -> the change it is for
  pc,         \* order -> how far the handler that made it is
  status,     \* order -> license_site_change_orders.status, "none": no row
  bill,       \* order -> the gateway's side of it
  balance,
  runs,       \* history: order -> how often its change was carried out
  changes,    \* history: license -> changes that took a bound site away
  allowed,    \* history: license -> changes given to it or paid for
              \* (both since its free changes were last set, while they are limited)
  moved,      \* history: licenses that went from one domain to another in thirty days
  slips,      \* history: licenses with a read or a record of these days that failed
  torn        \* history: licenses written between the two statements of an edit

orderVars == <<req, pc, status, bill>>
historyVars == <<runs, changes, allowed, moved, slips, torn>>
vars == <<rows, spent, left, cooling, tx, edit, orderVars, balance, historyVars>>

\* A request names a site of a key license and none of a domain license, and the new domain
\* of a replacement.
Change ==
  {x \in [license : Licenses, act : Actions, site : Sites \cup {NoSite},
           target : Domains \cup {NoDomain}] :
     /\ x.site # NoSite <=> x.license \in KeyLicenses
     /\ x.target # NoDomain <=> x.act = "replace"}

NoChange == [license |-> NoLicense, act |-> "none", site |-> NoSite, target |-> NoDomain]

Tx == [stage : {"decided", "finished"}, change : Change, old : SUBSET Domains,
       charge : {"none", "free", "balance", "order"}, order : Orders \cup {NoOrder}]
NoTx == [stage |-> "none", change |-> NoChange, old |-> {}, charge |-> "none",
         order |-> NoOrder]

TypeOK ==
  /\ rows \subseteq [id : Sites \cup {NoSite}, license : Licenses, domain : Domains]
  /\ spent \subseteq Sites
  /\ left \in [Licenses -> Nat \cup {-1}]
  /\ cooling \subseteq Commercial
  /\ tx \in [Licenses -> Tx \cup {NoTx}]
  /\ edit \in [Licenses -> {"none", "deleting", "inserting", "recording"}]
  /\ req \in [Orders -> Change \cup {NoChange}]
  /\ pc \in [Orders -> {"idle", "gateway", "done"}]
  /\ status \in [Orders -> {"none", "pending", "paid", "failed"}]
  /\ bill \in [Orders -> {"none", "open", "paid"}]
  /\ balance \in Nat
  /\ runs \in [Orders -> Nat]
  /\ changes \in [Licenses -> Nat]
  /\ allowed \in [Licenses -> Nat \cup {-1}]
  /\ moved \subseteq Commercial
  /\ slips \subseteq Commercial
  /\ torn \subseteq Licenses

Init ==
  /\ rows = {}
  /\ spent = {}
  /\ left = Free
  /\ cooling = {}
  /\ tx = [l \in Licenses |-> NoTx]
  /\ edit = [l \in Licenses |-> "none"]
  /\ req = [o \in Orders |-> NoChange]
  /\ pc = [o \in Orders |-> "idle"]
  /\ status = [o \in Orders |-> "none"]
  /\ bill = [o \in Orders |-> "none"]
  /\ balance = InitialBalance
  /\ runs = [o \in Orders |-> 0]
  /\ changes = [l \in Licenses |-> 0]
  /\ allowed = Free
  /\ moved = {}
  /\ slips = {}
  /\ torn = {}

--------------------------------------------------------------------------------
(* Decisions under the license's row lock *)

RowsOf(l) == {r \in rows : r.license = l}

\* What lockLicenseForSiteChange reads of a license's sites: of a domain license the
\* first one, if there is any.
Seen(l) ==
  LET bound == {r.domain : r \in RowsOf(l)} IN
  IF l \in KeyLicenses \/ bound = {} THEN {bound} ELSE {{d} : d \in bound}

\* The rows a change takes away or writes over.
Affected(x) ==
  IF x.license \in KeyLicenses THEN {r \in RowsOf(x.license) : r.id = x.site}
                               ELSE RowsOf(x.license)

\* countsAsSiteChange.  What the unbinding of a site counts by is the license's first
\* site when the one it names is gone, and a key's site that is replaced always counts.
Counted(x, old) ==
  CASE x.act = "unbind" -> old # {}
    [] x.act = "replace" /\ x.license \in KeyLicenses -> TRUE
    [] x.act = "replace" /\ x.license \in DomainLicenses -> old \notin {{}, {x.target}}

\* decideSiteChange for an owner: no charge, a free change, a payment, or nothing.
Charge(x, old) ==
  CASE ~Counted(x, old) \/ left[x.license] < 0 -> "none"
    [] Counted(x, old) /\ left[x.license] > 0 -> "free"
    [] Counted(x, old) /\ left[x.license] = 0 /\ Price > 0 -> "pay"
    [] Counted(x, old) /\ left[x.license] = 0 /\ Price = 0 -> "denied"

\* Mutant: a domain bound where there is none is not looked at.
NewDomainInPlace(x, old) ==
  /\ x.license \in Commercial
  /\ x.act = "replace"
  /\ old \notin {{}, {x.target}}

\* A new domain, for guardProductDomainChange and finishProductDomainChange.
NewDomain(x, old) ==
  /\ x.license \in Commercial
  /\ x.act = "replace"
  /\ old # {x.target}

\* guardProductDomainChange: one change of the domain in thirty days, unless it fails to
\* read the last one, which it takes for none.
Guarded(x, old) ==
  \/ /\ NewDomain(x, old) => x.license \notin cooling
     /\ slips' = slips
  \/ /\ NewDomain(x, old) /\ x.license \in cooling
     /\ slips' = slips \cup {x.license}

\* applySiteChangeMutation succeeds: a domain license that has a domain may not take
\* another license's; a key's site must be there and its new domain not be listed.
Applicable(x, old) ==
  x.act = "replace" =>
    IF x.license \in KeyLicenses
    THEN /\ Affected(x) # {}
         /\ \A r \in RowsOf(x.license) \ Affected(x) : r.domain # x.target
    ELSE Counted(x, old) => \A r \in rows : r.license # x.license => r.domain # x.target

Replacement(x) ==
  [id |-> IF x.license \in KeyLicenses THEN x.site ELSE NoSite,
   license |-> x.license, domain |-> x.target]

\* A domain license whose domain, as it was read, is what is asked for is not written.
Untouched(x, old) ==
  /\ x.license \in DomainLicenses
  /\ old = IF x.act = "replace" THEN {x.target} ELSE {}

\* Mutant: the new site is written beside the old one.
AppliedBeside(x, old) == rows \cup {Replacement(x)}

Applied(x, old) ==
  IF Untouched(x, old) THEN rows
  ELSE (rows \ Affected(x)) \cup (IF x.act = "replace" THEN {Replacement(x)} ELSE {})

Started(x, old, charge, o) ==
  tx' = [tx EXCEPT ![x.license] =
           [stage |-> "decided", change |-> x, old |-> old, charge |-> charge, order |-> o]]

LicenseFree(l) == tx[l] = NoTx
OrderFree(o) == \A l \in Licenses : tx[l].order # o

--------------------------------------------------------------------------------
(* The owner's handlers *)

\* userOrAgentSiteChange, and the two payment handlers when nothing is to be paid.
ChangeBegin(x, old) ==
  /\ LicenseFree(x.license)
  /\ Guarded(x, old)
  /\ Charge(x, old) \in {"none", "free"}
  /\ Applicable(x, old)
  /\ Started(x, old, Charge(x, old), NoOrder)
  /\ UNCHANGED <<rows, spent, left, cooling, edit, orderVars, balance, runs, changes,
                 allowed, moved, torn>>

\* completeSiteChangeWithBalance: deductPurchaseBalance locks the owner's balance.
BalanceBegin(o, x, old) ==
  /\ pc[o] = "idle"
  /\ LicenseFree(x.license)
  /\ Guarded(x, old)
  /\ Charge(x, old) = "pay"
  /\ \A l \in Licenses : tx[l].charge # "balance"
  /\ balance >= Price
  /\ Applicable(x, old)
  /\ Started(x, old, "balance", o)
  /\ req' = [req EXCEPT ![o] = x]
  /\ pc' = [pc EXCEPT ![o] = "done"]
  /\ UNCHANGED <<rows, spent, left, cooling, edit, status, bill, balance, runs, changes,
                 allowed, moved, torn>>

\* startSiteChangeOnlinePay commits a pending order; whether the change can be made
\* is not looked at before it is paid.
OnlineOrder(o, x, old) ==
  /\ pc[o] = "idle"
  /\ LicenseFree(x.license)
  /\ Guarded(x, old)
  /\ Charge(x, old) = "pay"
  /\ req' = [req EXCEPT ![o] = x]
  /\ status' = [status EXCEPT ![o] = "pending"]
  /\ pc' = [pc EXCEPT ![o] = "gateway"]
  /\ UNCHANGED <<rows, spent, left, cooling, tx, edit, bill, balance, runs, changes,
                 allowed, moved, torn>>

GatewayAccepts(o) ==
  /\ pc[o] = "gateway"
  /\ bill' = [bill EXCEPT ![o] = "open"]
  /\ pc' = [pc EXCEPT ![o] = "done"]
  /\ UNCHANGED <<rows, spent, left, cooling, tx, edit, req, status, balance, historyVars>>

\* failOrder, of an order the gateway refuses or whose bill it opened though its answer
\* was lost.
GatewayRefuses(o) ==
  /\ pc[o] = "gateway"
  /\ OrderFree(o)
  /\ status' = [status EXCEPT ![o] = IF @ = "pending" THEN "failed" ELSE @]
  /\ bill' \in {bill, [bill EXCEPT ![o] = "open"]}
  /\ pc' = [pc EXCEPT ![o] = "done"]
  /\ UNCHANGED <<rows, spent, left, cooling, tx, edit, req, balance, historyVars>>

Pay(o) ==
  /\ bill[o] = "open"
  /\ bill' = [bill EXCEPT ![o] = "paid"]
  /\ UNCHANGED <<rows, spent, left, cooling, tx, edit, req, pc, status, balance, historyVars>>

\* Mutant: the callback of an order that has been carried out carries it out again.
SettleBeginAgain(o, old) ==
  /\ bill[o] = "paid"
  /\ OrderFree(o)
  /\ status[o] \in {"pending", "paid"}
  /\ LicenseFree(req[o].license)
  /\ Applicable(req[o], old)
  /\ Started(req[o], old, "order", o)
  /\ UNCHANGED <<rows, spent, left, cooling, edit, orderVars, balance, historyVars>>

\* settleSiteChangeOrder: the order row, then the license row; the change is made as
\* the license is now.  A change that cannot be made fails the callback, and the order
\* stays pending.
SettleBegin(o, old) ==
  /\ bill[o] = "paid"
  /\ OrderFree(o)
  /\ status[o] = "pending"
  /\ LicenseFree(req[o].license)
  /\ Applicable(req[o], old)
  /\ Started(req[o], old, "order", o)
  /\ UNCHANGED <<rows, spent, left, cooling, edit, orderVars, balance, historyVars>>

--------------------------------------------------------------------------------
(* How the owner's transactions end *)

\* finishProductDomainChange, through another connection, before the commit: the change
\* is recorded, or the error of its INSERT is passed over.
Finish(l) ==
  /\ tx[l].stage = "decided"
  /\ NewDomain(tx[l].change, tx[l].old)
  /\ \/ cooling' = cooling \cup {l} /\ slips' = slips
     \/ cooling' = cooling /\ slips' = slips \cup {l}
  /\ tx' = [tx EXCEPT ![l].stage = "finished"]
  /\ UNCHANGED <<rows, spent, left, edit, orderVars, balance, runs, changes, allowed, moved,
                 torn>>

\* Mutant: a free change is not counted.
LeftAfterKept(t) == left[t.change.license]

LeftAfter(t) == IF t.charge = "free" THEN left[t.change.license] - 1 ELSE left[t.change.license]

\* Mutant: a change paid for online is deducted from the balance as well.
BalanceAfterOrder(t) == IF t.order # NoOrder THEN balance - Price ELSE balance

BalanceAfter(t) == IF t.charge = "balance" THEN balance - Price ELSE balance

\* The license, the order and the balance change together.  A site is taken away by a
\* change that saw one.
Commit(l) ==
  LET t == tx[l]  x == t.change IN
  /\ t # NoTx
  /\ NewDomain(x, t.old) => t.stage = "finished"
  /\ rows' = Applied(x, t.old)
  /\ left' = [left EXCEPT ![l] = LeftAfter(t)]
  /\ balance' = BalanceAfter(t)
  /\ status' = [o \in Orders |-> IF o = t.order THEN "paid" ELSE status[o]]
  /\ runs' = [o \in Orders |-> IF o = t.order THEN runs[o] + 1 ELSE runs[o]]
  /\ changes' = [changes EXCEPT ![l] =
       IF t.old # {} /\ Affected(x) \ rows' # {} /\ left[l] >= 0 THEN @ + 1 ELSE @]
  /\ allowed' = [allowed EXCEPT ![l] = IF t.order # NoOrder /\ left[l] >= 0 THEN @ + 1 ELSE @]
  /\ moved' = IF NewDomain(x, t.old) /\ t.old # {} THEN moved \cup {l} ELSE moved
  /\ torn' = IF Untouched(x, t.old) THEN torn
             ELSE (torn \ {l}) \cup {m \in {l} : edit[m] = "inserting"}
  /\ tx' = [tx EXCEPT ![l] = NoTx]
  /\ UNCHANGED <<spent, cooling, edit, req, pc, bill, slips>>

\* Mutant: the order is marked through another connection, and stays so.
AbortMarked(l) ==
  /\ tx[l] # NoTx
  /\ tx' = [tx EXCEPT ![l] = NoTx]
  /\ status' = [o \in Orders |-> IF o = tx[l].order THEN "paid" ELSE status[o]]
  /\ UNCHANGED <<rows, spent, left, cooling, edit, req, pc, bill, balance, historyVars>>

\* Rolled back; what Finish wrote stays.
Abort(l) ==
  /\ tx[l] # NoTx
  /\ tx' = [tx EXCEPT ![l] = NoTx]
  /\ UNCHANGED <<rows, spent, left, cooling, edit, orderVars, balance, historyVars>>

--------------------------------------------------------------------------------
(* Verification, the administrator, time *)

\* Mutant: the limit is not looked at.
BelowLimitAlways(l) == TRUE

BelowLimit(l) == MaxSites > 0 => Cardinality(RowsOf(l)) < MaxSites

\* checkKeyLicenseSite: a new site is bound to the key as long as there is room.
Verify(l, s, d) ==
  /\ l \in KeyLicenses
  /\ LicenseFree(l)
  /\ \A r \in RowsOf(l) : r.domain # d
  /\ BelowLimit(l)
  /\ s \notin spent
  /\ rows' = rows \cup {[id |-> s, license |-> l, domain |-> d]}
  /\ spent' = spent \cup {s}
  /\ UNCHANGED <<left, cooling, tx, edit, orderVars, balance, historyVars>>

\* UserLicenseRefreshKey: a new key, and all its sites are forgotten.
RefreshKey(l) ==
  /\ l \in KeyLicenses
  /\ LicenseFree(l)
  /\ rows' = rows \ RowsOf(l)
  /\ UNCHANGED <<spent, left, cooling, tx, edit, orderVars, balance, historyVars>>

\* licenseSiteUnbind by the administrator.
AdminUnbind(r) ==
  /\ r.license \in KeyLicenses
  /\ LicenseFree(r.license)
  /\ rows' = rows \ {r}
  /\ UNCHANGED <<spent, left, cooling, tx, edit, orderVars, balance, historyVars>>

\* AdminLicenseSiteChangeAdjust
AdminAdjust(l, n) ==
  /\ LicenseFree(l)
  /\ left[l] # n
  /\ left' = [left EXCEPT ![l] = n]
  /\ changes' = [changes EXCEPT ![l] = 0]
  /\ allowed' = [allowed EXCEPT ![l] = n]
  /\ UNCHANGED <<rows, spent, cooling, tx, edit, orderVars, balance, runs, moved, slips, torn>>

\* Thirty days pass.  No transaction lasts as long.
Cool(l) ==
  /\ l \in cooling \cup moved \cup slips
  /\ LicenseFree(l) /\ edit[l] = "none"
  /\ cooling' = cooling \ {l}
  /\ moved' = moved \ {l}
  /\ slips' = slips \ {l}
  /\ UNCHANGED <<rows, spent, left, tx, edit, orderVars, balance, runs, changes, allowed,
                 torn>>

--------------------------------------------------------------------------------
(* The administrator's edit of a domain license: LicenseUpdate *)

\* What a transaction has written it has locked.
Writable(l) == tx[l].stage # "finished"

\* UPDATE licenses, the one statement that waits for the license's row.
EditBegin(l) ==
  /\ l \in DomainLicenses
  /\ edit[l] = "none"
  /\ LicenseFree(l)
  /\ edit' = [edit EXCEPT ![l] = "deleting"]
  /\ UNCHANGED <<rows, spent, left, cooling, tx, orderVars, balance, historyVars>>

\* DELETE FROM license_domains; its error is not looked at.
EditDelete(l) ==
  /\ edit[l] = "deleting"
  /\ Writable(l)
  /\ \/ rows' = rows \ RowsOf(l) /\ torn' = torn \ {l}
     \/ RowsOf(l) # {} /\ rows' = rows /\ torn' = torn \cup {l}
  /\ edit' = [edit EXCEPT ![l] = "inserting"]
  /\ UNCHANGED <<spent, left, cooling, tx, orderVars, balance, runs, changes, allowed, moved,
                 slips>>

\* INSERT INTO license_domains of the domain asked for; neither is this one's.
EditInsert(l, d) ==
  /\ edit[l] = "inserting"
  /\ Writable(l)
  /\ rows' \in {rows, rows \cup {[id |-> NoSite, license |-> l, domain |-> d]}}
  /\ edit' = [edit EXCEPT ![l] = "recording"]
  /\ UNCHANGED <<spent, left, cooling, tx, orderVars, balance, historyVars>>

\* finishProductDomainChange by "admin": recorded, unless the domain is the one that was
\* read at first or the INSERT fails.
EditRecord(l) ==
  /\ edit[l] = "recording"
  /\ cooling' \in {cooling, cooling \cup ({l} \cap Commercial)}
  /\ edit' = [edit EXCEPT ![l] = "none"]
  /\ UNCHANGED <<rows, spent, left, tx, orderVars, balance, historyVars>>

\* The process dies; what was written stays.
EditBreaks(l) ==
  /\ edit[l] # "none"
  /\ edit' = [edit EXCEPT ![l] = "none"]
  /\ UNCHANGED <<rows, spent, left, cooling, tx, orderVars, balance, historyVars>>

--------------------------------------------------------------------------------

Order(o) ==
  \/ \E x \in Change : \E old \in Seen(x.license) :
       BalanceBegin(o, x, old) \/ OnlineOrder(o, x, old)
  \/ GatewayAccepts(o) \/ GatewayRefuses(o) \/ Pay(o)
  \/ \E old \in Seen(req[o].license) : SettleBegin(o, old)

Rewrite(l) ==
  \/ EditBegin(l) \/ EditDelete(l) \/ EditRecord(l) \/ EditBreaks(l)
  \/ \E d \in Domains : EditInsert(l, d)

Next ==
  \/ \E x \in Change : \E old \in Seen(x.license) : ChangeBegin(x, old)
  \/ \E o \in Orders : Order(o)
  \/ \E l \in Licenses : Finish(l) \/ Commit(l) \/ Abort(l) \/ RefreshKey(l) \/ Cool(l)
  \/ \E l \in Licenses : Rewrite(l)
  \/ \E l \in Licenses, s \in Sites, d \in Domains : Verify(l, s, d)
  \/ \E r \in rows : AdminUnbind(r)
  \/ \E l \in Licenses, n \in Adjustments : AdminAdjust(l, n)

Spec == Init /\ [][Next]_vars

--------------------------------------------------------------------------------
(* Properties *)

\* A key is never bound to more sites than its license allows, though verifications,
\* replacements and unbindings interleave (checkKeyLicenseSite counts under the lock).
SitesWithinLimit ==
  MaxSites > 0 => \A l \in KeyLicenses : Cardinality(RowsOf(l)) <= MaxSites

\* A domain license is bound to one domain at most, unless a change was committed between
\* the two statements of an administrator's edit, which do not lock the license, or the
\* first of them failed (license.go:1053).
OneDomain == \A l \in DomainLicenses \ torn : Cardinality(RowsOf(l)) <= 1

\* Every change that takes away a site it saw bound was free or paid for: the changes made
\* and the free ones left never exceed those given and the orders paid.
ChangesCovered ==
  \A l \in Licenses : left[l] >= 0 => changes[l] + left[l] <= allowed[l]

\* The balance pays for the orders carried out from it, once each.
BalanceAccounted ==
  balance + Price * Cardinality({o \in Orders : status[o] = "paid" /\ bill[o] = "none"})
    = InitialBalance

\* When an order becomes paid, the license is bound to the site it was paid for, or was
\* when the payer's change was decided, whatever was changed between the order and its
\* payment and whoever edits the license meanwhile.
PaidIsApplied ==
  [][\A o \in Orders :
       (status[o] # "paid" /\ status'[o] = "paid" /\ req[o].act = "replace")
         => \/ Untouched(req[o], tx[req[o].license].old)
            \/ \E r \in rows' : r.license = req[o].license /\ r.domain = req[o].target]_vars

\* docs/commercial.md:39: an edition goes to another domain once in thirty days.  Unless an
\* order pays for it, or the record of the first change was lost or could not be read, the
\* owner of a license that has gone to one binds it to no other meanwhile, unbound and
\* bound again included, whatever is committed or rolled back in between.
FreeOncePerThirtyDays ==
  [][\A l \in Commercial :
       (tx'[l] # tx[l] /\ (\E r \in rows' \ rows : r.license = l) /\ status' = status)
         => l \notin moved \ slips]_vars

Abstract(st) == CASE st = "none" -> "none" [] st = "pending" -> "open"
                  [] st = "paid" -> "granted" [] st = "failed" -> "closed"

Promise == INSTANCE OrderSettlement WITH
  state <- [o \in Orders |-> Abstract(status[o])],
  grants <- runs

\* Site change orders keep the promise of every payable order: carried out once, and
\* only when paid.
ImplementsPromise == Promise!Spec

================================================================================
