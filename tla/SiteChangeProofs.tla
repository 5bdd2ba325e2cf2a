---------------------------- MODULE SiteChangeProofs ----------------------------
(***************************************************************************)
(* Theorems about SiteChange, for any number of licenses, sites, orders    *)
(* and amounts.  A transaction that holds a license's row works on that    *)
(* license; what it decided about the free changes stays true, because     *)
(* nothing else writes the license's row meanwhile, though an edit may     *)
(* write a domain license's sites; and an order is one transaction's,      *)
(* whose change is the order's.                                            *)
(***************************************************************************)
EXTENDS SiteChange, FiniteSetTheorems, TLAPS

\* Who holds a license's row works on that license, for the order it is paid by.
Held ==
  \A l \in Licenses : tx[l] # NoTx =>
    /\ tx[l].change.license = l
    /\ tx[l].order # NoOrder <=> tx[l].charge \in {"balance", "order"}
    /\ tx[l].order # NoOrder => req[tx[l].order] = tx[l].change

\* What an order is for was asked of a license.
Placed == \A o \in Orders : pc[o] # "idle" => req[o] \in Change

\* A domain license has one row at most, which names no site, and none between the two
\* statements of an edit, unless something was written between them or the first failed.
Bound ==
  /\ IsFiniteSet(rows)
  /\ \A r \in rows : r.license \in DomainLicenses => r.id = NoSite
  /\ \A r1, r2 \in rows :
       r1.license \in DomainLicenses \ torn /\ r1.license = r2.license => r1 = r2
  /\ \A l \in Licenses : edit[l] # "none" => l \in DomainLicenses
  /\ \A l \in Licenses \ torn : edit[l] = "inserting" => RowsOf(l) = {}

\* What was decided under the row's lock is still so.
Decided ==
  \A l \in Licenses : tx[l] # NoTx =>
    /\ tx[l].charge = "free" => left[l] > 0
    /\ tx[l].charge = "none" => left[l] < 0 \/ ~Counted(tx[l].change, tx[l].old)
    /\ (l \in KeyLicenses /\ tx[l].change.act = "replace") => Affected(tx[l].change) # {}

\* How far an order is, by its handler, its row and its bill.
Stages ==
  \A o \in Orders :
    /\ pc[o] = "idle" => status[o] = "none" /\ bill[o] = "none"
    /\ pc[o] = "gateway" => status[o] = "pending" /\ bill[o] = "none"
    /\ bill[o] # "none" => status[o] \in {"pending", "paid", "failed"}
    /\ runs[o] = IF status[o] = "paid" THEN 1 ELSE 0

\* An order in a transaction is that transaction's, and so is the balance.
Owned ==
  /\ \A l \in Licenses :
       /\ tx[l].charge = "balance" =>
            /\ pc[tx[l].order] = "done"
            /\ status[tx[l].order] = "none" /\ bill[tx[l].order] = "none"
            /\ balance >= Price
       /\ tx[l].charge = "order" => status[tx[l].order] = "pending" /\ bill[tx[l].order] = "paid"
  /\ \A l, m \in Licenses : tx[l].order = tx[m].order /\ tx[l].order # NoOrder => l = m
  /\ \A l, m \in Licenses : tx[l].charge = "balance" /\ tx[m].charge = "balance" => l = m

Inv == TypeOK /\ Held /\ Placed /\ Bound /\ Decided /\ Stages /\ Owned
       /\ ChangesCovered /\ SitesWithinLimit /\ BalanceAccounted

--------------------------------------------------------------------------------
(* Transactions *)

\* What is known of a license's transaction.
LEMMA Fields == ASSUME TypeOK, NEW l \in Licenses
                PROVE  /\ tx[l] = NoTx <=> tx[l].stage = "none"
                       /\ tx[l] = NoTx => /\ tx[l].charge = "none" /\ tx[l].order = NoOrder
                                          /\ tx[l].change = NoChange
                       /\ tx[l] # NoTx =>
                            /\ tx[l] \in Tx
                            /\ tx[l].change \in Change
                            /\ tx[l].change.license \in Licenses
                            /\ tx[l].change.act \in Actions
                            /\ tx[l].change.act = "replace" => tx[l].change.target \in Domains
                            /\ tx[l].change.site \in Sites \cup {NoSite}
                            /\ tx[l].change.license \in KeyLicenses <=> tx[l].change.site # NoSite
                            /\ tx[l].old \in SUBSET Domains
                       /\ tx[l].charge \in {"none", "free", "balance", "order"}
                       /\ tx[l].order \in Orders \cup {NoOrder}
BY ConstantsAssumption DEF TypeOK, Tx, NoTx, Change

\* A request is a change of a license, and what is read of the license's sites are domains.
LEMMA Asked == ASSUME TypeOK, NEW x \in Change, NEW old \in Seen(x.license)
               PROVE  /\ x.license \in Licenses /\ x.act \in Actions
                      /\ x.site \in Sites \cup {NoSite}
                      /\ x.license \in KeyLicenses <=> x.site # NoSite
                      /\ old \in SUBSET Domains
BY DEF Change, Seen, RowsOf, TypeOK

\* A transaction begins.
LEMMA Begins == ASSUME TypeOK, NEW x \in Change, NEW old \in Seen(x.license),
                       NEW o \in Orders \cup {NoOrder},
                       NEW c \in {"none", "free", "balance", "order"}, Started(x, old, c, o)
                PROVE  /\ tx' \in [Licenses -> Tx \cup {NoTx}]
                       /\ tx'[x.license] # NoTx
                       /\ tx'[x.license].stage = "decided"
                       /\ tx'[x.license].change = x
                       /\ tx'[x.license].old = old
                       /\ tx'[x.license].charge = c
                       /\ tx'[x.license].order = o
                       /\ \A l \in Licenses \ {x.license} : tx'[l] = tx[l]
<1> DEFINE t == [stage |-> "decided", change |-> x, old |-> old, charge |-> c, order |-> o]
<1>1. t \in Tx /\ t # NoTx
  BY Asked DEF Tx, NoTx
<1>2. tx' = [tx EXCEPT ![x.license] = t] /\ x.license \in Licenses
  BY Asked DEF Started
<1> QED
  BY <1>1, <1>2 DEF TypeOK

\* A transaction has written what it writes through another connection.
LEMMA Finishes == ASSUME TypeOK, NEW l \in Licenses, tx[l] # NoTx,
                         tx' = [tx EXCEPT ![l].stage = "finished"]
                  PROVE  /\ tx' \in [Licenses -> Tx \cup {NoTx}]
                         /\ tx'[l] # NoTx
                         /\ tx'[l].stage = "finished"
                         /\ tx'[l].change = tx[l].change
                         /\ tx'[l].old = tx[l].old
                         /\ tx'[l].charge = tx[l].charge
                         /\ tx'[l].order = tx[l].order
                         /\ \A m \in Licenses \ {l} : tx'[m] = tx[m]
<1>1. tx'[l] = [stage |-> "finished", change |-> tx[l].change, old |-> tx[l].old,
                charge |-> tx[l].charge, order |-> tx[l].order]
  BY Fields DEF TypeOK, Tx
<1>2. tx'[l] \in Tx
  BY <1>1, Fields DEF Tx
<1>3. tx'[l] # NoTx
  BY <1>1 DEF NoTx
<1> QED
  BY <1>1, <1>2, <1>3 DEF TypeOK

\* A transaction ends.
LEMMA Closes == ASSUME TypeOK, NEW l \in Licenses, tx' = [tx EXCEPT ![l] = NoTx]
                PROVE  /\ tx' \in [Licenses -> Tx \cup {NoTx}]
                       /\ tx'[l] = NoTx /\ NoTx.charge = "none" /\ NoTx.order = NoOrder
                       /\ \A m \in Licenses \ {l} : tx'[m] = tx[m]
BY DEF TypeOK, NoTx

\* An edit writes the rows of its license, which is a domain license, and nothing that
\* transactions and orders keep.
LEMMA Rewrites == ASSUME NEW l \in Licenses, Rewrite(l), Inv
                  PROVE  /\ l \in DomainLicenses /\ l \notin KeyLicenses
                         /\ UNCHANGED <<spent, left, tx, req, pc, status, bill, balance, runs, changes,
                                        allowed, moved, slips>>
                         /\ \A r : r.license # l => (r \in rows <=> r \in rows')
                         /\ \A k \in KeyLicenses : RowsOf(k)' = RowsOf(k)
<1>1. l \in DomainLicenses /\ l \notin KeyLicenses
  BY ConstantsAssumption DEF Rewrite, EditBegin, EditDelete, EditInsert, EditRecord, EditBreaks,
     Inv, Bound
<1>2. UNCHANGED <<spent, left, tx, req, pc, status, bill, balance, runs, changes, allowed, moved, slips>>
  BY DEF Rewrite, EditBegin, EditDelete, EditInsert, EditRecord, EditBreaks, orderVars, historyVars
<1>3. \A r : r.license # l => (r \in rows <=> r \in rows')
  <2>1. \A d : [id |-> NoSite, license |-> l, domain |-> d].license = l
    OBVIOUS
  <2>2. CASE rows' = rows
    BY <2>2
  <2>3. CASE rows' = rows \ RowsOf(l)
    BY <2>3 DEF RowsOf
  <2>4. ASSUME NEW d, rows' = rows \cup {[id |-> NoSite, license |-> l, domain |-> d]}
        PROVE  \A r : r.license # l => (r \in rows <=> r \in rows')
    BY <2>1, <2>4
  <2> QED
    BY <2>2, <2>3, <2>4 DEF Rewrite, EditBegin, EditDelete, EditInsert, EditRecord, EditBreaks
<1> QED
  BY <1>1, <1>2, <1>3 DEF RowsOf

--------------------------------------------------------------------------------
(* The commit *)

\* The rows after a commit: those of the other licenses, and the license's own as they were
\* or without the affected ones and with the new one.
LEMMA CommitRows == ASSUME Inv, NEW l \in Licenses, Commit(l)
                    PROVE  /\ tx[l] # NoTx /\ tx[l].change.license = l
                           /\ Affected(tx[l].change) \subseteq RowsOf(l)
                           /\ l \in DomainLicenses => Affected(tx[l].change) = RowsOf(l)
                           /\ Replacement(tx[l].change).license = l
                           /\ Replacement(tx[l].change).domain = tx[l].change.target
                           /\ tx[l].change.act = "replace" =>
                                Replacement(tx[l].change) \in
                                  [id : Sites \cup {NoSite}, license : Licenses, domain : Domains]
                           /\ l \in DomainLicenses => Replacement(tx[l].change).id = NoSite
                           /\ rows' = Applied(tx[l].change, tx[l].old)
                           /\ \A r : r.license # l => (r \in rows <=> r \in rows')
<1> DEFINE x == tx[l].change
<1>1. tx[l] # NoTx /\ x.license = l /\ rows' = Applied(x, tx[l].old)
  BY DEF Inv, Held, Commit
<1>2. (x.act = "replace" => x.target \in Domains) /\ x.site \in Sites \cup {NoSite}
  BY <1>1, Fields DEF Inv
<1>3. l \in DomainLicenses => l \notin KeyLicenses
  BY ConstantsAssumption
<1>4. Affected(x) \subseteq RowsOf(l) /\ (l \in DomainLicenses => Affected(x) = RowsOf(l))
  BY <1>1, <1>3 DEF Affected
<1>5. /\ Replacement(x).license = l
      /\ Replacement(x).domain = x.target
      /\ l \in DomainLicenses => Replacement(x).id = NoSite
  BY <1>1, <1>3 DEF Replacement
<1>6. x.act = "replace" =>
        Replacement(x) \in [id : Sites \cup {NoSite}, license : Licenses, domain : Domains]
  BY <1>1, <1>2 DEF Replacement
<1>7. \A r : r.license # l => (r \in rows <=> r \in rows')
  <2>1. \A r : r.license # l => r \notin Affected(x) /\ r # Replacement(x)
    BY <1>4, <1>5 DEF RowsOf
  <2> QED
    BY <1>1, <2>1 DEF Applied
<1> QED
  BY <1>1, <1>4, <1>5, <1>6, <1>7

\* The transaction of another license keeps what it decided.
LEMMA CommitDecided == ASSUME Inv, NEW l \in Licenses, Commit(l) PROVE Decided'
<1> SUFFICES ASSUME NEW m \in Licenses, tx'[m] # NoTx
             PROVE  /\ tx'[m].charge = "free" => left'[m] > 0
                    /\ tx'[m].charge = "none" => left'[m] < 0 \/ ~Counted(tx'[m].change, tx'[m].old)
                    /\ (m \in KeyLicenses /\ tx'[m].change.act = "replace")
                         => Affected(tx[m].change)' # {}
  BY DEF Decided, Counted
<1>1. m # l /\ tx'[m] = tx[m] /\ tx[m].change.license = m
  BY Closes DEF Commit, Inv, Held
<1>2. RowsOf(m)' = RowsOf(m)
  BY <1>1, CommitRows DEF RowsOf
<1>3. Affected(tx[m].change)' = Affected(tx[m].change)
  BY <1>1, <1>2 DEF Affected
<1>4. left'[m] = left[m]
  BY <1>1 DEF Commit, Inv, TypeOK
<1> QED
  BY <1>1, <1>3, <1>4 DEF Inv, Decided

\* A change that is neither free nor paid for takes no site away that it saw.
LEMMA CommitCovered == ASSUME Inv, NEW l \in Licenses, Commit(l) PROVE ChangesCovered'
<1> DEFINE x == tx[l].change
           old == tx[l].old
<1>1. /\ tx[l] # NoTx /\ x.license = l /\ rows' = Applied(x, old)
      /\ left \in [Licenses -> Nat \cup {-1}] /\ changes \in [Licenses -> Nat]
      /\ allowed \in [Licenses -> Nat \cup {-1}]
      /\ left' = [left EXCEPT ![l] = LeftAfter(tx[l])]
      /\ changes' = [changes EXCEPT ![l] =
                       IF old # {} /\ Affected(x) \ rows' # {} /\ left[l] >= 0 THEN @ + 1 ELSE @]
      /\ allowed' = [allowed EXCEPT ![l] = IF tx[l].order # NoOrder /\ left[l] >= 0 THEN @ + 1 ELSE @]
  BY DEF Commit, Inv, Held, TypeOK
<1>2. CASE left[l] < 0
  <2>1. tx[l].charge # "free"
    BY <1>1, <1>2 DEF Inv, Decided
  <2>2. \A m \in Licenses \ {l} : left'[m] = left[m] /\ changes'[m] = changes[m] /\ allowed'[m] = allowed[m]
    BY <1>1
  <2>3. \A m \in Licenses : left[m] >= 0 => changes[m] + left[m] <= allowed[m]
    BY DEF Inv, ChangesCovered
  <2>4. ~(left'[l] >= 0)
    BY <1>1, <1>2, <2>1 DEF LeftAfter
  <2> QED
    BY <2>2, <2>3, <2>4 DEF ChangesCovered
<1>3. CASE left[l] >= 0 /\ tx[l].charge = "none"
  <2>1. ~Counted(x, old) /\ x.act \in Actions /\ l \in Licenses
    BY <1>1, <1>3, Fields DEF Inv, Decided
  <2>2. old = {} \/ Affected(x) \ rows' = {}
    <3>1. CASE x.act = "unbind"
      BY <2>1, <3>1 DEF Counted
    <3>2. CASE x.act = "replace"
      <4>1. l \in DomainLicenses /\ l \notin KeyLicenses /\ old \in {{}, {x.target}}
        BY <1>1, <2>1, <3>2, ConstantsAssumption DEF Counted, Licenses
      <4>2. old = {x.target} => rows' = rows
        BY <1>1, <3>2, <4>1 DEF Applied, Untouched
      <4>3. Affected(x) \subseteq rows
        BY DEF Affected, RowsOf
      <4> QED
        BY <4>1, <4>2, <4>3
    <3> QED
      BY <2>1, <3>1, <3>2 DEF Actions
  <2>3. left'[l] = left[l] /\ changes'[l] = changes[l]
    BY <1>1, <1>3, <2>2 DEF LeftAfter
  <2>4. tx[l].order = NoOrder
    BY <1>1, <1>3 DEF Inv, Held
  <2> QED
    BY <1>1, <2>3, <2>4 DEF ChangesCovered, Inv
<1>4. CASE left[l] >= 0 /\ tx[l].charge = "free"
  <2>1. left'[l] = left[l] - 1 /\ changes'[l] <= changes[l] + 1 /\ changes'[l] \in Nat
    BY <1>1, <1>4 DEF LeftAfter
  <2>2. tx[l].order = NoOrder
    BY <1>1, <1>4 DEF Inv, Held
  <2> QED
    BY <1>1, <2>1, <2>2 DEF ChangesCovered, Inv
<1>5. CASE left[l] >= 0 /\ tx[l].charge \in {"balance", "order"}
  <2>1. left'[l] = left[l] /\ changes'[l] <= changes[l] + 1 /\ changes'[l] \in Nat
    BY <1>1, <1>5 DEF LeftAfter
  <2>2. tx[l].order # NoOrder
    BY <1>1, <1>5 DEF Inv, Held
  <2> QED
    BY <1>1, <2>1, <2>2 DEF ChangesCovered, Inv
<1>6. tx[l].charge \in {"none", "free", "balance", "order"}
  BY Fields DEF Inv
<1>7. left[l] < 0 \/ left[l] >= 0
  BY <1>1
<1> QED
  BY <1>2, <1>3, <1>4, <1>5, <1>6, <1>7

\* A step that begins no transaction, or one with what it found, keeps what was decided.
LEMMA DecidedKept ==
  ASSUME Inv, TypeOK',
         \A m \in Licenses : tx'[m] # NoTx =>
           /\ left'[m] = left[m]
           /\ m \in KeyLicenses => RowsOf(m)' = RowsOf(m)
           /\ \/ /\ tx[m] # NoTx
                 /\ tx'[m].change = tx[m].change /\ tx'[m].charge = tx[m].charge
                 /\ tx'[m].old = tx[m].old
              \/ /\ tx'[m].change.license = m
                 /\ tx'[m].charge = "free" => left[m] > 0
                 /\ tx'[m].charge = "none" => left[m] < 0 \/ ~Counted(tx'[m].change, tx'[m].old)
                 /\ (m \in KeyLicenses /\ tx'[m].change.act = "replace")
                      => Affected(tx'[m].change) # {}
  PROVE  Decided'
<1> SUFFICES ASSUME NEW m \in Licenses, tx'[m] # NoTx
             PROVE  /\ tx'[m].charge = "free" => left'[m] > 0
                    /\ tx'[m].charge = "none" => left'[m] < 0 \/ ~Counted(tx'[m].change, tx'[m].old)
                    /\ (m \in KeyLicenses /\ tx'[m].change.act = "replace")
                         => (Affected(tx[m].change))' # {}
  BY DEF Decided, Counted
<1>1. tx'[m].change.license = m
  BY DEF Inv, Held
<1>2. m \in KeyLicenses => (Affected(tx[m].change))' = Affected(tx'[m].change)
  BY <1>1 DEF Affected
<1>3. /\ tx'[m].charge = "free" => left[m] > 0
      /\ tx'[m].charge = "none" => left[m] < 0 \/ ~Counted(tx'[m].change, tx'[m].old)
      /\ (m \in KeyLicenses /\ tx'[m].change.act = "replace") => Affected(tx'[m].change) # {}
  BY DEF Inv, Decided
<1> QED
  BY <1>2, <1>3

\* One element more.
LEMMA OneAdded == ASSUME NEW S, IsFiniteSet(S), NEW e
                  PROVE  /\ IsFiniteSet(S \cup {e})
                         /\ Cardinality(S \cup {e}) <= Cardinality(S) + 1
                         /\ Cardinality(S \cup {e}) \in Nat
<1>1. Cardinality(S) \in Nat
  BY FS_CardinalityType
<1>2. CASE e \in S
  <2>1. S \cup {e} = S
    BY <1>2
  <2>2. Cardinality(S) <= Cardinality(S) + 1
    BY <1>1
  <2> QED
    BY <1>1, <2>1, <2>2, Zenon
<1>3. CASE e \notin S
  <2>1. Cardinality(S \cup {e}) = Cardinality(S) + 1 /\ IsFiniteSet(S \cup {e})
    BY <1>3, FS_AddElement
  <2> QED
    BY <1>1, <2>1
<1> QED
  BY <1>2, <1>3

\* A step that leaves an owner and what it owns alone, or takes it off, keeps the owners.
LEMMA OwnedKept ==
  ASSUME Inv,
         \A m \in Licenses :
           \/ tx'[m].charge \in {"none", "free"} /\ tx'[m].order = NoOrder
           \/ /\ tx'[m].charge = tx[m].charge /\ tx'[m].order = tx[m].order
              /\ tx[m].order # NoOrder => /\ pc'[tx[m].order] = pc[tx[m].order]
                                          /\ status'[tx[m].order] = status[tx[m].order]
                                          /\ bill'[tx[m].order] = bill[tx[m].order]
              /\ tx[m].charge = "balance" => balance' = balance /\ tx[m].order # NoOrder
              /\ tx[m].charge = "order" => tx[m].order # NoOrder
  PROVE  Owned'
BY DEF Inv, Owned

\* What has no order is charged to none.
LEMMA Ordered == ASSUME Inv, NEW m \in Licenses
                 PROVE  /\ tx[m].order # NoOrder <=> tx[m].charge \in {"balance", "order"}
                        /\ tx[m].order # NoOrder =>
                             /\ tx[m].order \in Orders
                             /\ pc[tx[m].order] = "done" \/ bill[tx[m].order] = "paid"
                             /\ pc[tx[m].order] # "idle"
                             /\ pc[tx[m].order] # "gateway"
BY Fields DEF Inv, Held, Owned, Stages

\* The rows of a license, counted.
LEMMA RowCount == ASSUME Inv, NEW l
                  PROVE IsFiniteSet(RowsOf(l)) /\ Cardinality(RowsOf(l)) \in Nat
<1>1. RowsOf(l) \subseteq rows /\ IsFiniteSet(rows)
  BY DEF RowsOf, Inv, Bound
<1> QED
  BY <1>1, FS_Subset, FS_CardinalityType

\* A step that adds no row of a license keeps it within its limit.
LEMMA FewerRows == ASSUME Inv, NEW l \in KeyLicenses, RowsOf(l)' \subseteq RowsOf(l), MaxSites > 0
                   PROVE  Cardinality(RowsOf(l)') <= MaxSites
<1>1. Cardinality(RowsOf(l)') <= Cardinality(RowsOf(l)) /\ Cardinality(RowsOf(l)') \in Nat
  BY RowCount, FS_Subset, FS_CardinalityType
<1>2. Cardinality(RowsOf(l)) <= MaxSites /\ Cardinality(RowsOf(l)) \in Nat
  BY RowCount DEF Inv, SitesWithinLimit
<1> QED
  BY <1>1, <1>2, ConstantsAssumption

\* As one that adds no row at all.
LEMMA LimitKept == ASSUME Inv, rows' \subseteq rows PROVE SitesWithinLimit'
BY FewerRows DEF RowsOf, SitesWithinLimit

\* And one that writes no rows of keys.
LEMMA RewriteLimit == ASSUME Inv, \A k \in KeyLicenses : RowsOf(k)' = RowsOf(k) PROVE SitesWithinLimit'
BY FewerRows DEF SitesWithinLimit

\* A replacement takes a row of the key's away for the one it adds.
LEMMA CommitLimit == ASSUME Inv, NEW l \in Licenses, Commit(l) PROVE SitesWithinLimit'
<1> DEFINE x == tx[l].change
<1> SUFFICES ASSUME MaxSites > 0, NEW k \in KeyLicenses PROVE Cardinality(RowsOf(k)') <= MaxSites
  BY DEF SitesWithinLimit
<1>1. tx[l] # NoTx /\ x.license = l /\ rows' = Applied(x, tx[l].old) /\ x.act \in Actions
  BY Fields DEF Commit, Inv, Held
<1>2. CASE k # l
  BY <1>1, <1>2, FewerRows, CommitRows DEF RowsOf
<1>3. CASE k = l /\ x.act = "unbind"
  BY <1>1, <1>3, FewerRows DEF RowsOf, Applied
<1>4. CASE k = l /\ x.act = "replace"
  <2>1. PICK r \in Affected(x) : TRUE
    BY <1>1, <1>4 DEF Inv, Decided
  <2> DEFINE rest == RowsOf(l) \ {r}
  <2>2. r \in RowsOf(l) /\ IsFiniteSet(RowsOf(l)) /\ Cardinality(RowsOf(l)) \in Nat
    BY <1>1, <2>1, RowCount, CommitRows
  <2>3. IsFiniteSet(rest) /\ Cardinality(rest) = Cardinality(RowsOf(l)) - 1
    BY <2>2, FS_RemoveElement
  <2>4. RowsOf(l)' \subseteq rest \cup {Replacement(x)}
    <3>1. ~Untouched(x, tx[l].old)
      BY <1>1, <1>4, ConstantsAssumption DEF Untouched
    <3> QED
      BY <1>1, <2>1, <3>1 DEF RowsOf, Applied
  <2>5. /\ IsFiniteSet(rest \cup {Replacement(x)})
        /\ Cardinality(rest \cup {Replacement(x)}) <= Cardinality(rest) + 1
        /\ Cardinality(rest \cup {Replacement(x)}) \in Nat
    BY <2>2, <2>3, OneAdded
  <2>6. /\ Cardinality(RowsOf(l)') <= Cardinality(rest \cup {Replacement(x)})
        /\ Cardinality(RowsOf(l)') \in Nat
    BY <2>4, <2>5, FS_Subset, FS_CardinalityType
  <2>7. Cardinality(RowsOf(l)) <= MaxSites
    BY <1>4 DEF Inv, SitesWithinLimit
  <2> HIDE DEF rest
  <2> QED
    BY <1>4, <2>2, <2>3, <2>5, <2>6, <2>7, ConstantsAssumption
<1> QED
  BY <1>1, <1>2, <1>3, <1>4 DEF Actions

\* A new site is bound where there is room.
LEMMA VerifyLimit == ASSUME Inv, NEW l \in Licenses, NEW s \in Sites, NEW d \in Domains,
                            Verify(l, s, d)
                     PROVE  SitesWithinLimit'
<1> DEFINE new == [id |-> s, license |-> l, domain |-> d]
<1> SUFFICES ASSUME MaxSites > 0, NEW k \in KeyLicenses PROVE Cardinality(RowsOf(k)') <= MaxSites
  BY DEF SitesWithinLimit
<1>1. rows' = rows \cup {new} /\ new.license = l /\ BelowLimit(l)
  BY DEF Verify
<1> HIDE DEF new
<1>2. CASE k # l
  BY <1>1, <1>2, FewerRows DEF RowsOf
<1>3. CASE k = l
  <2>1. RowsOf(k)' = RowsOf(k) \cup {new}
    BY <1>1, <1>3 DEF RowsOf
  <2>2. IsFiniteSet(RowsOf(k)) /\ Cardinality(RowsOf(k)) \in Nat /\ Cardinality(RowsOf(k)) < MaxSites
    BY <1>1, <1>3, RowCount DEF BelowLimit
  <2>3. Cardinality(RowsOf(k) \cup {new}) <= Cardinality(RowsOf(k)) + 1
        /\ Cardinality(RowsOf(k) \cup {new}) \in Nat
    BY <2>2, OneAdded
  <2> QED
    BY <2>1, <2>2, <2>3, ConstantsAssumption
<1> QED
  BY <1>2, <1>3

--------------------------------------------------------------------------------
(* The balance *)

\* The orders carried out from the balance.
FromBalance == {o \in Orders : status[o] = "paid" /\ bill[o] = "none"}

\* A step that changes neither keeps the equation.
LEMMA BalanceKept == ASSUME BalanceAccounted, FromBalance' = FromBalance, balance' = balance
                     PROVE  BalanceAccounted'
BY DEF BalanceAccounted, FromBalance

\* An amount for one more.
LEMMA OneMore == ASSUME NEW n \in Nat, NEW a \in Nat PROVE a * (n + 1) = a * n + a
OBVIOUS

\* A commit takes the price from the balance for an order of the balance's, and for no
\* other.
LEMMA CommitBalance == ASSUME Inv, NEW l \in Licenses, Commit(l) PROVE BalanceAccounted'
<1> DEFINE o == tx[l].order
<1>1. /\ tx[l] # NoTx /\ balance' = BalanceAfter(tx[l]) /\ bill' = bill
      /\ status' = [p \in Orders |-> IF p = o THEN "paid" ELSE status[p]]
      /\ tx[l].charge \in {"none", "free", "balance", "order"}
      /\ balance \in Nat /\ o \in Orders \cup {NoOrder}
  BY Fields DEF Commit, Inv, TypeOK
<1>2. CASE tx[l].charge = "balance"
  <2>1. o \in Orders /\ status[o] = "none" /\ bill[o] = "none" /\ balance' = balance - Price
    BY <1>1, <1>2 DEF Inv, Held, Owned, BalanceAfter
  <2>2. FromBalance' = FromBalance \cup {o} /\ o \notin FromBalance
    BY <1>1, <2>1 DEF FromBalance
  <2>3. IsFiniteSet(FromBalance) /\ Cardinality(FromBalance) \in Nat
    <3>1. FromBalance \subseteq Orders
      BY DEF FromBalance
    <3> QED
      BY <3>1, FS_Subset, FS_CardinalityType, ConstantsAssumption
  <2>4. Cardinality(FromBalance') = Cardinality(FromBalance) + 1
    BY <2>2, <2>3, FS_AddElement
  <2>5. balance + Price * Cardinality(FromBalance) = InitialBalance
    BY DEF Inv, BalanceAccounted, FromBalance
  <2>6. Price * Cardinality(FromBalance') = Price * Cardinality(FromBalance) + Price
    BY <2>3, <2>4, OneMore, ConstantsAssumption
  <2>7. Price * Cardinality(FromBalance) \in Nat
    BY <2>3, ConstantsAssumption
  <2>8. balance' + Price * Cardinality(FromBalance') = InitialBalance
    BY <1>1, <2>1, <2>5, <2>6, <2>7, ConstantsAssumption
  <2> QED
    BY <2>8 DEF BalanceAccounted, FromBalance
<1>3. CASE tx[l].charge = "order"
  <2>1. o \in Orders /\ bill[o] = "paid" /\ balance' = balance
    BY <1>1, <1>3 DEF Inv, Held, Owned, BalanceAfter
  <2>2. FromBalance' = FromBalance
    BY <1>1, <2>1 DEF FromBalance
  <2> QED
    BY <2>1, <2>2, BalanceKept DEF Inv
<1>4. CASE tx[l].charge \in {"none", "free"}
  <2>1. o = NoOrder /\ balance' = balance
    BY <1>1, <1>4 DEF Inv, Held, BalanceAfter
  <2>2. status' = [p \in Orders |-> status[p]]
    BY <1>1, <2>1, ConstantsAssumption
  <2>3. FromBalance' = FromBalance
    BY <1>1, <2>2 DEF FromBalance
  <2> QED
    BY <2>1, <2>3, BalanceKept DEF Inv
<1> QED
  BY <1>1, <1>2, <1>3, <1>4

--------------------------------------------------------------------------------
(* Steps *)

\* The invariant holds at the start.
LEMMA InitInv == Init => Inv
<1> SUFFICES ASSUME Init PROVE Inv
  OBVIOUS
<1> USE ConstantsAssumption DEF Init
<1>1. TypeOK
  BY DEF TypeOK
<1>2. Held /\ Decided
  BY DEF Held, Decided
<1>3. Bound
  BY FS_EmptySet DEF Bound
<1>4. Stages /\ Owned /\ Placed
  BY DEF Stages, Owned, Placed, NoTx
<1>5. ChangesCovered
  BY DEF ChangesCovered
<1>6. SitesWithinLimit
  <2>1. \A l : RowsOf(l) = {}
    BY DEF RowsOf
  <2>2. Cardinality({}) <= MaxSites
    BY FS_EmptySet
  <2> HIDE DEF Init
  <2> QED
    BY <2>1, <2>2 DEF SitesWithinLimit
<1>7. BalanceAccounted
  <2>1. FromBalance = {} /\ balance = InitialBalance
    BY DEF FromBalance
  <2>2. Cardinality({}) = 0 /\ Price * 0 = 0 /\ InitialBalance + 0 = InitialBalance
    BY FS_EmptySet
  <2> HIDE DEF Init
  <2>3. balance + Price * Cardinality(FromBalance) = InitialBalance
    BY <2>1, <2>2
  <2> QED
    BY <2>3 DEF BalanceAccounted, FromBalance
<1> QED
  BY <1>1, <1>2, <1>3, <1>4, <1>5, <1>6, <1>7 DEF Inv

\* An edit writes a row of the license and its domain.
LEMMA RewriteTypes == ASSUME Inv, NEW l \in Licenses, Rewrite(l) PROVE TypeOK'
<1>1. rows' \subseteq [id : Sites \cup {NoSite}, license : Licenses, domain : Domains]
  BY DEF Rewrite, EditBegin, EditDelete, EditInsert, EditRecord, EditBreaks, Inv, TypeOK
<1>2. cooling' \subseteq Commercial
  BY DEF Rewrite, EditBegin, EditDelete, EditInsert, EditRecord, EditBreaks, Inv, TypeOK
<1>3. edit' \in [Licenses -> {"none", "deleting", "inserting", "recording"}]
  BY DEF Rewrite, EditBegin, EditDelete, EditInsert, EditRecord, EditBreaks, Inv, TypeOK
<1>4. torn' \subseteq Licenses
  BY DEF Rewrite, EditBegin, EditDelete, EditInsert, EditRecord, EditBreaks, Inv, TypeOK, historyVars
<1>5. TypeOK
  BY DEF Inv
<1> QED
  BY <1>1, <1>2, <1>3, <1>4, <1>5, Rewrites DEF TypeOK

\* The two statements of an edit leave one row, if the first succeeds and nothing is written
\* between them.
LEMMA RewriteBound == ASSUME Inv, NEW l \in Licenses, Rewrite(l) PROVE Bound'
<1> USE DEF Inv, Bound
<1>1. CASE EditBegin(l) \/ EditRecord(l) \/ EditBreaks(l)
  <2>1. /\ UNCHANGED <<rows, torn>> /\ edit'[l] \in {"none", "deleting"}
        /\ \A m \in Licenses \ {l} : edit'[m] = edit[m]
    BY <1>1 DEF EditBegin, EditRecord, EditBreaks, historyVars, TypeOK
  <2>2. l \in DomainLicenses
    BY Rewrites
  <2> QED
    BY <2>1, <2>2 DEF RowsOf
<1>2. CASE EditDelete(l)
  <2>1. /\ edit' = [edit EXCEPT ![l] = "inserting"] /\ rows' \subseteq rows
        /\ \/ rows' = rows \ RowsOf(l) /\ torn' = torn \ {l}
           \/ rows' = rows /\ torn' = torn \cup {l}
        /\ l \in DomainLicenses
    BY <1>2, Rewrites DEF EditDelete
  <2>2. IsFiniteSet(rows')
    BY <2>1, FS_Subset
  <2>3. \A r1, r2 \in rows' :
          r1.license \in DomainLicenses \ torn' /\ r1.license = r2.license => r1 = r2
    BY <2>1 DEF RowsOf
  <2>4. \A m \in Licenses \ torn' : edit'[m] = "inserting" => RowsOf(m)' = {}
    BY <2>1 DEF RowsOf, TypeOK
  <2>5. \A m \in Licenses : edit'[m] # "none" => m \in DomainLicenses
    BY <2>1 DEF TypeOK
  <2> QED
    BY <2>1, <2>2, <2>3, <2>4, <2>5
<1>3. ASSUME NEW d \in Domains, EditInsert(l, d) PROVE Bound'
  <2> DEFINE new == [id |-> NoSite, license |-> l, domain |-> d]
  <2>1. /\ rows' \in {rows, rows \cup {new}} /\ torn' = torn /\ edit[l] = "inserting"
        /\ edit' = [edit EXCEPT ![l] = "recording"] /\ l \in DomainLicenses
    BY <1>3, Rewrites DEF EditInsert, historyVars
  <2>2. new.license = l /\ new.id = NoSite
    OBVIOUS
  <2> HIDE DEF new
  <2>3. IsFiniteSet(rows')
    BY <2>1, FS_AddElement
  <2>4. \A r1, r2 \in rows' :
          r1.license \in DomainLicenses \ torn' /\ r1.license = r2.license => r1 = r2
    <3>1. l \notin torn => \A r \in rows : r.license # l
      BY <2>1 DEF RowsOf
    <3> QED
      BY <2>1, <2>2, <3>1
  <2>5. \A m \in Licenses \ torn' : edit'[m] = "inserting" => RowsOf(m)' = {}
    <3>1. \A m \in Licenses \ {l} : edit'[m] = edit[m]
      BY <2>1 DEF TypeOK
    <3>2. edit'[l] = "recording"
      BY <2>1 DEF TypeOK
    <3>3. \A m \in Licenses \ {l} : RowsOf(m)' = RowsOf(m)
      BY <2>1, <2>2 DEF RowsOf
    <3> QED
      BY <2>1, <3>1, <3>2, <3>3
  <2>6. \A m \in Licenses : edit'[m] # "none" => m \in DomainLicenses
    BY <2>1 DEF TypeOK
  <2>7. \A r \in rows' : r.license \in DomainLicenses => r.id = NoSite
    BY <2>1, <2>2
  <2> QED
    BY <2>3, <2>4, <2>5, <2>6, <2>7
<1> QED
  BY <1>1, <1>2, <1>3 DEF Rewrite

\* Every step keeps the types: the balance covers what it is charged.
LEMMA TypeStep == Inv /\ [Next]_vars => TypeOK'
<1> SUFFICES ASSUME Inv, [Next]_vars PROVE TypeOK'
  OBVIOUS
<1> USE ConstantsAssumption, Fields
    DEF Inv, TypeOK, Held, Owned, NewDomain, Guarded, orderVars, historyVars
<1>1. ASSUME NEW x \in Change, NEW old \in Seen(x.license), ChangeBegin(x, old)
     PROVE  TypeOK'
  <2>1. tx' \in [Licenses -> Tx \cup {NoTx}]
    <3>1. Charge(x, old) \in {"none", "free"} /\ Started(x, old, Charge(x, old), NoOrder) /\ TypeOK
      BY <1>1 DEF ChangeBegin
    <3> HIDE DEF Inv, TypeOK
    <3> QED
      BY <3>1, Begins
  <2> QED
    BY <1>1, <2>1 DEF ChangeBegin
<1>2. ASSUME NEW o \in Orders, NEW x \in Change, NEW old \in Seen(x.license), BalanceBegin(o, x, old)
     PROVE  TypeOK'
  <2>1. tx' \in [Licenses -> Tx \cup {NoTx}]
    BY <1>2, Begins DEF BalanceBegin
  <2> QED
    BY <1>2, <2>1 DEF BalanceBegin
<1>3. ASSUME NEW o \in Orders, NEW x \in Change, NEW old \in Seen(x.license), OnlineOrder(o, x, old)
     PROVE  TypeOK'
  BY <1>3, Asked DEF OnlineOrder
<1>4. ASSUME NEW o \in Orders, GatewayAccepts(o)
     PROVE  TypeOK'
  BY <1>4 DEF GatewayAccepts
<1>5. ASSUME NEW o \in Orders, GatewayRefuses(o)
     PROVE  TypeOK'
  BY <1>5 DEF GatewayRefuses, OrderFree
<1>6. ASSUME NEW o \in Orders, Pay(o)
     PROVE  TypeOK'
  BY <1>6 DEF Pay
<1>7. ASSUME NEW o \in Orders, NEW old \in Seen(req[o].license), SettleBegin(o, old)
     PROVE  TypeOK'
  <2>1. req[o] \in Change
    BY <1>7 DEF SettleBegin, Placed, Stages
  <2> QED
    BY <1>7, <2>1, Begins DEF SettleBegin, LicenseFree
<1>8. ASSUME NEW l \in Licenses, Finish(l)
     PROVE  TypeOK'
  <2>1. tx[l] # NoTx /\ l \in Commercial
    BY <1>8 DEF Finish, NoTx
  <2>2. cooling' \subseteq Commercial
    BY <1>8, <2>1 DEF Finish
  <2>4. slips' \subseteq Commercial
    BY <1>8, <2>1 DEF Finish
  <2>3. tx' \in [Licenses -> Tx \cup {NoTx}]
    BY <1>8, <2>1, Finishes DEF Finish
  <2> QED
    BY <1>8, <2>2, <2>3, <2>4 DEF Finish
<1>9. ASSUME NEW l \in Licenses, Commit(l)
     PROVE  TypeOK'
  <2>1. rows' \subseteq [id : Sites \cup {NoSite}, license : Licenses, domain : Domains]
    BY <1>9, CommitRows DEF Applied
  <2>2. balance' \in Nat
    BY <1>9 DEF Commit, BalanceAfter
  <2>3. left' \in [Licenses -> Nat \cup {-1}]
    <3>1. LeftAfter(tx[l]) \in Nat \cup {-1}
      BY <1>9 DEF Commit, LeftAfter, Decided
    <3> QED
      BY <1>9, <3>1 DEF Commit
  <2>4. moved' \subseteq Commercial
    BY <1>9 DEF Commit
  <2>5. allowed' \in [Licenses -> Nat \cup {-1}] /\ changes' \in [Licenses -> Nat]
    BY <1>9 DEF Commit
  <2>6. status' \in [Orders -> {"none", "pending", "paid", "failed"}] /\ runs' \in [Orders -> Nat]
    BY <1>9 DEF Commit
  <2>7. torn' \subseteq Licenses
    BY <1>9 DEF Commit
  <2> QED
    BY <1>9, <2>1, <2>2, <2>3, <2>4, <2>5, <2>6, <2>7, Closes DEF Commit
<1>10. ASSUME NEW l \in Licenses, Abort(l)
      PROVE  TypeOK'
  BY <1>10, Closes DEF Abort
<1>11. ASSUME NEW l \in Licenses, RefreshKey(l)
      PROVE  TypeOK'
  BY <1>11 DEF RefreshKey, LicenseFree, RowsOf
<1>12. ASSUME NEW l \in Licenses, Cool(l)
      PROVE  TypeOK'
  BY <1>12 DEF Cool
<1>13. ASSUME NEW l \in Licenses, NEW s \in Sites, NEW d \in Domains, Verify(l, s, d)
      PROVE  TypeOK'
  BY <1>13 DEF Verify, LicenseFree
<1>14. ASSUME NEW r \in rows, AdminUnbind(r)
      PROVE  TypeOK'
  BY <1>14 DEF AdminUnbind, LicenseFree
<1>15. ASSUME NEW l \in Licenses, NEW n \in Adjustments, AdminAdjust(l, n)
      PROVE  TypeOK'
  BY <1>15 DEF AdminAdjust, LicenseFree
<1>16. ASSUME UNCHANGED vars
      PROVE  TypeOK'
  BY <1>16 DEF vars
<1> HIDE DEF Inv, TypeOK, Held, Owned, NewDomain, Guarded, orderVars, historyVars
<1>18. ASSUME NEW l \in Licenses, Rewrite(l)
      PROVE  TypeOK'
  BY <1>18, RewriteTypes

<1>17. ASSUME NEW o \in Orders, Order(o) PROVE TypeOK'
  BY <1>17, <1>2, <1>3, <1>4, <1>5, <1>6, <1>7 DEF Order
<1> QED
  BY <1>17, <1>18, <1>1, <1>8, <1>9, <1>10, <1>11, <1>12, <1>13, <1>14, <1>15, <1>16 DEF Next

\* Every step keeps transactions on their licenses and orders.
LEMMA HeldStep == Inv /\ [Next]_vars => Held'
<1> SUFFICES ASSUME Inv, [Next]_vars PROVE Held'
  OBVIOUS
<1>1. ASSUME NEW x \in Change, NEW old \in Seen(x.license), ChangeBegin(x, old)
     PROVE  Held'
  <2>1. Charge(x, old) \in {"none", "free"} /\ Started(x, old, Charge(x, old), NoOrder) /\ req' = req
    BY <1>1 DEF ChangeBegin, orderVars
  <2>2. /\ tx'[x.license].charge \in {"none", "free"} /\ tx'[x.license].order = NoOrder
        /\ tx'[x.license].change = x
        /\ \A m \in Licenses \ {x.license} : tx'[m] = tx[m]
    BY <2>1, Begins DEF Inv
  <2> QED
    BY <2>1, <2>2 DEF Held, Inv
<1>2. ASSUME NEW o \in Orders, NEW x \in Change, NEW old \in Seen(x.license), BalanceBegin(o, x, old)
     PROVE  Held'
  <2>1. /\ tx'[x.license].charge = "balance" /\ tx'[x.license].order = o
        /\ tx'[x.license].change = x
        /\ \A m \in Licenses \ {x.license} : tx'[m] = tx[m]
    BY <1>2, Begins DEF BalanceBegin, Inv
  <2>2. req'[o] = x /\ \A p \in Orders \ {o} : req'[p] = req[p]
    BY <1>2 DEF BalanceBegin, Inv, TypeOK
  <2>3. \A m \in Licenses : tx[m].order # o
    BY <1>2, Ordered, ConstantsAssumption DEF BalanceBegin
  <2> QED
    BY <2>1, <2>2, <2>3, Ordered, ConstantsAssumption DEF Held, Inv
<1>7. ASSUME NEW o \in Orders, NEW old \in Seen(req[o].license), SettleBegin(o, old)
     PROVE  Held'
  <2>1. req[o] \in Change /\ req' = req
    BY <1>7 DEF SettleBegin, Inv, Placed, Stages, orderVars
  <2>2. /\ tx'[req[o].license].charge = "order" /\ tx'[req[o].license].order = o
        /\ tx'[req[o].license].change = req[o]
        /\ \A m \in Licenses \ {req[o].license} : tx'[m] = tx[m]
    BY <1>7, <2>1, Begins DEF SettleBegin, Inv
  <2> QED
    BY <2>1, <2>2, ConstantsAssumption DEF Held, Inv
<1> USE ConstantsAssumption, Fields
    DEF Inv, TypeOK, Held, Placed, Stages, Owned, orderVars, historyVars
<1>3. ASSUME NEW o \in Orders, NEW x \in Change, NEW old \in Seen(x.license), OnlineOrder(o, x, old)
     PROVE  Held'
  BY <1>3, Asked DEF OnlineOrder
<1>4. ASSUME NEW o \in Orders, GatewayAccepts(o)
     PROVE  Held'
  BY <1>4 DEF GatewayAccepts
<1>5. ASSUME NEW o \in Orders, GatewayRefuses(o)
     PROVE  Held'
  BY <1>5 DEF GatewayRefuses, OrderFree
<1>6. ASSUME NEW o \in Orders, Pay(o)
     PROVE  Held'
  BY <1>6 DEF Pay
<1>8. ASSUME NEW l \in Licenses, Finish(l)
     PROVE  Held'
  BY <1>8, Finishes DEF Finish
<1>9. ASSUME NEW l \in Licenses, Commit(l)
     PROVE  Held'
  BY <1>9, Closes DEF Commit
<1>10. ASSUME NEW l \in Licenses, Abort(l)
      PROVE  Held'
  BY <1>10, Closes DEF Abort
<1>11. ASSUME NEW l \in Licenses, RefreshKey(l)
      PROVE  Held'
  BY <1>11 DEF RefreshKey, LicenseFree, RowsOf
<1>12. ASSUME NEW l \in Licenses, Cool(l)
      PROVE  Held'
  BY <1>12 DEF Cool
<1>13. ASSUME NEW l \in Licenses, NEW s \in Sites, NEW d \in Domains, Verify(l, s, d)
      PROVE  Held'
  BY <1>13 DEF Verify, LicenseFree
<1>14. ASSUME NEW r \in rows, AdminUnbind(r)
      PROVE  Held'
  BY <1>14 DEF AdminUnbind, LicenseFree
<1>15. ASSUME NEW l \in Licenses, NEW n \in Adjustments, AdminAdjust(l, n)
      PROVE  Held'
  BY <1>15 DEF AdminAdjust, LicenseFree
<1>16. ASSUME UNCHANGED vars
      PROVE  Held'
  BY <1>16 DEF vars
<1> HIDE DEF Inv, TypeOK, Held, Placed, Stages, Owned, orderVars, historyVars
<1>18. ASSUME NEW l \in Licenses, Rewrite(l)
      PROVE  Held'
  BY <1>18, Rewrites DEF Inv, TypeOK, Held, Placed, Stages
<1>17. ASSUME NEW o \in Orders, Order(o) PROVE Held'
  BY <1>17, <1>2, <1>3, <1>4, <1>5, <1>6, <1>7 DEF Order
<1> QED
  BY <1>17, <1>18, <1>1, <1>8, <1>9, <1>10, <1>11, <1>12, <1>13, <1>14, <1>15, <1>16 DEF Next

\* Orders are placed by requests, once.
LEMMA PlacedStep == Inv /\ [Next]_vars => Placed'
<1> SUFFICES ASSUME Inv, [Next]_vars PROVE Placed'
  OBVIOUS
<1> USE ConstantsAssumption, Fields
    DEF Inv, TypeOK, Placed, orderVars, historyVars
<1>1. ASSUME NEW x \in Change, NEW old \in Seen(x.license), ChangeBegin(x, old)
     PROVE  Placed'
  BY <1>1, Asked, Begins DEF ChangeBegin, LicenseFree
<1>2. ASSUME NEW o \in Orders, NEW x \in Change, NEW old \in Seen(x.license), BalanceBegin(o, x, old)
     PROVE  Placed'
  BY <1>2, Asked, Begins DEF BalanceBegin, LicenseFree
<1>3. ASSUME NEW o \in Orders, NEW x \in Change, NEW old \in Seen(x.license), OnlineOrder(o, x, old)
     PROVE  Placed'
  BY <1>3, Asked DEF OnlineOrder
<1>4. ASSUME NEW o \in Orders, GatewayAccepts(o)
     PROVE  Placed'
  BY <1>4 DEF GatewayAccepts
<1>5. ASSUME NEW o \in Orders, GatewayRefuses(o)
     PROVE  Placed'
  BY <1>5 DEF GatewayRefuses, OrderFree
<1>6. ASSUME NEW o \in Orders, Pay(o)
     PROVE  Placed'
  BY <1>6 DEF Pay
<1>7. ASSUME NEW o \in Orders, NEW old \in Seen(req[o].license), SettleBegin(o, old)
     PROVE  Placed'
  BY <1>7, Begins DEF SettleBegin, LicenseFree, OrderFree
<1>8. ASSUME NEW l \in Licenses, Finish(l)
     PROVE  Placed'
  BY <1>8, Finishes DEF Finish
<1>9. ASSUME NEW l \in Licenses, Commit(l)
     PROVE  Placed'
  BY <1>9, Closes DEF Commit
<1>10. ASSUME NEW l \in Licenses, Abort(l)
      PROVE  Placed'
  BY <1>10, Closes DEF Abort
<1>11. ASSUME NEW l \in Licenses, RefreshKey(l)
      PROVE  Placed'
  BY <1>11 DEF RefreshKey, LicenseFree, RowsOf
<1>12. ASSUME NEW l \in Licenses, Cool(l)
      PROVE  Placed'
  BY <1>12 DEF Cool
<1>13. ASSUME NEW l \in Licenses, NEW s \in Sites, NEW d \in Domains, Verify(l, s, d)
      PROVE  Placed'
  BY <1>13 DEF Verify, LicenseFree
<1>14. ASSUME NEW r \in rows, AdminUnbind(r)
      PROVE  Placed'
  BY <1>14 DEF AdminUnbind, LicenseFree
<1>15. ASSUME NEW l \in Licenses, NEW n \in Adjustments, AdminAdjust(l, n)
      PROVE  Placed'
  BY <1>15 DEF AdminAdjust, LicenseFree
<1>16. ASSUME UNCHANGED vars
      PROVE  Placed'
  BY <1>16 DEF vars
<1> HIDE DEF Inv, TypeOK, Placed, orderVars, historyVars
<1>18. ASSUME NEW l \in Licenses, Rewrite(l)
      PROVE  Placed'
  BY <1>18, Rewrites DEF Inv, TypeOK, Held, Placed, Stages
<1>17. ASSUME NEW o \in Orders, Order(o) PROVE Placed'
  BY <1>17, <1>2, <1>3, <1>4, <1>5, <1>6, <1>7 DEF Order
<1> QED
  BY <1>17, <1>18, <1>1, <1>8, <1>9, <1>10, <1>11, <1>12, <1>13, <1>14, <1>15, <1>16 DEF Next

\* Rows taken away keep a domain license to one.
LEMMA BoundKept == ASSUME Bound, rows' \subseteq rows, torn' = torn, edit' = edit PROVE Bound'
<1>1. IsFiniteSet(rows')
  BY FS_Subset DEF Bound
<1>2. \A l : RowsOf(l)' \subseteq RowsOf(l)
  BY DEF RowsOf
<1> QED
  BY <1>1, <1>2 DEF Bound

\* Every step keeps a domain license to one row.
LEMMA BoundStep == Inv /\ [Next]_vars => Bound'
<1> SUFFICES ASSUME Inv, [Next]_vars PROVE Bound'
  OBVIOUS
<1> USE DEF Inv, orderVars, historyVars
<1>1. ASSUME NEW x \in Change, NEW old \in Seen(x.license), ChangeBegin(x, old)
     PROVE  Bound'
  BY <1>1, BoundKept DEF ChangeBegin
<1>2. ASSUME NEW o \in Orders, NEW x \in Change, NEW old \in Seen(x.license), BalanceBegin(o, x, old)
     PROVE  Bound'
  BY <1>2, BoundKept DEF BalanceBegin
<1>3. ASSUME NEW o \in Orders, NEW x \in Change, NEW old \in Seen(x.license), OnlineOrder(o, x, old)
     PROVE  Bound'
  BY <1>3, BoundKept DEF OnlineOrder
<1>4. ASSUME NEW o \in Orders, GatewayAccepts(o)
     PROVE  Bound'
  BY <1>4, BoundKept DEF GatewayAccepts
<1>5. ASSUME NEW o \in Orders, GatewayRefuses(o)
     PROVE  Bound'
  BY <1>5, BoundKept DEF GatewayRefuses
<1>6. ASSUME NEW o \in Orders, Pay(o)
     PROVE  Bound'
  BY <1>6, BoundKept DEF Pay
<1>7. ASSUME NEW o \in Orders, NEW old \in Seen(req[o].license), SettleBegin(o, old)
     PROVE  Bound'
  BY <1>7, BoundKept DEF SettleBegin
<1>8. ASSUME NEW l \in Licenses, Finish(l)
     PROVE  Bound'
  BY <1>8, BoundKept DEF Finish
<1>9. ASSUME NEW l \in Licenses, Commit(l)
     PROVE  Bound'
  <2> USE DEF Bound
  <2> DEFINE x == tx[l].change
  <2>1. /\ rows' \subseteq rows \cup {Replacement(x)} /\ edit' = edit
        /\ \A m \in Licenses \ {l} : m \in torn' <=> m \in torn
    BY <1>9, CommitRows DEF Commit, Applied
  <2>2. IsFiniteSet(rows')
    BY <2>1, FS_Subset, FS_AddElement
  <2>3. \A r \in rows' : r.license \in DomainLicenses => r.id = NoSite
    BY <1>9, <2>1, CommitRows
  <2>4. CASE Untouched(x, tx[l].old)
    <3>1. rows' = rows /\ torn' = torn
      BY <1>9, <2>4 DEF Commit, Applied
    <3> QED
      BY <2>1, <3>1 DEF RowsOf
  <2>5. CASE ~Untouched(x, tx[l].old)
    <3>1. ASSUME NEW r \in rows', r.license = l, l \in DomainLicenses
          PROVE  r = Replacement(x)
      BY <1>9, <2>5, <3>1, CommitRows DEF Applied, RowsOf
    <3>2. edit[l] = "inserting" => l \in torn'
      BY <1>9, <2>5 DEF Commit
    <3>3. \A r1, r2 \in rows' :
            r1.license \in DomainLicenses \ torn' /\ r1.license = r2.license => r1 = r2
      <4>1. ASSUME NEW r1 \in rows', NEW r2 \in rows', r1.license \in DomainLicenses \ torn',
                   r1.license = r2.license, r1.license # l
            PROVE  r1 = r2
        <5>1. r1.license \in Licenses \ {l}
          BY <4>1 DEF Licenses
        <5> QED
          BY <1>9, <2>1, <4>1, <5>1, CommitRows
      <4> QED
        BY <3>1, <4>1
    <3>4. \A m \in Licenses \ torn' : edit'[m] = "inserting" => RowsOf(m)' = {}
      <4>1. ASSUME NEW m \in Licenses \ torn', edit'[m] = "inserting" PROVE RowsOf(m)' = {}
        <5>1. m # l /\ m \notin torn
          BY <2>1, <3>2, <4>1
        <5>2. RowsOf(m)' = RowsOf(m)
          BY <1>9, <5>1, CommitRows DEF RowsOf
        <5> QED
          BY <2>1, <4>1, <5>1, <5>2
      <4> QED
        BY <4>1
    <3> QED
      BY <2>1, <2>2, <2>3, <3>3, <3>4
  <2> QED
    BY <2>4, <2>5
<1>10. ASSUME NEW l \in Licenses, Abort(l)
      PROVE  Bound'
  BY <1>10, BoundKept DEF Abort
<1>11. ASSUME NEW l \in Licenses, RefreshKey(l)
      PROVE  Bound'
  BY <1>11, BoundKept DEF RefreshKey
<1>12. ASSUME NEW l \in Licenses, Cool(l)
      PROVE  Bound'
  BY <1>12, BoundKept DEF Cool
<1>13. ASSUME NEW l \in Licenses, NEW s \in Sites, NEW d \in Domains, Verify(l, s, d)
      PROVE  Bound'
  <2> USE DEF Bound
  <2>1. PICK new : new.license = l /\ rows' = rows \cup {new}
    BY <1>13 DEF Verify
  <2>2. l \notin DomainLicenses /\ UNCHANGED <<edit, torn>>
    BY <1>13, ConstantsAssumption DEF Verify
  <2>3. IsFiniteSet(rows')
    BY <2>1, FS_AddElement
  <2>4. \A m \in DomainLicenses : RowsOf(m)' = RowsOf(m)
    BY <2>1, <2>2 DEF RowsOf
  <2> QED
    BY <2>1, <2>2, <2>3, <2>4
<1>14. ASSUME NEW r \in rows, AdminUnbind(r)
      PROVE  Bound'
  BY <1>14, BoundKept DEF AdminUnbind
<1>15. ASSUME NEW l \in Licenses, NEW n \in Adjustments, AdminAdjust(l, n)
      PROVE  Bound'
  BY <1>15, BoundKept DEF AdminAdjust
<1>16. ASSUME UNCHANGED vars
      PROVE  Bound'
  BY <1>16, BoundKept DEF vars
<1> HIDE DEF Inv, orderVars, historyVars
<1>18. ASSUME NEW l \in Licenses, Rewrite(l)
      PROVE  Bound'
  BY <1>18, RewriteBound

<1>17. ASSUME NEW o \in Orders, Order(o) PROVE Bound'
  BY <1>17, <1>2, <1>3, <1>4, <1>5, <1>6, <1>7 DEF Order
<1> QED
  BY <1>17, <1>18, <1>1, <1>8, <1>9, <1>10, <1>11, <1>12, <1>13, <1>14, <1>15, <1>16 DEF Next

\* Every step keeps an order's handler, row and bill in agreement.
LEMMA StagesStep == Inv /\ [Next]_vars => Stages'
<1> SUFFICES ASSUME Inv, [Next]_vars PROVE Stages'
  OBVIOUS
<1> USE ConstantsAssumption, Fields
    DEF Inv, TypeOK, Held, Stages, Owned, orderVars, historyVars
<1>1. ASSUME NEW x \in Change, NEW old \in Seen(x.license), ChangeBegin(x, old)
     PROVE  Stages'
  BY <1>1, Asked, Begins DEF ChangeBegin, LicenseFree
<1>2. ASSUME NEW o \in Orders, NEW x \in Change, NEW old \in Seen(x.license), BalanceBegin(o, x, old)
     PROVE  Stages'
  BY <1>2, Asked, Begins DEF BalanceBegin, LicenseFree
<1>3. ASSUME NEW o \in Orders, NEW x \in Change, NEW old \in Seen(x.license), OnlineOrder(o, x, old)
     PROVE  Stages'
  BY <1>3, Asked DEF OnlineOrder
<1>4. ASSUME NEW o \in Orders, GatewayAccepts(o)
     PROVE  Stages'
  BY <1>4 DEF GatewayAccepts
<1>5. ASSUME NEW o \in Orders, GatewayRefuses(o)
     PROVE  Stages'
  BY <1>5 DEF GatewayRefuses, OrderFree
<1>6. ASSUME NEW o \in Orders, Pay(o)
     PROVE  Stages'
  BY <1>6 DEF Pay
<1>7. ASSUME NEW o \in Orders, NEW old \in Seen(req[o].license), SettleBegin(o, old)
     PROVE  Stages'
  BY <1>7, Begins DEF SettleBegin, LicenseFree, OrderFree
<1>8. ASSUME NEW l \in Licenses, Finish(l)
     PROVE  Stages'
  BY <1>8, Finishes DEF Finish
<1>9. ASSUME NEW l \in Licenses, Commit(l)
     PROVE  Stages'
  BY <1>9, Closes DEF Commit
<1>10. ASSUME NEW l \in Licenses, Abort(l)
      PROVE  Stages'
  BY <1>10, Closes DEF Abort
<1>11. ASSUME NEW l \in Licenses, RefreshKey(l)
      PROVE  Stages'
  BY <1>11 DEF RefreshKey, LicenseFree, RowsOf
<1>12. ASSUME NEW l \in Licenses, Cool(l)
      PROVE  Stages'
  BY <1>12 DEF Cool
<1>13. ASSUME NEW l \in Licenses, NEW s \in Sites, NEW d \in Domains, Verify(l, s, d)
      PROVE  Stages'
  BY <1>13 DEF Verify, LicenseFree
<1>14. ASSUME NEW r \in rows, AdminUnbind(r)
      PROVE  Stages'
  BY <1>14 DEF AdminUnbind, LicenseFree
<1>15. ASSUME NEW l \in Licenses, NEW n \in Adjustments, AdminAdjust(l, n)
      PROVE  Stages'
  BY <1>15 DEF AdminAdjust, LicenseFree
<1>16. ASSUME UNCHANGED vars
      PROVE  Stages'
  BY <1>16 DEF vars
<1> HIDE DEF Inv, TypeOK, Held, Stages, Owned, orderVars, historyVars
<1>18. ASSUME NEW l \in Licenses, Rewrite(l)
      PROVE  Stages'
  BY <1>18, Rewrites DEF Inv, TypeOK, Held, Placed, Stages
<1>17. ASSUME NEW o \in Orders, Order(o) PROVE Stages'
  BY <1>17, <1>2, <1>3, <1>4, <1>5, <1>6, <1>7 DEF Order
<1> QED
  BY <1>17, <1>18, <1>1, <1>8, <1>9, <1>10, <1>11, <1>12, <1>13, <1>14, <1>15, <1>16 DEF Next

\* Every step keeps an order with one transaction.
LEMMA OwnedStep == Inv /\ [Next]_vars => Owned'
<1> SUFFICES ASSUME Inv, [Next]_vars PROVE Owned'
  OBVIOUS
<1> USE DEF orderVars, historyVars
<1>1. ASSUME NEW x \in Change, NEW old \in Seen(x.license), ChangeBegin(x, old)
     PROVE  Owned'
  <2>1. Charge(x, old) \in {"none", "free"} /\ Started(x, old, Charge(x, old), NoOrder)
    BY <1>1 DEF ChangeBegin
  <2>2. /\ tx'[x.license].charge \in {"none", "free"} /\ tx'[x.license].order = NoOrder
        /\ \A m \in Licenses \ {x.license} : tx'[m] = tx[m]
    BY <2>1, Asked, Begins DEF Inv
  <2> QED
    BY <1>1, <2>2, OwnedKept, Ordered DEF ChangeBegin
<1>2. ASSUME NEW o \in Orders, NEW x \in Change, NEW old \in Seen(x.license), BalanceBegin(o, x, old)
     PROVE  Owned'
  <2>1. /\ tx'[x.license].charge = "balance" /\ tx'[x.license].order = o
        /\ \A m \in Licenses \ {x.license} : tx'[m] = tx[m]
        /\ x.license \in Licenses
    BY <1>2, Asked, Begins DEF BalanceBegin, Inv
  <2>2. \A m \in Licenses : tx[m].order # o /\ tx[m].charge # "balance"
    BY <1>2, Ordered, ConstantsAssumption DEF BalanceBegin
  <2>3. /\ pc'[o] = "done" /\ status'[o] = "none" /\ bill'[o] = "none"
        /\ balance' = balance /\ balance >= Price
        /\ \A p \in Orders \ {o} : pc'[p] = pc[p] /\ status'[p] = status[p] /\ bill'[p] = bill[p]
    BY <1>2 DEF BalanceBegin, Inv, TypeOK, Stages
  <2> QED
    BY <2>1, <2>2, <2>3, Ordered DEF Owned, Inv
<1>3. ASSUME NEW o \in Orders, NEW x \in Change, NEW old \in Seen(x.license), OnlineOrder(o, x, old)
     PROVE  Owned'
  BY <1>3, OwnedKept, Ordered, Asked
     DEF OnlineOrder, Inv, TypeOK
<1>4. ASSUME NEW o \in Orders, GatewayAccepts(o)
     PROVE  Owned'
  BY <1>4, OwnedKept, Ordered
     DEF GatewayAccepts, Inv, TypeOK
<1>5. ASSUME NEW o \in Orders, GatewayRefuses(o)
     PROVE  Owned'
  BY <1>5, OwnedKept, Ordered
     DEF GatewayRefuses, OrderFree, Inv, TypeOK
<1>6. ASSUME NEW o \in Orders, Pay(o)
     PROVE  Owned'
  BY <1>6, OwnedKept, Ordered DEF Pay, Inv, TypeOK, Owned
<1>7. ASSUME NEW o \in Orders, NEW old \in Seen(req[o].license), SettleBegin(o, old)
     PROVE  Owned'
  <2>1. req[o] \in Change
    BY <1>7 DEF SettleBegin, Inv, Placed, Stages
  <2>2. /\ tx'[req[o].license].charge = "order" /\ tx'[req[o].license].order = o
        /\ \A m \in Licenses \ {req[o].license} : tx'[m] = tx[m]
        /\ req[o].license \in Licenses
    BY <1>7, <2>1, Asked, Begins DEF SettleBegin, Inv
  <2>3. \A m \in Licenses : tx[m].order # o
    BY <1>7 DEF SettleBegin, OrderFree
  <2>4. status'[o] = "pending" /\ bill'[o] = "paid" /\ UNCHANGED <<pc, status, bill, balance>>
    BY <1>7 DEF SettleBegin
  <2> QED
    BY <2>2, <2>3, <2>4 DEF Owned, Inv
<1>8. ASSUME NEW l \in Licenses, Finish(l)
     PROVE  Owned'
  BY <1>8, OwnedKept, Ordered, Finishes
     DEF Finish, Inv, TypeOK
<1>9. ASSUME NEW l \in Licenses, Commit(l)
     PROVE  Owned'
  <2>1. /\ tx[l] # NoTx /\ tx'[l].charge = "none" /\ tx'[l].order = NoOrder
        /\ \A m \in Licenses \ {l} : tx'[m] = tx[m]
    BY <1>9, Closes DEF Commit, Inv
  <2>2. ASSUME NEW m \in Licenses \ {l}
        PROVE  /\ tx[m].order # NoOrder => tx[m].order # tx[l].order
               /\ tx[m].charge = "balance" => balance' = balance
    BY <1>9 DEF Commit, BalanceAfter, Inv, Owned
  <2>3. \A p \in Orders : p # tx[l].order => pc'[p] = pc[p] /\ status'[p] = status[p] /\ bill'[p] = bill[p]
    BY <1>9 DEF Commit
  <2> QED
    BY <2>1, <2>2, <2>3, OwnedKept, Ordered
<1>10. ASSUME NEW l \in Licenses, Abort(l)
      PROVE  Owned'
  BY <1>10, OwnedKept, Ordered, Closes
     DEF Abort, Inv, TypeOK
<1>11. ASSUME NEW l \in Licenses, RefreshKey(l)
      PROVE  Owned'
  BY <1>11, OwnedKept, Ordered
     DEF RefreshKey, LicenseFree, RowsOf, Inv, TypeOK
<1>12. ASSUME NEW l \in Licenses, Cool(l)
      PROVE  Owned'
  BY <1>12, OwnedKept, Ordered
     DEF Cool, Inv, TypeOK
<1>13. ASSUME NEW l \in Licenses, NEW s \in Sites, NEW d \in Domains, Verify(l, s, d)
      PROVE  Owned'
  BY <1>13, OwnedKept, Ordered
     DEF Verify, LicenseFree, Inv, TypeOK
<1>14. ASSUME NEW r \in rows, AdminUnbind(r)
      PROVE  Owned'
  BY <1>14, OwnedKept, Ordered
     DEF AdminUnbind, LicenseFree, Inv, TypeOK
<1>15. ASSUME NEW l \in Licenses, NEW n \in Adjustments, AdminAdjust(l, n)
      PROVE  Owned'
  BY <1>15, OwnedKept, Ordered
     DEF AdminAdjust, LicenseFree, Inv, TypeOK
<1>16. ASSUME UNCHANGED vars
      PROVE  Owned'
  BY <1>16, OwnedKept, Ordered
     DEF vars, Inv, TypeOK
<1>18. ASSUME NEW l \in Licenses, Rewrite(l)
      PROVE  Owned'
  BY <1>18, Rewrites, OwnedKept, Ordered
<1>17. ASSUME NEW o \in Orders, Order(o) PROVE Owned'
  BY <1>17, <1>2, <1>3, <1>4, <1>5, <1>6, <1>7 DEF Order
<1> QED
  BY <1>17, <1>18, <1>1, <1>8, <1>9, <1>10, <1>11, <1>12, <1>13, <1>14, <1>15, <1>16 DEF Next

\* What a transaction decided stays so while it holds the license.
LEMMA DecidedStep == Inv /\ [Next]_vars => Decided'
<1> SUFFICES ASSUME Inv, [Next]_vars PROVE Decided'
  OBVIOUS
<1> USE DEF orderVars, historyVars
<1>1. ASSUME NEW x \in Change, NEW old \in Seen(x.license), ChangeBegin(x, old)
     PROVE  Decided'
  <2>1. Applicable(x, old) /\ Charge(x, old) \in {"none", "free"} /\ left[x.license] \in Int
    BY <1>1 DEF ChangeBegin, Change, Inv, TypeOK
  <2>2. /\ tx'[x.license].change = x /\ tx'[x.license].charge = Charge(x, old)
        /\ tx'[x.license].old = old
        /\ \A m \in Licenses \ {x.license} : tx'[m] = tx[m]
        /\ UNCHANGED <<rows, left>>
    BY <1>1, <2>1, Asked, Begins DEF ChangeBegin, Inv
  <2>3. /\ Charge(x, old) = "free" => left[x.license] > 0
        /\ Charge(x, old) = "none" => left[x.license] < 0 \/ ~Counted(x, old)
    <3>1. CASE ~Counted(x, old) \/ left[x.license] < 0
      <4>1. Charge(x, old) = "none"
        BY <2>1, <3>1 DEF Charge
      <4> QED
        BY <3>1, <4>1
    <3>2. CASE Counted(x, old) /\ left[x.license] > 0
      <4>1. Charge(x, old) = "free"
        BY <2>1, <3>2 DEF Charge
      <4> QED
        BY <3>2, <4>1
    <3>3. CASE Counted(x, old) /\ left[x.license] = 0
      <4>1. Charge(x, old) \in {"pay", "denied"}
        BY <3>3, ConstantsAssumption DEF Charge
      <4> QED
        BY <4>1
    <3> QED
      BY <2>1, <3>1, <3>2, <3>3
  <2>4. (x.license \in KeyLicenses /\ x.act = "replace") => Affected(x) # {}
    BY <2>1 DEF Applicable
  <2>5. TypeOK'
    BY TypeStep
  <2> QED
    BY <2>1, <2>2, <2>3, <2>4, <2>5, DecidedKept, Asked DEF Inv, RowsOf
<1>2. ASSUME NEW o \in Orders, NEW x \in Change, NEW old \in Seen(x.license), BalanceBegin(o, x, old)
     PROVE  Decided'
  <2>1. Applicable(x, old)
    BY <1>2 DEF BalanceBegin
  <2>2. /\ tx'[x.license].change = x /\ tx'[x.license].charge = "balance"
        /\ \A m \in Licenses \ {x.license} : tx'[m] = tx[m]
        /\ UNCHANGED <<rows, left>>
    BY <1>2, <2>1, Asked, Begins DEF BalanceBegin, Inv
  <2>4. (x.license \in KeyLicenses /\ x.act = "replace") => Affected(x) # {}
    BY <2>1 DEF Applicable
  <2>5. TypeOK'
    BY TypeStep
  <2> QED
    BY <2>1, <2>2, <2>4, <2>5, DecidedKept, Asked DEF Inv, RowsOf
<1>3. ASSUME NEW o \in Orders, NEW x \in Change, NEW old \in Seen(x.license), OnlineOrder(o, x, old)
     PROVE  Decided'
  BY <1>3, TypeStep, Fields, DecidedKept, Asked
     DEF OnlineOrder, Inv, TypeOK, Held, RowsOf
<1>4. ASSUME NEW o \in Orders, GatewayAccepts(o)
     PROVE  Decided'
  BY <1>4, TypeStep, Fields, DecidedKept
     DEF GatewayAccepts, Inv, TypeOK, Held, RowsOf
<1>5. ASSUME NEW o \in Orders, GatewayRefuses(o)
     PROVE  Decided'
  BY <1>5, TypeStep, Fields, DecidedKept
     DEF GatewayRefuses, OrderFree, Inv, TypeOK, Held, RowsOf
<1>6. ASSUME NEW o \in Orders, Pay(o)
     PROVE  Decided'
  BY <1>6, TypeStep, Fields, DecidedKept
     DEF Pay, Inv, TypeOK, Held, RowsOf
<1>7. ASSUME NEW o \in Orders, NEW old \in Seen(req[o].license), SettleBegin(o, old)
     PROVE  Decided'
  <2>1. Applicable(req[o], old) /\ req[o] \in Change
    BY <1>7 DEF SettleBegin, Inv, Placed, Stages
  <2>2. /\ tx'[req[o].license].change = req[o] /\ tx'[req[o].license].charge = "order"
        /\ \A m \in Licenses \ {req[o].license} : tx'[m] = tx[m]
        /\ UNCHANGED <<rows, left>>
    BY <1>7, <2>1, Asked, Begins DEF SettleBegin, Inv
  <2>4. (req[o].license \in KeyLicenses /\ req[o].act = "replace") => Affected(req[o]) # {}
    BY <2>1 DEF Applicable
  <2>5. TypeOK'
    BY TypeStep
  <2> QED
    BY <2>1, <2>2, <2>4, <2>5, DecidedKept, Asked DEF Inv, RowsOf
<1>8. ASSUME NEW l \in Licenses, Finish(l)
     PROVE  Decided'
  BY <1>8, TypeStep, Fields, DecidedKept, Finishes
     DEF Finish, Inv, TypeOK, Held, RowsOf
<1>9. ASSUME NEW l \in Licenses, Commit(l)
     PROVE  Decided'
  BY <1>9, CommitDecided
<1>10. ASSUME NEW l \in Licenses, Abort(l)
      PROVE  Decided'
  BY <1>10, TypeStep, Fields, DecidedKept, Closes
     DEF Abort, Inv, TypeOK, Held, RowsOf
<1>11. ASSUME NEW l \in Licenses, RefreshKey(l)
      PROVE  Decided'
  BY <1>11, TypeStep, Fields, DecidedKept
     DEF RefreshKey, LicenseFree, RowsOf, Inv, TypeOK, Held, RowsOf
<1>12. ASSUME NEW l \in Licenses, Cool(l)
      PROVE  Decided'
  BY <1>12, TypeStep, Fields, DecidedKept
     DEF Cool, Inv, TypeOK, Held, RowsOf
<1>13. ASSUME NEW l \in Licenses, NEW s \in Sites, NEW d \in Domains, Verify(l, s, d)
      PROVE  Decided'
  BY <1>13, TypeStep, Fields, DecidedKept
     DEF Verify, LicenseFree, Inv, TypeOK, Held, RowsOf
<1>14. ASSUME NEW r \in rows, AdminUnbind(r)
      PROVE  Decided'
  BY <1>14, TypeStep, Fields, DecidedKept
     DEF AdminUnbind, LicenseFree, Inv, TypeOK, Held, RowsOf
<1>15. ASSUME NEW l \in Licenses, NEW n \in Adjustments, AdminAdjust(l, n)
      PROVE  Decided'
  BY <1>15, TypeStep, Fields, DecidedKept
     DEF AdminAdjust, LicenseFree, Inv, TypeOK, Held, RowsOf
<1>16. ASSUME UNCHANGED vars
      PROVE  Decided'
  BY <1>16, TypeStep, Fields, DecidedKept
     DEF vars, Inv, TypeOK, Held, RowsOf
<1>18. ASSUME NEW l \in Licenses, Rewrite(l)
      PROVE  Decided'
  BY <1>18, Rewrites, TypeStep, DecidedKept DEF Inv, Held
<1>17. ASSUME NEW o \in Orders, Order(o) PROVE Decided'
  BY <1>17, <1>2, <1>3, <1>4, <1>5, <1>6, <1>7 DEF Order
<1> QED
  BY <1>17, <1>18, <1>1, <1>8, <1>9, <1>10, <1>11, <1>12, <1>13, <1>14, <1>15, <1>16 DEF Next

\* Every step keeps changes covered.
LEMMA CoveredStep == Inv /\ [Next]_vars => ChangesCovered'
<1> SUFFICES ASSUME Inv, [Next]_vars PROVE ChangesCovered'
  OBVIOUS
<1> USE DEF orderVars, historyVars
<1>1. ASSUME NEW x \in Change, NEW old \in Seen(x.license), ChangeBegin(x, old)
     PROVE  ChangesCovered'
  BY <1>1 DEF ChangeBegin, LicenseFree, Inv, TypeOK, ChangesCovered
<1>2. ASSUME NEW o \in Orders, NEW x \in Change, NEW old \in Seen(x.license), BalanceBegin(o, x, old)
     PROVE  ChangesCovered'
  BY <1>2 DEF BalanceBegin, LicenseFree, Inv, TypeOK, ChangesCovered
<1>3. ASSUME NEW o \in Orders, NEW x \in Change, NEW old \in Seen(x.license), OnlineOrder(o, x, old)
     PROVE  ChangesCovered'
  BY <1>3 DEF OnlineOrder, Inv, TypeOK, ChangesCovered
<1>4. ASSUME NEW o \in Orders, GatewayAccepts(o)
     PROVE  ChangesCovered'
  BY <1>4 DEF GatewayAccepts, Inv, TypeOK, ChangesCovered
<1>5. ASSUME NEW o \in Orders, GatewayRefuses(o)
     PROVE  ChangesCovered'
  BY <1>5 DEF GatewayRefuses, OrderFree, Inv, TypeOK, ChangesCovered
<1>6. ASSUME NEW o \in Orders, Pay(o)
     PROVE  ChangesCovered'
  BY <1>6 DEF Pay, Inv, TypeOK, ChangesCovered
<1>7. ASSUME NEW o \in Orders, NEW old \in Seen(req[o].license), SettleBegin(o, old)
     PROVE  ChangesCovered'
  BY <1>7 DEF SettleBegin, LicenseFree, OrderFree, Inv, TypeOK, ChangesCovered
<1>8. ASSUME NEW l \in Licenses, Finish(l)
     PROVE  ChangesCovered'
  BY <1>8 DEF Finish, Inv, TypeOK, ChangesCovered
<1>9. ASSUME NEW l \in Licenses, Commit(l)
     PROVE  ChangesCovered'
  BY <1>9, CommitCovered
<1>10. ASSUME NEW l \in Licenses, Abort(l)
      PROVE  ChangesCovered'
  BY <1>10 DEF Abort, Inv, TypeOK, ChangesCovered
<1>11. ASSUME NEW l \in Licenses, RefreshKey(l)
      PROVE  ChangesCovered'
  BY <1>11 DEF RefreshKey, LicenseFree, RowsOf, Inv, TypeOK, ChangesCovered
<1>12. ASSUME NEW l \in Licenses, Cool(l)
      PROVE  ChangesCovered'
  BY <1>12 DEF Cool, Inv, TypeOK, ChangesCovered
<1>13. ASSUME NEW l \in Licenses, NEW s \in Sites, NEW d \in Domains, Verify(l, s, d)
      PROVE  ChangesCovered'
  BY <1>13 DEF Verify, LicenseFree, Inv, TypeOK, ChangesCovered
<1>14. ASSUME NEW r \in rows, AdminUnbind(r)
      PROVE  ChangesCovered'
  BY <1>14 DEF AdminUnbind, LicenseFree, Inv, TypeOK, ChangesCovered
<1>15. ASSUME NEW l \in Licenses, NEW n \in Adjustments, AdminAdjust(l, n)
      PROVE  ChangesCovered'
  <2>1. /\ n \in Nat \cup {-1} /\ left' = [left EXCEPT ![l] = n]
        /\ changes' = [changes EXCEPT ![l] = 0] /\ allowed' = [allowed EXCEPT ![l] = n]
    BY <1>15, ConstantsAssumption DEF AdminAdjust
  <2> QED
    BY <2>1 DEF ChangesCovered, Inv, TypeOK
<1>16. ASSUME UNCHANGED vars
      PROVE  ChangesCovered'
  BY <1>16 DEF vars, Inv, TypeOK, ChangesCovered
<1>18. ASSUME NEW l \in Licenses, Rewrite(l)
      PROVE  ChangesCovered'
  BY <1>18, Rewrites DEF Inv, ChangesCovered
<1>17. ASSUME NEW o \in Orders, Order(o) PROVE ChangesCovered'
  BY <1>17, <1>2, <1>3, <1>4, <1>5, <1>6, <1>7 DEF Order
<1> QED
  BY <1>17, <1>18, <1>1, <1>8, <1>9, <1>10, <1>11, <1>12, <1>13, <1>14, <1>15, <1>16 DEF Next

\* Every step keeps keys within their limit.
LEMMA LimitStep == Inv /\ [Next]_vars => SitesWithinLimit'
<1> SUFFICES ASSUME Inv, [Next]_vars PROVE SitesWithinLimit'
  OBVIOUS
<1> USE DEF orderVars, historyVars
<1>1. ASSUME NEW x \in Change, NEW old \in Seen(x.license), ChangeBegin(x, old)
     PROVE  SitesWithinLimit'
  BY <1>1, LimitKept DEF ChangeBegin, LicenseFree
<1>2. ASSUME NEW o \in Orders, NEW x \in Change, NEW old \in Seen(x.license), BalanceBegin(o, x, old)
     PROVE  SitesWithinLimit'
  BY <1>2, LimitKept DEF BalanceBegin, LicenseFree
<1>3. ASSUME NEW o \in Orders, NEW x \in Change, NEW old \in Seen(x.license), OnlineOrder(o, x, old)
     PROVE  SitesWithinLimit'
  BY <1>3, LimitKept DEF OnlineOrder
<1>4. ASSUME NEW o \in Orders, GatewayAccepts(o)
     PROVE  SitesWithinLimit'
  BY <1>4, LimitKept DEF GatewayAccepts
<1>5. ASSUME NEW o \in Orders, GatewayRefuses(o)
     PROVE  SitesWithinLimit'
  BY <1>5, LimitKept DEF GatewayRefuses, OrderFree
<1>6. ASSUME NEW o \in Orders, Pay(o)
     PROVE  SitesWithinLimit'
  BY <1>6, LimitKept DEF Pay
<1>7. ASSUME NEW o \in Orders, NEW old \in Seen(req[o].license), SettleBegin(o, old)
     PROVE  SitesWithinLimit'
  BY <1>7, LimitKept DEF SettleBegin, LicenseFree, OrderFree
<1>8. ASSUME NEW l \in Licenses, Finish(l)
     PROVE  SitesWithinLimit'
  BY <1>8, LimitKept DEF Finish
<1>9. ASSUME NEW l \in Licenses, Commit(l)
     PROVE  SitesWithinLimit'
  BY <1>9, CommitLimit
<1>10. ASSUME NEW l \in Licenses, Abort(l)
      PROVE  SitesWithinLimit'
  BY <1>10, LimitKept DEF Abort
<1>11. ASSUME NEW l \in Licenses, RefreshKey(l)
      PROVE  SitesWithinLimit'
  BY <1>11, LimitKept DEF RefreshKey, LicenseFree, RowsOf
<1>12. ASSUME NEW l \in Licenses, Cool(l)
      PROVE  SitesWithinLimit'
  BY <1>12, LimitKept DEF Cool
<1>13. ASSUME NEW l \in Licenses, NEW s \in Sites, NEW d \in Domains, Verify(l, s, d)
      PROVE  SitesWithinLimit'
  BY <1>13, VerifyLimit
<1>14. ASSUME NEW r \in rows, AdminUnbind(r)
      PROVE  SitesWithinLimit'
  BY <1>14, LimitKept DEF AdminUnbind, LicenseFree
<1>15. ASSUME NEW l \in Licenses, NEW n \in Adjustments, AdminAdjust(l, n)
      PROVE  SitesWithinLimit'
  BY <1>15, LimitKept DEF AdminAdjust, LicenseFree
<1>16. ASSUME UNCHANGED vars
      PROVE  SitesWithinLimit'
  BY <1>16, LimitKept DEF vars
<1>18. ASSUME NEW l \in Licenses, Rewrite(l)
      PROVE  SitesWithinLimit'
  BY <1>18, Rewrites, RewriteLimit
<1>17. ASSUME NEW o \in Orders, Order(o) PROVE SitesWithinLimit'
  BY <1>17, <1>2, <1>3, <1>4, <1>5, <1>6, <1>7 DEF Order
<1> QED
  BY <1>17, <1>18, <1>1, <1>8, <1>9, <1>10, <1>11, <1>12, <1>13, <1>14, <1>15, <1>16 DEF Next

\* Every step keeps the balance accounted for.
LEMMA BalanceStep == Inv /\ [Next]_vars => BalanceAccounted'
<1> SUFFICES ASSUME Inv, [Next]_vars PROVE BalanceAccounted'
  OBVIOUS
<1> USE DEF orderVars, historyVars
<1>1. ASSUME NEW x \in Change, NEW old \in Seen(x.license), ChangeBegin(x, old)
     PROVE  BalanceAccounted'
  BY <1>1, BalanceKept DEF ChangeBegin, LicenseFree, Inv, TypeOK, FromBalance, Stages
<1>2. ASSUME NEW o \in Orders, NEW x \in Change, NEW old \in Seen(x.license), BalanceBegin(o, x, old)
     PROVE  BalanceAccounted'
  BY <1>2, BalanceKept DEF BalanceBegin, LicenseFree, Inv, TypeOK, FromBalance, Stages
<1>3. ASSUME NEW o \in Orders, NEW x \in Change, NEW old \in Seen(x.license), OnlineOrder(o, x, old)
     PROVE  BalanceAccounted'
  BY <1>3, BalanceKept DEF OnlineOrder, Inv, TypeOK, FromBalance, Stages
<1>4. ASSUME NEW o \in Orders, GatewayAccepts(o)
     PROVE  BalanceAccounted'
  BY <1>4, BalanceKept DEF GatewayAccepts, Inv, TypeOK, FromBalance, Stages
<1>5. ASSUME NEW o \in Orders, GatewayRefuses(o)
     PROVE  BalanceAccounted'
  BY <1>5, BalanceKept DEF GatewayRefuses, OrderFree, Inv, TypeOK, FromBalance, Stages
<1>6. ASSUME NEW o \in Orders, Pay(o)
     PROVE  BalanceAccounted'
  BY <1>6, BalanceKept DEF Pay, Inv, TypeOK, FromBalance, Stages
<1>7. ASSUME NEW o \in Orders, NEW old \in Seen(req[o].license), SettleBegin(o, old)
     PROVE  BalanceAccounted'
  BY <1>7, BalanceKept DEF SettleBegin, LicenseFree, OrderFree, Inv, TypeOK, FromBalance, Stages
<1>8. ASSUME NEW l \in Licenses, Finish(l)
     PROVE  BalanceAccounted'
  BY <1>8, BalanceKept DEF Finish, Inv, TypeOK, FromBalance, Stages
<1>9. ASSUME NEW l \in Licenses, Commit(l)
     PROVE  BalanceAccounted'
  BY <1>9, CommitBalance
<1>10. ASSUME NEW l \in Licenses, Abort(l)
      PROVE  BalanceAccounted'
  BY <1>10, BalanceKept DEF Abort, Inv, TypeOK, FromBalance, Stages
<1>11. ASSUME NEW l \in Licenses, RefreshKey(l)
      PROVE  BalanceAccounted'
  BY <1>11, BalanceKept DEF RefreshKey, LicenseFree, RowsOf, Inv, TypeOK, FromBalance, Stages
<1>12. ASSUME NEW l \in Licenses, Cool(l)
      PROVE  BalanceAccounted'
  BY <1>12, BalanceKept DEF Cool, Inv, TypeOK, FromBalance, Stages
<1>13. ASSUME NEW l \in Licenses, NEW s \in Sites, NEW d \in Domains, Verify(l, s, d)
      PROVE  BalanceAccounted'
  BY <1>13, BalanceKept DEF Verify, LicenseFree, Inv, TypeOK, FromBalance, Stages
<1>14. ASSUME NEW r \in rows, AdminUnbind(r)
      PROVE  BalanceAccounted'
  BY <1>14, BalanceKept DEF AdminUnbind, LicenseFree, Inv, TypeOK, FromBalance, Stages
<1>15. ASSUME NEW l \in Licenses, NEW n \in Adjustments, AdminAdjust(l, n)
      PROVE  BalanceAccounted'
  BY <1>15, BalanceKept DEF AdminAdjust, LicenseFree, Inv, TypeOK, FromBalance, Stages
<1>16. ASSUME UNCHANGED vars
      PROVE  BalanceAccounted'
  BY <1>16, BalanceKept DEF vars, Inv, TypeOK, FromBalance, Stages
<1>18. ASSUME NEW l \in Licenses, Rewrite(l)
      PROVE  BalanceAccounted'
  BY <1>18, Rewrites, BalanceKept DEF Inv, FromBalance
<1>17. ASSUME NEW o \in Orders, Order(o) PROVE BalanceAccounted'
  BY <1>17, <1>2, <1>3, <1>4, <1>5, <1>6, <1>7 DEF Order
<1> QED
  BY <1>17, <1>18, <1>1, <1>8, <1>9, <1>10, <1>11, <1>12, <1>13, <1>14, <1>15, <1>16 DEF Next

--------------------------------------------------------------------------------
(* Theorems *)

\* The invariant holds throughout.
THEOREM InvInvariant == Spec => []Inv
<1>1. Init => Inv
  BY InitInv
<1>2. Inv /\ [Next]_vars => Inv'
  BY TypeStep, HeldStep, PlacedStep, BoundStep, DecidedStep, StagesStep, OwnedStep, CoveredStep,
     LimitStep, BalanceStep DEF Inv
<1> QED
  BY <1>1, <1>2, PTL DEF Spec

\* Every variable keeps its type: the balance is never negative.
THEOREM TypeCorrect == Spec => []TypeOK
<1>1. Inv => TypeOK
  BY DEF Inv
<1> QED
  BY InvInvariant, <1>1, PTL

\* A license sold for one domain is bound to one at most, however its changes, their
\* payments and the administrator's interventions interleave, his edit included, which does
\* not lock it: only a change committed between the edit's two statements, or a failure of
\* the first, leaves two.
THEOREM OneDomainAtMost == Spec => []OneDomain
<1>1. Inv => OneDomain
  <2> SUFFICES ASSUME Inv, NEW l \in DomainLicenses \ torn PROVE Cardinality(RowsOf(l)) <= 1
    BY DEF OneDomain
  <2>1. CASE RowsOf(l) = {}
    BY <2>1, FS_EmptySet
  <2>2. CASE RowsOf(l) # {}
    <3>1. PICK r \in RowsOf(l) : TRUE
      BY <2>2
    <3>2. RowsOf(l) = {r}
      BY <3>1 DEF RowsOf, Inv, Bound
    <3>3. Cardinality({r}) = 1
      BY FS_Singleton
    <3> QED
      BY <3>2, <3>3
  <2> QED
    BY <2>1, <2>2
<1> QED
  BY InvInvariant, <1>1, PTL

\* Whatever is adjusted, committed or rolled back meanwhile, a site is taken away for a free
\* change or for a paid one.
THEOREM NothingForNothing == Spec => []ChangesCovered
<1>1. Inv => ChangesCovered
  BY DEF Inv
<1> QED
  BY InvInvariant, <1>1, PTL

\* Verifications and changes together keep a key within its number of sites.
THEOREM KeysWithinLimit == Spec => []SitesWithinLimit
<1>1. Inv => SitesWithinLimit
  BY DEF Inv
<1> QED
  BY InvInvariant, <1>1, PTL

\* The owner's balance pays once for each change carried out from it.
THEOREM BalancePays == Spec => []BalanceAccounted
<1>1. Inv => BalanceAccounted
  BY DEF Inv
<1> QED
  BY InvInvariant, <1>1, PTL

\* An order becomes paid only in the commit that binds the license to its site, or finds it
\* bound to it.
THEOREM PaidApplied == Spec => PaidIsApplied
<1> DEFINE A == \A o \in Orders :
                  (status[o] # "paid" /\ status'[o] = "paid" /\ req[o].act = "replace")
                    => \/ Untouched(req[o], tx[req[o].license].old)
                       \/ \E r \in rows' : r.license = req[o].license /\ r.domain = req[o].target
<1>1. Inv /\ [Next]_vars => A
  <2> SUFFICES ASSUME Inv, [Next]_vars, NEW o \in Orders,
                      status[o] # "paid", status'[o] = "paid", req[o].act = "replace",
                      ~Untouched(req[o], tx[req[o].license].old)
               PROVE  \E r \in rows' : r.license = req[o].license /\ r.domain = req[o].target
    OBVIOUS
  <2>1. PICK l \in Licenses : Commit(l)
    <3>1. ~UNCHANGED status
      OBVIOUS
    <3>2. \A p \in Orders : ~GatewayRefuses(p)
      BY DEF GatewayRefuses, Inv, TypeOK
    <3>3. \A p \in Orders, x \in Change : \A old : ~OnlineOrder(p, x, old)
      BY DEF OnlineOrder, Inv, TypeOK
    <3>4. \A m \in Licenses : ~Rewrite(m)
      BY Rewrites
    <3> QED
      BY <3>1, <3>2, <3>3, <3>4 DEF Next, Order, ChangeBegin, BalanceBegin, GatewayAccepts, Pay,
         SettleBegin, Finish, Abort, RefreshKey, Cool, Verify, AdminUnbind, AdminAdjust, vars, orderVars
  <2>2. tx[l] # NoTx /\ tx[l].order = o
    BY <2>1 DEF Commit
  <2>3. tx[l].change = req[o] /\ req[o].license = l
    BY <2>2, ConstantsAssumption DEF Inv, Held
  <2>4. rows' = Applied(req[o], tx[l].old) /\ ~Untouched(req[o], tx[l].old)
    BY <2>1, <2>3 DEF Commit
  <2>5. Replacement(req[o]) \in rows'
    BY <2>4 DEF Applied
  <2>6. Replacement(req[o]).license = l /\ Replacement(req[o]).domain = req[o].target
    BY <2>3 DEF Replacement
  <2> QED
    BY <2>3, <2>5, <2>6
<1> QED
  BY InvInvariant, <1>1, PTL DEF Spec, PaidIsApplied

\* Site change orders implement OrderSettlement.
THEOREM Refinement == Spec => ImplementsPromise
<1> DEFINE state == [o \in Orders |-> Abstract(status[o])]
<1>1. Init => Promise!Init
  BY DEF Init, Promise!Init, Abstract
<1>2. Inv /\ [Next]_vars => [Promise!Next]_(Promise!vars)
  <2> SUFFICES ASSUME Inv, [Next]_vars PROVE [Promise!Next]_(Promise!vars)
    OBVIOUS
  <2>1. CASE UNCHANGED <<status, runs>>
    BY <2>1 DEF Promise!vars
  <2>2. ASSUME NEW o \in Orders, NEW x \in Change, NEW old, OnlineOrder(o, x, old) PROVE Promise!Next
    <3>1. status[o] = "none" /\ status' = [status EXCEPT ![o] = "pending"] /\ runs' = runs
      BY <2>2 DEF OnlineOrder, Inv, Stages, historyVars
    <3>2. state[o] = "none" /\ state' = [p \in Orders |-> IF p \in {o} THEN "open" ELSE state[p]]
      BY <3>1 DEF Abstract, Inv, TypeOK
    <3>3. Promise!Open({o})
      BY <3>1, <3>2 DEF Promise!Open
    <3> QED
      BY <3>3 DEF Promise!Next
  <2>3. ASSUME NEW o \in Orders, GatewayRefuses(o) PROVE [Promise!Next]_(Promise!vars)
    <3>1. status[o] = "pending" /\ status' = [status EXCEPT ![o] = "failed"] /\ runs' = runs
      BY <2>3 DEF GatewayRefuses, Inv, Stages, TypeOK, historyVars
    <3>2. state[o] = "open" /\ state' = [p \in Orders |-> IF p \in {o} THEN "closed" ELSE state[p]]
      BY <3>1 DEF Abstract, Inv, TypeOK
    <3>3. Promise!Close({o})
      BY <3>1, <3>2 DEF Promise!Close
    <3> QED
      BY <3>3 DEF Promise!Next
  <2>4. ASSUME NEW l \in Licenses, Commit(l) PROVE [Promise!Next]_(Promise!vars)
    <3> DEFINE o == tx[l].order
    <3>1. /\ status' = [p \in Orders |-> IF p = o THEN "paid" ELSE status[p]]
          /\ runs' = [p \in Orders |-> IF p = o THEN runs[p] + 1 ELSE runs[p]]
          /\ o \in Orders \cup {NoOrder}
      BY <2>4, Fields DEF Commit, Inv
    <3>2. CASE o = NoOrder
      <4>1. status' = status /\ runs' = runs
        BY <3>1, <3>2, ConstantsAssumption DEF Inv, TypeOK
      <4> QED
        BY <2>1, <4>1
    <3>3. CASE o \in Orders
      <4>1. status[o] \in {"none", "pending"}
        BY <2>4, <3>3, Ordered, ConstantsAssumption DEF Inv, Owned
      <4>2. state[o] \in {"none", "open"} /\ state' = [state EXCEPT ![o] = "granted"]
        <5>1. Abstract(status[o]) \in {"none", "open"}
          BY <4>1 DEF Abstract
        <5>2. \A p \in Orders : Abstract(status'[p]) = IF p = o THEN "granted" ELSE Abstract(status[p])
          <6>1. \A p \in Orders : status'[p] = IF p = o THEN "paid" ELSE status[p]
            BY <3>1
          <6>2. Abstract("paid") = "granted"
            BY DEF Abstract
          <6> HIDE DEF o
          <6> QED
            BY <6>1, <6>2
        <5> QED
          BY <3>3, <5>1, <5>2
      <4>3. runs' = [runs EXCEPT ![o] = @ + 1]
        BY <3>1, <3>3 DEF Inv, TypeOK
      <4>4. Promise!Grant(o)
        BY <4>2, <4>3 DEF Promise!Grant
      <4> QED
        BY <3>3, <4>4 DEF Promise!Next
    <3> QED
      BY <3>1, <3>2, <3>3
  <2>5. \A l \in Licenses : Rewrite(l) => UNCHANGED <<status, runs>>
    BY Rewrites
  <2> QED
    BY <2>1, <2>2, <2>3, <2>4, <2>5 DEF Next, Order, ChangeBegin, BalanceBegin, GatewayAccepts, Pay, SettleBegin,
       Finish, Abort, RefreshKey, Cool, Verify, AdminUnbind, AdminAdjust, vars, orderVars, historyVars
<1> QED
  BY InvInvariant, <1>1, <1>2, PTL DEF Spec, ImplementsPromise, Promise!Spec

--------------------------------------------------------------------------------
(* Thirty days *)

\* A license that has gone to another domain is recorded, unless that failed, and before its
\* commit already; who changes its domain for free began when it had not, or could not read it.
Recorded ==
  /\ moved \subseteq cooling \cup slips
  /\ \A l \in Commercial : tx[l].stage = "finished" => l \in cooling \cup slips
  /\ \A l \in Commercial :
       (tx[l] # NoTx /\ tx[l].order = NoOrder /\ NewDomain(tx[l].change, tx[l].old))
         => l \notin moved \ slips

\* What a step makes of a license's transaction, the commit aside.
LEMMA TxOf ==
  ASSUME Inv, [Next]_vars, NEW l \in Commercial, ~Commit(l), tx'[l] # NoTx
  PROVE  \/ /\ tx[l] # NoTx /\ tx'[l].change = tx[l].change /\ tx'[l].old = tx[l].old
            /\ tx'[l].order = tx[l].order
            /\ tx'[l].stage # tx[l].stage => Finish(l)
         \/ /\ tx[l] = NoTx /\ tx'[l].stage = "decided"
            /\ \/ tx'[l].order # NoOrder
               \/ Guarded(tx'[l].change, tx'[l].old) /\ tx'[l].change.license = l
                    /\ UNCHANGED <<cooling, moved>>
<1> USE ConstantsAssumption DEF historyVars
<1>1. l \in Licenses
  BY DEF Licenses
<1>2. CASE tx' = tx
  BY <1>1, <1>2, Fields DEF Inv
<1>3. ASSUME NEW x \in Change, NEW old \in Seen(x.license), ChangeBegin(x, old)
      PROVE  IF x.license = l
             THEN /\ tx[l] = NoTx /\ tx'[l].stage = "decided"
                  /\ Guarded(tx'[l].change, tx'[l].old) /\ tx'[l].change.license = l
                  /\ UNCHANGED <<cooling, moved>>
             ELSE tx'[l] = tx[l]
  <2>1. /\ tx'[x.license].stage = "decided" /\ tx'[x.license].change = x /\ tx'[x.license].old = old
        /\ \A m \in Licenses \ {x.license} : tx'[m] = tx[m]
    BY <1>3, Begins DEF ChangeBegin, Inv
  <2>2. Guarded(x, old) /\ UNCHANGED <<cooling, moved>> /\ tx[x.license] = NoTx
    BY <1>3 DEF ChangeBegin, LicenseFree
  <2> QED
    BY <1>1, <2>1, <2>2
<1>4. ASSUME NEW o \in Orders, NEW x \in Change, NEW old \in Seen(x.license), BalanceBegin(o, x, old)
      PROVE  IF x.license = l THEN tx[l] = NoTx /\ tx'[l].stage = "decided" /\ tx'[l].order # NoOrder
                              ELSE tx'[l] = tx[l]
  <2>1. /\ tx'[x.license].stage = "decided" /\ tx'[x.license].order = o
        /\ \A m \in Licenses \ {x.license} : tx'[m] = tx[m]
    BY <1>4, Begins DEF BalanceBegin, Inv
  <2> QED
    BY <1>1, <1>4, <2>1 DEF BalanceBegin, LicenseFree
<1>5. ASSUME NEW o \in Orders, NEW old \in Seen(req[o].license), SettleBegin(o, old)
      PROVE  IF req[o].license = l THEN tx[l] = NoTx /\ tx'[l].stage = "decided" /\ tx'[l].order # NoOrder
                                   ELSE tx'[l] = tx[l]
  <2>1. req[o] \in Change
    BY <1>5 DEF SettleBegin, Inv, Placed, Stages
  <2>2. /\ tx'[req[o].license].stage = "decided" /\ tx'[req[o].license].order = o
        /\ \A m \in Licenses \ {req[o].license} : tx'[m] = tx[m]
    BY <1>5, <2>1, Begins DEF SettleBegin, Inv
  <2> QED
    BY <1>1, <1>5, <2>2 DEF SettleBegin, LicenseFree
<1>6. ASSUME NEW m \in Licenses, Finish(m)
      PROVE  IF m = l THEN /\ tx[l] # NoTx /\ tx'[l].change = tx[l].change
                           /\ tx'[l].old = tx[l].old /\ tx'[l].order = tx[l].order
                      ELSE tx'[l] = tx[l]
  <2>1. tx[m] # NoTx
    BY <1>6 DEF Finish, NoTx
  <2> QED
    BY <1>1, <1>6, <2>1, Finishes DEF Finish, Inv
<1>7. ASSUME NEW m \in Licenses, Commit(m) \/ Abort(m) PROVE m # l /\ tx'[l] = tx[l]
  BY <1>1, <1>7 DEF Commit, Abort, Inv, TypeOK
<1>8. \/ tx' = tx
      \/ \E x \in Change : \E old \in Seen(x.license) : ChangeBegin(x, old)
      \/ \E o \in Orders, x \in Change : \E old \in Seen(x.license) : BalanceBegin(o, x, old)
      \/ \E o \in Orders : \E old \in Seen(req[o].license) : SettleBegin(o, old)
      \/ \E m \in Licenses : Finish(m) \/ Commit(m) \/ Abort(m)
  <2>1. \A m \in Licenses : Rewrite(m) => tx' = tx
    BY Rewrites
  <2> QED
    BY <2>1 DEF Next, Order, OnlineOrder, GatewayAccepts, GatewayRefuses, Pay, Verify, RefreshKey,
       AdminUnbind, AdminAdjust, Cool, vars
<1>9. tx'[l] = tx[l] => /\ tx[l] # NoTx /\ tx'[l].change = tx[l].change /\ tx'[l].old = tx[l].old
                        /\ tx'[l].order = tx[l].order /\ tx'[l].stage = tx[l].stage
  OBVIOUS
<1> QED
  BY <1>2, <1>3, <1>4, <1>5, <1>6, <1>7, <1>8, <1>9

\* What a step makes of the records: a lost one is a slip, and only time takes any away.
LEMMA RecordsOf ==
  ASSUME Inv, Recorded, [Next]_vars
  PROVE  \/ \E l \in Licenses :
              /\ moved' = moved \ {l} /\ cooling' = cooling \ {l} /\ slips' = slips \ {l}
              /\ tx' = tx /\ tx[l] = NoTx
         \/ /\ cooling \subseteq cooling' /\ slips \subseteq slips'
            /\ \A l \in Licenses : Finish(l) => l \in cooling' \cup slips'
            /\ \/ moved' = moved
               \/ \E l \in Licenses : /\ Commit(l) /\ moved' = moved \cup {l}
                                      /\ l \in cooling \cup slips /\ l \in Commercial
<1> USE DEF historyVars
<1>1. ASSUME NEW l \in Licenses, Commit(l)
      PROVE  /\ moved' = moved \/ (moved' = moved \cup {l} /\ l \in cooling \cup slips /\ l \in Commercial)
             /\ cooling' = cooling /\ slips' = slips
  <2>1. NewDomain(tx[l].change, tx[l].old) => l \in Commercial /\ tx[l].stage = "finished"
    BY <1>1 DEF Commit, NewDomain, Inv, Held
  <2>2. moved' = moved \/ (moved' = moved \cup {l} /\ NewDomain(tx[l].change, tx[l].old))
    BY <1>1 DEF Commit
  <2> QED
    BY <1>1, <2>1, <2>2 DEF Recorded, Commit
<1>2. ASSUME NEW l \in Licenses, Finish(l)
      PROVE  /\ moved' = moved /\ cooling \subseteq cooling' /\ slips \subseteq slips'
             /\ l \in cooling' \cup slips'
  BY <1>2 DEF Finish
<1>3. ASSUME NEW l \in Licenses, Cool(l)
      PROVE  /\ moved' = moved \ {l} /\ cooling' = cooling \ {l} /\ slips' = slips \ {l}
             /\ tx' = tx /\ tx[l] = NoTx
  BY <1>3 DEF Cool, LicenseFree
<1>4. ASSUME NEW l \in Licenses, Rewrite(l)
      PROVE  moved' = moved /\ slips' = slips /\ cooling \subseteq cooling'
  BY <1>4, Rewrites DEF Rewrite, EditBegin, EditDelete, EditInsert, EditRecord, EditBreaks
<1>5. ASSUME NEW x, NEW old, Guarded(x, old) PROVE slips \subseteq slips'
  BY <1>5 DEF Guarded
<1>6. \/ \E l \in Licenses : Commit(l) \/ Finish(l) \/ Cool(l) \/ Rewrite(l)
      \/ moved' = moved /\ cooling' = cooling /\ slips \subseteq slips'
  BY <1>5 DEF Next, Order, ChangeBegin, BalanceBegin, OnlineOrder, GatewayAccepts, GatewayRefuses, Pay,
     SettleBegin, Abort, Verify, RefreshKey, AdminUnbind, AdminAdjust, vars
<1>7. ASSUME NEW l \in Licenses, Finish(l) PROVE l \in cooling' \cup slips'
  BY <1>2, <1>7
<1>8. CASE \E l \in Licenses : Cool(l)
  BY <1>3, <1>8
<1>9. CASE /\ moved' = moved /\ cooling \subseteq cooling' /\ slips \subseteq slips'
  BY <1>7, <1>9
<1>10. CASE \E l \in Licenses : Commit(l)
  BY <1>1, <1>7, <1>10
<1> HIDE DEF historyVars
<1> QED
  BY <1>2, <1>4, <1>6, <1>8, <1>9, <1>10

LEMMA RecordedStep == Inv /\ Recorded /\ [Next]_vars => Recorded'
<1> SUFFICES ASSUME Inv, Recorded, [Next]_vars PROVE Recorded'
  OBVIOUS
<1>1. ASSUME NEW l \in Licenses, Commit(l) PROVE tx'[l] = NoTx
  BY <1>1, Closes DEF Commit, Inv
<1>2. CASE \E l \in Licenses :
             /\ moved' = moved \ {l} /\ cooling' = cooling \ {l} /\ slips' = slips \ {l}
             /\ tx' = tx /\ tx[l] = NoTx
  <2>1. PICK l \in Licenses :
          /\ moved' = moved \ {l} /\ cooling' = cooling \ {l} /\ slips' = slips \ {l}
          /\ tx' = tx /\ tx[l] = NoTx
    BY <1>2
  <2>2. tx[l].stage # "finished"
    BY <2>1 DEF NoTx
  <2> QED
    BY <2>1, <2>2 DEF Recorded, NewDomain
<1>3. CASE /\ cooling \subseteq cooling' /\ slips \subseteq slips'
           /\ \A l \in Licenses : Finish(l) => l \in cooling' \cup slips'
           /\ \/ moved' = moved
              \/ \E l \in Licenses : /\ Commit(l) /\ moved' = moved \cup {l}
                                     /\ l \in cooling \cup slips /\ l \in Commercial
  <2>1. moved' \subseteq cooling' \cup slips'
    BY <1>3 DEF Recorded
  <2>2. ASSUME NEW l \in Commercial, tx'[l].stage = "finished" PROVE l \in cooling' \cup slips'
    <3>1. l \in Licenses /\ tx'[l] # NoTx
      BY <2>2, ConstantsAssumption DEF Licenses, NoTx
    <3>2. Finish(l) \/ tx[l].stage = "finished"
      BY <1>1, <2>2, <3>1, TxOf
    <3> QED
      BY <1>3, <3>1, <3>2 DEF Recorded
  <2>3. ASSUME NEW l \in Commercial, tx'[l] # NoTx, tx'[l].order = NoOrder,
               NewDomain(tx'[l].change, tx'[l].old)
        PROVE  l \notin moved' \ slips'
    <3>1. l \in Licenses
      BY ConstantsAssumption DEF Licenses
    <3>2. ~Commit(l)
      BY <1>1, <2>3, <3>1
    <3>3. l \in moved' => l \in moved
      BY <1>3, <3>2
    <3>4. CASE tx[l] # NoTx /\ tx'[l].change = tx[l].change /\ tx'[l].old = tx[l].old
               /\ tx'[l].order = tx[l].order
      BY <1>3, <2>3, <3>3, <3>4 DEF Recorded
    <3>5. CASE Guarded(tx'[l].change, tx'[l].old) /\ tx'[l].change.license = l
               /\ UNCHANGED <<cooling, moved>>
      BY <1>3, <2>3, <3>3, <3>5 DEF Recorded, Guarded
    <3> QED
      BY <2>3, <3>2, <3>4, <3>5, TxOf
  <2> QED
    BY <2>1, <2>2, <2>3 DEF Recorded, NewDomain
<1> QED
  BY <1>2, <1>3, RecordsOf

\* Unless an order pays for it, the owner of a license of an edition that has gone to another
\* domain binds it to no other within thirty days (guardProductDomainChange, asked when a
\* change begins, and finishProductDomainChange, recorded before the change is committed),
\* as long as none of its records failed to be written or read in these days, whatever the
\* administrator edits beside him.
THEOREM ThirtyDays == Spec => FreeOncePerThirtyDays
<1> DEFINE A == \A l \in Commercial :
                  (tx'[l] # tx[l] /\ (\E r \in rows' \ rows : r.license = l) /\ status' = status)
                    => l \notin moved \ slips
<1>1. Init => Recorded
  BY ConstantsAssumption DEF Init, Recorded, Licenses, NoTx
<1>2. Inv /\ Recorded /\ [Next]_vars => A
  <2> SUFFICES ASSUME Inv, Recorded, [Next]_vars, NEW l \in Commercial, tx'[l] # tx[l],
                      NEW r \in rows' \ rows, r.license = l, status' = status
               PROVE  l \notin moved \ slips
    OBVIOUS
  <2>1. l \in Licenses /\ l \in DomainLicenses
    BY ConstantsAssumption DEF Licenses
  <2>2. Commit(l)
    <3>1. tx' # tx /\ rows' # rows
      OBVIOUS
    <3>2. PICK m \in Licenses : Commit(m)
      <4>1. \A m \in Licenses : Rewrite(m) => tx' = tx
        BY Rewrites
      <4> QED
        BY <3>1, <4>1 DEF Next, Order, ChangeBegin, BalanceBegin, OnlineOrder, GatewayAccepts,
           GatewayRefuses, Pay, SettleBegin, Finish, Abort, Cool, Verify, RefreshKey, AdminUnbind,
           AdminAdjust, vars
    <3>3. m = l
      BY <2>1, <3>2, Closes DEF Commit, Inv
    <3> QED
      BY <3>2, <3>3
  <2>3. /\ tx[l] # NoTx /\ tx[l].change.license = l
        /\ rows' = Applied(tx[l].change, tx[l].old)
        /\ status' = [o \in Orders |-> IF o = tx[l].order THEN "paid" ELSE status[o]]
    BY <2>1, <2>2 DEF Commit, Inv, Held
  <2>4. tx[l].change.act = "replace" /\ ~Untouched(tx[l].change, tx[l].old)
    BY <2>3 DEF Applied
  <2>5. NewDomain(tx[l].change, tx[l].old)
    BY <2>1, <2>3, <2>4 DEF NewDomain, Untouched
  <2>6. tx[l].order = NoOrder
    <3>1. tx[l].order \in Orders \cup {NoOrder}
      BY <2>1, Fields DEF Inv
    <3>2. ASSUME tx[l].order \in Orders PROVE FALSE
      <4>1. status[tx[l].order] \in {"none", "pending"}
        BY <2>1, <2>3, <3>2, Ordered, ConstantsAssumption DEF Inv, Owned
      <4> QED
        BY <2>3, <3>2, <4>1
    <3> QED
      BY <3>1, <3>2
  <2> QED
    BY <2>3, <2>5, <2>6 DEF Recorded
<1> QED
  BY <1>1, <1>2, InvInvariant, RecordedStep, PTL DEF Spec, FreeOncePerThirtyDays

================================================================================
