--------------------------- MODULE LicenseCardsProofs ---------------------------
(***************************************************************************)
(* Theorems about LicenseCards, for every set of cards, batches, people    *)
(* and requests.                                                           *)
(***************************************************************************)
EXTENDS LicenseCards, TLAPS

--------------------------------------------------------------------------------
(* The inductive invariant *)

Working == {"asked", "card", "batch", "app", "owner"}
HoldsCard == {"card", "batch", "app", "owner"}
HoldsBatch == {"batch", "app", "owner"}
HoldsApp == {"app", "owner"}

\* Who works on what, and who holds which row.
Locks ==
  /\ \A r \in Requests : at[r] \in Working => wants[r] \in Cards /\ by[r] \in Accounts
  /\ \A r \in Requests : at[r] \in HoldsCard =>
       /\ deleting[BatchOf[wants[r]]] = "none"
       /\ card[wants[r]] \notin {"none", "deleted"}
  /\ \A r, q \in Requests :
       /\ at[r] \in HoldsCard /\ at[q] \in HoldsCard /\ wants[r] = wants[q] => r = q
       /\ at[r] \in HoldsApp /\ at[q] \in HoldsApp => r = q
  /\ \A b \in Batches : /\ deleting[b] # "batch"
                        /\ deleting[b] = "cards" => batch[b] \in {"active", "disabled"}

\* What a redemption has read is still so while it holds the rows.
LockedIsUsable ==
  \A r \in Requests :
    at[r] = "owner" => Usable(wants[r]) /\ account[by[r]] = "enabled"

\* Cards and batches come and go together, and a card counts its licenses.
Counted ==
  \A c \in Cards :
    /\ card[c] = "none" <=> batch[BatchOf[c]] = "none"
    /\ card[c] = "deleted" <=> batch[BatchOf[c]] = "deleted"
    /\ card[c] \in {"none", "unused", "disabled"} => issued[c] = 0
    /\ card[c] = "redeemed" => issued[c] = 1
    /\ issued[c] \in {0, 1}

\* An account that was converted is closed, unless the administrator opened it.
ConvertedClosed ==
  /\ reopened \subseteq converted
  /\ \A p \in converted \ reopened : account[User(p)] # "enabled"

Inv == TypeOK /\ Locks /\ LockedIsUsable /\ Counted /\ ConvertedClosed /\ FollowsRedeemer

--------------------------------------------------------------------------------

LEMMA AccountTypes ==
  /\ \A p \in People : User(p) \in Accounts /\ Agent(p) \in Accounts
  /\ \A p \in People : User(p) # NoAccount /\ Agent(p) # NoAccount
  /\ NoAccount \notin Accounts
  /\ \A p, q : /\ User(p) # Agent(q)
               /\ User(p) = User(q) => p = q
               /\ Agent(p) = Agent(q) => p = q
  /\ \A a \in Accounts : \/ a = User(a.id) /\ a.id \in People /\ a.kind = "user"
                         \/ a = Agent(a.id) /\ a.id \in People /\ a.kind = "agent"
BY DEF Accounts, User, Agent, NoAccount

\* The invariant holds at the start.
LEMMA InitInv == Init => Inv
<1> SUFFICES ASSUME Init PROVE Inv
  OBVIOUS
<1> USE ConstantsAssumption
<1>1. TypeOK
  BY DEF Init, TypeOK, Stages
<1>2. Locks /\ LockedIsUsable /\ Counted /\ ConvertedClosed
  BY DEF Init, Locks, LockedIsUsable, Counted, ConvertedClosed, Working, HoldsCard, HoldsApp
<1>3. FollowsRedeemer
  BY DEF Init, FollowsRedeemer
<1> QED
  BY <1>1, <1>2, <1>3 DEF Inv

\* Every step keeps the types.
LEMMA TypeStep == Inv /\ [Next]_vars => TypeOK'
<1> SUFFICES ASSUME Inv, [Next]_vars PROVE TypeOK'
  OBVIOUS
<1> USE ConstantsAssumption, AccountTypes
    DEF Inv, TypeOK, Stages, Locks, Working, HoldsCard,
        batchVars, licenseVars, accountVars, requestVars
<1>1. ASSUME NEW r \in Requests, Redemption(r) PROVE TypeOK'
  <2>1. ASSUME NEW c \in Cards, NEW a \in Accounts, Ask(r, c, a) PROVE TypeOK'
    BY <2>1 DEF Ask
  <2>2. ASSUME Redeem(r) PROVE TypeOK'
    BY <2>2 DEF Redeem, Ended
  <2>3. ASSUME LockCard(r) \/ LockBatch(r) \/ LockApp(r) \/ LockOwner(r) PROVE TypeOK'
    BY <2>3 DEF LockCard, LockBatch, LockApp, LockOwner, Reached
  <2>4. ASSUME Refuse(r) \/ Abort(r) PROVE TypeOK'
    BY SMTT(30), <2>4 DEF Refuse, Abort, RollBack, Ended
  <2> QED
    BY <1>1, <2>1, <2>2, <2>3, <2>4 DEF Redemption, Advance
<1>2. ASSUME NEW b \in Batches, OfBatch(b) PROVE TypeOK'
  <2>1. ASSUME BatchCreate(b) PROVE TypeOK'
    BY <2>1 DEF BatchCreate
  <2>2. ASSUME NEW s \in {"active", "disabled"}, BatchToggle(b, s) PROVE TypeOK'
    BY <2>2 DEF BatchToggle, Switch
  <2>3. ASSUME BatchDelete(b) PROVE TypeOK'
    BY <2>3 DEF BatchDelete, DeletedFirst
  <2>4. ASSUME BatchDeleted(b) \/ BatchDeleteFails(b) PROVE TypeOK'
    BY <2>4 DEF BatchDeleted, BatchDeleteFails
  <2> QED
    BY <1>2, <2>1, <2>2, <2>3, <2>4 DEF OfBatch
<1>3. ASSUME NEW c \in Cards, OfCard(c) PROVE TypeOK'
  BY <1>3 DEF OfCard, CardToggle, LicenseDelete, Switch
<1>4. ASSUME NEW a \in Accounts, AccountToggle(a) PROVE TypeOK'
  BY <1>4 DEF AccountToggle, Switch
<1>5. ASSUME NEW p \in People, UserDelete(p) PROVE TypeOK'
  BY <1>5 DEF UserDelete, Switch
<1>6. ASSUME NEW p \in People, Convert(p) PROVE TypeOK'
  BY <1>6 DEF Convert
<1>7. ASSUME AppToggle PROVE TypeOK'
  BY <1>7 DEF AppToggle, Switch
<1>8. ASSUME UNCHANGED vars PROVE TypeOK'
  BY <1>8 DEF vars
<1> QED
  BY <1>1, <1>2, <1>3, <1>4, <1>5, <1>6, <1>7, <1>8 DEF Next

\* Every step keeps the row locks exclusive.
LEMMA LocksStep == Inv /\ [Next]_vars => Locks'
<1> SUFFICES ASSUME Inv, [Next]_vars PROVE Locks'
  OBVIOUS
<1> USE ConstantsAssumption, AccountTypes
    DEF Inv, TypeOK, Locks, Counted, Working, HoldsCard, HoldsApp,
        batchVars, licenseVars, accountVars, requestVars
<1>1. ASSUME NEW r \in Requests, Redemption(r) PROVE Locks'
  <2>1. ASSUME NEW c \in Cards, NEW a \in Accounts, Ask(r, c, a) PROVE Locks'
    BY <2>1 DEF Ask
  <2>2. ASSUME Redeem(r) PROVE Locks'
    BY <2>2 DEF Redeem, Ended
  <2>3. ASSUME LockCard(r) PROVE Locks'
    BY <2>3 DEF LockCard, Reached, CardFree, Holds
  <2>4. ASSUME LockBatch(r) PROVE Locks'
    BY <2>4 DEF LockBatch, Reached
  <2>5. ASSUME LockApp(r) PROVE Locks'
    BY <2>5 DEF LockApp, Reached, AppFree, Holds
  <2>6. ASSUME LockOwner(r) PROVE Locks'
    BY <2>6 DEF LockOwner, Reached
  <2>7. ASSUME Refuse(r) \/ Abort(r) PROVE Locks'
    BY <2>7 DEF Refuse, Abort, RollBack, Ended
  <2> QED
    BY <1>1, <2>1, <2>2, <2>3, <2>4, <2>5, <2>6, <2>7 DEF Redemption, Advance
<1>2. ASSUME NEW b \in Batches, OfBatch(b) PROVE Locks'
  <2>1. ASSUME BatchCreate(b) PROVE Locks'
    BY <2>1 DEF BatchCreate
  <2>2. ASSUME NEW s \in {"active", "disabled"}, BatchToggle(b, s) PROVE Locks'
    BY <2>2 DEF BatchToggle, BatchFree, Holds
  <2>3. ASSUME BatchDelete(b) PROVE Locks'
    BY <2>3 DEF BatchDelete, DeletedFirst, RowsFree, CardFree, Holds
  <2>4. ASSUME BatchDeleted(b) \/ BatchDeleteFails(b) PROVE Locks'
    BY <2>4 DEF BatchDeleted, BatchDeleteFails
  <2> QED
    BY <1>2, <2>1, <2>2, <2>3, <2>4 DEF OfBatch
<1>3. ASSUME NEW c \in Cards, OfCard(c) PROVE Locks'
  BY <1>3 DEF OfCard, CardToggle, LicenseDelete, CardFree, Holds
<1>4. ASSUME NEW a \in Accounts, AccountToggle(a) PROVE Locks'
  BY <1>4 DEF AccountToggle, AccountFree, Holds
<1>5. ASSUME NEW p \in People, UserDelete(p) PROVE Locks'
  BY <1>5 DEF UserDelete, AccountFree, Holds
<1>6. ASSUME NEW p \in People, Convert(p) PROVE Locks'
  BY <1>6 DEF Convert, AccountFree, Holds
<1>7. ASSUME AppToggle PROVE Locks'
  BY <1>7 DEF AppToggle, AppFree, Holds
<1>8. ASSUME UNCHANGED vars PROVE Locks'
  BY <1>8 DEF vars
<1> QED
  BY <1>1, <1>2, <1>3, <1>4, <1>5, <1>6, <1>7, <1>8 DEF Next

\* What a redemption has read stays so while it holds the rows.
LEMMA UsableStep == Inv /\ [Next]_vars => LockedIsUsable'
<1> SUFFICES ASSUME Inv, [Next]_vars PROVE LockedIsUsable'
  OBVIOUS
<1> USE ConstantsAssumption, AccountTypes
    DEF Inv, TypeOK, Locks, LockedIsUsable, Usable, Working, HoldsCard, HoldsBatch, HoldsApp,
        batchVars, licenseVars, accountVars, requestVars
<1>1. ASSUME NEW r \in Requests, Redemption(r) PROVE LockedIsUsable'
  <2>1. ASSUME NEW c \in Cards, NEW a \in Accounts, Ask(r, c, a) PROVE LockedIsUsable'
    BY <2>1 DEF Ask
  <2>2. ASSUME Redeem(r) PROVE LockedIsUsable'
    BY <2>2 DEF Redeem, Ended
  <2>3. ASSUME LockCard(r) PROVE LockedIsUsable'
    BY <2>3 DEF LockCard, Reached, CardFree, Holds
  <2>4. ASSUME LockBatch(r) PROVE LockedIsUsable'
    BY <2>4 DEF LockBatch, Reached
  <2>5. ASSUME LockApp(r) PROVE LockedIsUsable'
    BY <2>5 DEF LockApp, Reached, AppFree, Holds
  <2>6. ASSUME LockOwner(r) PROVE LockedIsUsable'
    BY <2>6 DEF LockOwner, Reached
  <2>7. ASSUME Refuse(r) \/ Abort(r) PROVE LockedIsUsable'
    BY <2>7 DEF Refuse, Abort, RollBack, Ended
  <2> QED
    BY <1>1, <2>1, <2>2, <2>3, <2>4, <2>5, <2>6, <2>7 DEF Redemption, Advance
<1>2. ASSUME NEW b \in Batches, OfBatch(b) PROVE LockedIsUsable'
  <2>1. ASSUME BatchCreate(b) PROVE LockedIsUsable'
    BY <2>1 DEF BatchCreate
  <2>2. ASSUME NEW s \in {"active", "disabled"}, BatchToggle(b, s) PROVE LockedIsUsable'
    BY <2>2 DEF BatchToggle, BatchFree, Holds
  <2>3. ASSUME BatchDelete(b) PROVE LockedIsUsable'
    BY <2>3 DEF BatchDelete, DeletedFirst, RowsFree, CardFree, Holds
  <2>4. ASSUME BatchDeleted(b) \/ BatchDeleteFails(b) PROVE LockedIsUsable'
    BY <2>4 DEF BatchDeleted, BatchDeleteFails
  <2> QED
    BY <1>2, <2>1, <2>2, <2>3, <2>4 DEF OfBatch
<1>3. ASSUME NEW c \in Cards, OfCard(c) PROVE LockedIsUsable'
  BY <1>3 DEF OfCard, CardToggle, LicenseDelete, CardFree, Holds
<1>4. ASSUME NEW a \in Accounts, AccountToggle(a) PROVE LockedIsUsable'
  BY <1>4 DEF AccountToggle, AccountFree, Holds
<1>5. ASSUME NEW p \in People, UserDelete(p) PROVE LockedIsUsable'
  BY <1>5 DEF UserDelete, AccountFree, Holds
<1>6. ASSUME NEW p \in People, Convert(p) PROVE LockedIsUsable'
  BY <1>6 DEF Convert, AccountFree, Holds
<1>7. ASSUME AppToggle PROVE LockedIsUsable'
  BY <1>7 DEF AppToggle, AppFree, Holds
<1>8. ASSUME UNCHANGED vars PROVE LockedIsUsable'
  BY <1>8 DEF vars
<1> QED
  BY <1>1, <1>2, <1>3, <1>4, <1>5, <1>6, <1>7, <1>8 DEF Next

\* No step issues a second license for a card.
LEMMA CountedStep == Inv /\ [Next]_vars => Counted'
<1> SUFFICES ASSUME Inv, [Next]_vars PROVE Counted'
  OBVIOUS
<1> USE ConstantsAssumption
    DEF Inv, TypeOK, Locks, LockedIsUsable, Usable, Counted, Working, HoldsCard,
        batchVars, licenseVars, accountVars, requestVars
<1>1. ASSUME NEW r \in Requests, Redemption(r) PROVE Counted'
  <2>1. ASSUME NEW c \in Cards, NEW a \in Accounts, Ask(r, c, a) PROVE Counted'
    BY <2>1 DEF Ask
  <2>2. ASSUME Redeem(r) PROVE Counted'
    BY <2>2 DEF Redeem, Ended
  <2>3. ASSUME LockCard(r) PROVE Counted'
    BY <2>3 DEF LockCard, Reached, CardFree, Holds
  <2>4. ASSUME LockBatch(r) PROVE Counted'
    BY <2>4 DEF LockBatch, Reached
  <2>5. ASSUME LockApp(r) PROVE Counted'
    BY <2>5 DEF LockApp, Reached, AppFree, Holds
  <2>6. ASSUME LockOwner(r) PROVE Counted'
    BY <2>6 DEF LockOwner, Reached
  <2>7. ASSUME Refuse(r) \/ Abort(r) PROVE Counted'
    BY <2>7 DEF Refuse, Abort, RollBack, Ended
  <2> QED
    BY <1>1, <2>1, <2>2, <2>3, <2>4, <2>5, <2>6, <2>7 DEF Redemption, Advance
<1>2. ASSUME NEW b \in Batches, OfBatch(b) PROVE Counted'
  <2>1. ASSUME BatchCreate(b) PROVE Counted'
    BY <2>1 DEF BatchCreate
  <2>2. ASSUME NEW s \in {"active", "disabled"}, BatchToggle(b, s) PROVE Counted'
    BY <2>2 DEF BatchToggle, BatchFree, Holds
  <2>3. ASSUME BatchDelete(b) PROVE Counted'
    BY <2>3 DEF BatchDelete, DeletedFirst, RowsFree, CardFree, Holds
  <2>4. ASSUME BatchDeleted(b) \/ BatchDeleteFails(b) PROVE Counted'
    BY <2>4 DEF BatchDeleted, BatchDeleteFails
  <2> QED
    BY <1>2, <2>1, <2>2, <2>3, <2>4 DEF OfBatch
<1>3. ASSUME NEW c \in Cards, OfCard(c) PROVE Counted'
  BY <1>3 DEF OfCard, CardToggle, LicenseDelete, CardFree, Holds
<1>4. ASSUME NEW a \in Accounts, AccountToggle(a) PROVE Counted'
  BY <1>4 DEF AccountToggle, AccountFree, Holds
<1>5. ASSUME NEW p \in People, UserDelete(p) PROVE Counted'
  BY <1>5 DEF UserDelete, AccountFree, Holds
<1>6. ASSUME NEW p \in People, Convert(p) PROVE Counted'
  BY <1>6 DEF Convert, AccountFree, Holds
<1>7. ASSUME AppToggle PROVE Counted'
  BY <1>7 DEF AppToggle, AppFree, Holds
<1>8. ASSUME UNCHANGED vars PROVE Counted'
  BY <1>8 DEF vars
<1> QED
  BY <1>1, <1>2, <1>3, <1>4, <1>5, <1>6, <1>7, <1>8 DEF Next

\* A converted account stays closed unless the administrator opens it.
LEMMA ClosedStep == Inv /\ [Next]_vars => ConvertedClosed'
<1> SUFFICES ASSUME Inv, [Next]_vars PROVE ConvertedClosed'
  OBVIOUS
<1> USE AccountTypes
    DEF Inv, TypeOK, ConvertedClosed,
        batchVars, licenseVars, accountVars, requestVars
<1>1. ASSUME NEW r \in Requests, Redemption(r) PROVE ConvertedClosed'
  <2>1. ASSUME NEW c \in Cards, NEW a \in Accounts, Ask(r, c, a) PROVE ConvertedClosed'
    BY <2>1 DEF Ask
  <2>2. ASSUME Redeem(r) PROVE ConvertedClosed'
    BY <2>2 DEF Redeem, Ended
  <2>3. ASSUME LockCard(r) PROVE ConvertedClosed'
    BY <2>3 DEF LockCard, Reached, CardFree, Holds
  <2>4. ASSUME LockBatch(r) PROVE ConvertedClosed'
    BY <2>4 DEF LockBatch, Reached
  <2>5. ASSUME LockApp(r) PROVE ConvertedClosed'
    BY <2>5 DEF LockApp, Reached, AppFree, Holds
  <2>6. ASSUME LockOwner(r) PROVE ConvertedClosed'
    BY <2>6 DEF LockOwner, Reached
  <2>7. ASSUME Refuse(r) \/ Abort(r) PROVE ConvertedClosed'
    BY <2>7 DEF Refuse, Abort, RollBack, Ended
  <2> QED
    BY <1>1, <2>1, <2>2, <2>3, <2>4, <2>5, <2>6, <2>7 DEF Redemption, Advance
<1>2. ASSUME NEW b \in Batches, OfBatch(b) PROVE ConvertedClosed'
  <2>1. ASSUME BatchCreate(b) PROVE ConvertedClosed'
    BY <2>1 DEF BatchCreate
  <2>2. ASSUME NEW s \in {"active", "disabled"}, BatchToggle(b, s) PROVE ConvertedClosed'
    BY <2>2 DEF BatchToggle, BatchFree, Holds
  <2>3. ASSUME BatchDelete(b) PROVE ConvertedClosed'
    BY <2>3 DEF BatchDelete, DeletedFirst, RowsFree, CardFree, Holds
  <2>4. ASSUME BatchDeleted(b) \/ BatchDeleteFails(b) PROVE ConvertedClosed'
    BY <2>4 DEF BatchDeleted, BatchDeleteFails
  <2> QED
    BY <1>2, <2>1, <2>2, <2>3, <2>4 DEF OfBatch
<1>3. ASSUME NEW c \in Cards, OfCard(c) PROVE ConvertedClosed'
  BY <1>3 DEF OfCard, CardToggle, LicenseDelete, CardFree, Holds
<1>4. ASSUME NEW a \in Accounts, AccountToggle(a) PROVE ConvertedClosed'
  BY <1>4 DEF AccountToggle, AccountFree, Holds
<1>5. ASSUME NEW p \in People, UserDelete(p) PROVE ConvertedClosed'
  BY <1>5 DEF UserDelete, AccountFree, Holds
<1>6. ASSUME NEW p \in People, Convert(p) PROVE ConvertedClosed'
  BY <1>6 DEF Convert, AccountFree, Holds
<1>7. ASSUME AppToggle PROVE ConvertedClosed'
  BY <1>7 DEF AppToggle, AppFree, Holds
<1>8. ASSUME UNCHANGED vars PROVE ConvertedClosed'
  BY <1>8 DEF vars
<1> QED
  BY <1>1, <1>2, <1>3, <1>4, <1>5, <1>6, <1>7, <1>8 DEF Next

\* Licenses stay with who redeemed them, also while he is converted.
LEMMA FollowsStep == Inv /\ [Next]_vars => FollowsRedeemer'
<1> SUFFICES ASSUME Inv, [Next]_vars PROVE FollowsRedeemer'
  OBVIOUS
<1> USE AccountTypes
    DEF Inv, TypeOK, Locks, LockedIsUsable, ConvertedClosed, FollowsRedeemer, Heir, Working,
        batchVars, licenseVars, accountVars, requestVars
<1>1. ASSUME NEW r \in Requests, Redemption(r) PROVE FollowsRedeemer'
  <2>1. ASSUME NEW c \in Cards, NEW a \in Accounts, Ask(r, c, a) PROVE FollowsRedeemer'
    BY <2>1 DEF Ask
  <2>2. ASSUME Redeem(r) PROVE FollowsRedeemer'
    BY <2>2 DEF Redeem, Ended
  <2>3. ASSUME LockCard(r) PROVE FollowsRedeemer'
    BY <2>3 DEF LockCard, Reached, CardFree, Holds
  <2>4. ASSUME LockBatch(r) PROVE FollowsRedeemer'
    BY <2>4 DEF LockBatch, Reached
  <2>5. ASSUME LockApp(r) PROVE FollowsRedeemer'
    BY <2>5 DEF LockApp, Reached, AppFree, Holds
  <2>6. ASSUME LockOwner(r) PROVE FollowsRedeemer'
    BY <2>6 DEF LockOwner, Reached
  <2>7. ASSUME Refuse(r) \/ Abort(r) PROVE FollowsRedeemer'
    BY <2>7 DEF Refuse, Abort, RollBack, Ended
  <2> QED
    BY <1>1, <2>1, <2>2, <2>3, <2>4, <2>5, <2>6, <2>7 DEF Redemption, Advance
<1>2. ASSUME NEW b \in Batches, OfBatch(b) PROVE FollowsRedeemer'
  <2>1. ASSUME BatchCreate(b) PROVE FollowsRedeemer'
    BY <2>1 DEF BatchCreate
  <2>2. ASSUME NEW s \in {"active", "disabled"}, BatchToggle(b, s) PROVE FollowsRedeemer'
    BY <2>2 DEF BatchToggle, BatchFree, Holds
  <2>3. ASSUME BatchDelete(b) PROVE FollowsRedeemer'
    BY <2>3 DEF BatchDelete, DeletedFirst, RowsFree, CardFree, Holds
  <2>4. ASSUME BatchDeleted(b) \/ BatchDeleteFails(b) PROVE FollowsRedeemer'
    BY <2>4 DEF BatchDeleted, BatchDeleteFails
  <2> QED
    BY <1>2, <2>1, <2>2, <2>3, <2>4 DEF OfBatch
<1>3. ASSUME NEW c \in Cards, OfCard(c) PROVE FollowsRedeemer'
  BY <1>3 DEF OfCard, CardToggle, LicenseDelete, CardFree, Holds
<1>4. ASSUME NEW a \in Accounts, AccountToggle(a) PROVE FollowsRedeemer'
  BY <1>4 DEF AccountToggle, AccountFree, Holds
<1>5. ASSUME NEW p \in People, UserDelete(p) PROVE FollowsRedeemer'
  BY <1>5 DEF UserDelete, AccountFree, Holds
<1>6. ASSUME NEW p \in People, Convert(p) PROVE FollowsRedeemer'
  BY <1>6 DEF Convert, AccountFree, Holds
<1>7. ASSUME AppToggle PROVE FollowsRedeemer'
  BY <1>7 DEF AppToggle, AppFree, Holds
<1>8. ASSUME UNCHANGED vars PROVE FollowsRedeemer'
  BY <1>8 DEF vars
<1> QED
  BY <1>1, <1>2, <1>3, <1>4, <1>5, <1>6, <1>7, <1>8 DEF Next

--------------------------------------------------------------------------------
(* Theorems *)

\* The conjunction is an invariant.
THEOREM InvInvariant == Spec => []Inv
<1>1. Inv /\ [Next]_vars => Inv'
  BY TypeStep, LocksStep, UsableStep, CountedStep, ClosedStep, FollowsStep DEF Inv
<1> QED
  BY InitInv, <1>1, PTL DEF Spec

\* Every variable keeps its type.
THEOREM TypeCorrect == Spec => []TypeOK
<1>1. Inv => TypeOK
  BY DEF Inv
<1> QED
  BY InvInvariant, <1>1, PTL

\* A card's license belongs to its redeemer or to what he became.
THEOREM RedeemerKeepsLicense == Spec => []FollowsRedeemer
<1>1. Inv => FollowsRedeemer
  BY DEF Inv
<1> QED
  BY InvInvariant, <1>1, PTL

\* A license is issued only while all it rests on is in force.
THEOREM OnlyWhileValid == Spec => IssuedWhileValid
<1> DEFINE Valid == \A c \in Cards : issued'[c] # issued[c] =>
        /\ card[c] = "unused"
        /\ batch[BatchOf[c]] = "active"
        /\ app
        /\ account[holder'[c]] = "enabled"
<1>1. Inv /\ [Next]_vars => Valid
  <2> SUFFICES ASSUME Inv, [Next]_vars, NEW c \in Cards, issued'[c] # issued[c]
               PROVE  /\ card[c] = "unused"
                      /\ batch[BatchOf[c]] = "active"
                      /\ app
                      /\ account[holder'[c]] = "enabled"
    OBVIOUS
  <2>1. PICK r \in Requests : Redeem(r)
    <3>1. issued' # issued
      OBVIOUS
    <3> QED
      BY <3>1
      DEF Next, Redemption, OfBatch, OfCard, Ask, Advance, LockCard, LockBatch, LockApp,
          LockOwner, Refuse, Abort, RollBack, Reached, BatchCreate, BatchToggle, BatchDelete,
          BatchDeleted, BatchDeleteFails, CardToggle, LicenseDelete, AccountToggle,
          UserDelete, Convert, AppToggle, vars, licenseVars
  <2> QED
    BY <2>1 DEF Redeem, Inv, TypeOK, LockedIsUsable, Locks, Usable, Working
<1> QED
  BY InvInvariant, <1>1, PTL DEF Spec, IssuedWhileValid

\* Cards implement OrderSettlement.
THEOREM Refinement == Spec => ImplementsPromise
<1> DEFINE state == [c \in Cards |-> State(c)]
           grants == [c \in Cards |-> GrantsOf(c)]
<1>1. Init => Promise!Init
  BY DEF Init, Promise!Init, State, GrantsOf
<1>2. Inv /\ Inv' /\ [Next]_vars => [Promise!Next]_(Promise!vars)
  <2> SUFFICES ASSUME Inv, Inv', [Next]_vars
               PROVE  [Promise!Next]_(Promise!vars)
    OBVIOUS
  <2> USE DEF Inv, TypeOK, Locks, Counted, Working
  <2>1. ASSUME issued' = issued, \A c \in Cards : State(c)' = State(c)
        PROVE  UNCHANGED Promise!vars
    BY <2>1 DEF Promise!vars, GrantsOf
  <2>2. CASE UNCHANGED <<card, issued>>
    BY <2>1, <2>2 DEF State
  <2>3. ASSUME NEW r \in Requests, Redeem(r) PROVE Promise!Next
    <3>1. PICK c \in Cards : c = wants[r] /\ card[c] = "unused" /\ issued[c] = 0
      BY <2>3 DEF Redeem
    <3>2. state' = [state EXCEPT ![c] = "granted"] /\ state[c] = "open"
      <4>1. /\ card' = [card EXCEPT ![c] = "redeemed"]
            /\ issued' = [issued EXCEPT ![c] = 1]
        BY <2>3, <3>1 DEF Redeem
      <4>2. state[c] = "open"
        BY <3>1 DEF State
      <4>3. \A d \in Cards : State(d)' = IF d = c THEN "granted" ELSE State(d)
        BY <3>1, <4>1 DEF State
      <4>4. state' = [d \in Cards |-> IF d = c THEN "granted" ELSE state[d]]
        BY <4>3
      <4> HIDE DEF state
      <4>5. state \in [Cards -> {"none", "open", "granted", "closed"}]
        BY DEF state, State
      <4>6. [state EXCEPT ![c] = "granted"] = [d \in Cards |-> IF d = c THEN "granted" ELSE state[d]]
        BY <4>5
      <4> QED
        BY <4>2, <4>4, <4>6
    <3>3. grants' = [grants EXCEPT ![c] = @ + 1]
      BY <2>3, <3>1 DEF Redeem, GrantsOf
    <3>4. Promise!Grant(c)
      BY <3>1, <3>2, <3>3 DEF Promise!Grant
    <3> QED
      BY <3>1, <3>4 DEF Promise!Next
  <2>4. ASSUME NEW b \in Batches, BatchCreate(b) PROVE [Promise!Next]_(Promise!vars)
    <3> DEFINE S == {c \in Cards : BatchOf[c] = b}
    <3>1. /\ state' = [c \in Cards |-> IF c \in S THEN "open" ELSE state[c]]
          /\ \A c \in S : state[c] = "none"
      BY <2>4 DEF BatchCreate, State
    <3>2. grants' = grants
      BY <2>4 DEF BatchCreate, GrantsOf, licenseVars
    <3>3. CASE S = {}
      BY <3>1, <3>2, <3>3 DEF Promise!vars
    <3>4. CASE S # {}
      <4>1. Promise!Open(S)
        BY <3>1, <3>2, <3>4 DEF Promise!Open
      <4> QED
        BY <4>1 DEF Promise!Next
    <3> QED
      BY <3>3, <3>4
  <2>5. ASSUME NEW b \in Batches, BatchDeleted(b) PROVE [Promise!Next]_(Promise!vars)
    <3> DEFINE S == {c \in Cards : BatchOf[c] = b /\ card[c] \in {"unused", "disabled"}}
    <3>1. /\ state' = [c \in Cards |-> IF c \in S THEN "closed" ELSE state[c]]
          /\ \A c \in S : state[c] = "open"
      <4>1. \A c \in Cards : BatchOf[c] = b => card[c] \in {"unused", "disabled", "redeemed"}
        BY <2>5 DEF BatchDeleted
      <4>2. \A c \in S : State(c) = "open" /\ State(c)' = "closed"
        BY <2>5 DEF BatchDeleted, State, licenseVars
      <4>3. \A c \in Cards : c \notin S => State(c)' = State(c)
        <5> SUFFICES ASSUME NEW c \in Cards, c \notin S PROVE State(c)' = State(c)
          OBVIOUS
        <5>1. CASE BatchOf[c] # b
          BY <2>5, <5>1 DEF BatchDeleted, State, licenseVars
        <5>2. CASE card[c] = "redeemed" /\ BatchOf[c] = b
          <6>1. issued[c] = 1 /\ issued' = issued /\ card'[c] = "deleted"
            BY <2>5, <5>2 DEF BatchDeleted, licenseVars
          <6> QED
            BY <5>2, <6>1 DEF State
        <5> QED
          BY <4>1, <5>1, <5>2
      <4> QED
        BY <4>2, <4>3
    <3>2. grants' = grants
      BY <2>5 DEF BatchDeleted, GrantsOf, licenseVars
    <3>3. CASE S = {}
      BY <3>1, <3>2, <3>3 DEF Promise!vars
    <3>4. CASE S # {}
      <4>1. Promise!Close(S)
        BY <3>1, <3>2, <3>4 DEF Promise!Close
      <4> QED
        BY <4>1 DEF Promise!Next
    <3> QED
      BY <3>3, <3>4
  <2>6. ASSUME NEW c \in Cards, OfCard(c) PROVE UNCHANGED Promise!vars
    <3>1. issued' = issued /\ \A d \in Cards : State(d)' = State(d)
      BY <2>6 DEF OfCard, CardToggle, LicenseDelete, State, licenseVars, batchVars
    <3> QED
      BY <3>1, <2>1
  <2>7. ASSUME NEW r \in Requests, Redemption(r), ~Redeem(r)
        PROVE  UNCHANGED <<card, issued>>
    BY <2>7 DEF Redemption, Ask, Advance, LockCard, LockBatch, LockApp, LockOwner, Reached,
                Refuse, Abort, RollBack, batchVars, licenseVars
  <2>8. ASSUME NEW b \in Batches, OfBatch(b), ~BatchCreate(b), ~BatchDeleted(b)
        PROVE  UNCHANGED <<card, issued>>
    BY <2>8 DEF OfBatch, BatchToggle, BatchDelete, BatchDeleteFails, licenseVars
  <2>9. ASSUME \/ \E a \in Accounts : AccountToggle(a)
               \/ \E p \in People : UserDelete(p) \/ Convert(p)
               \/ AppToggle \/ UNCHANGED vars
        PROVE  UNCHANGED <<card, issued>>
    BY <2>9 DEF AccountToggle, UserDelete, Convert, AppToggle, vars, batchVars, licenseVars
  <2> QED
    BY <2>2, <2>3, <2>4, <2>5, <2>6, <2>7, <2>8, <2>9 DEF Next
<1> QED
  BY InvInvariant, <1>1, <1>2, PTL DEF Spec, ImplementsPromise, Promise!Spec
================================================================================
