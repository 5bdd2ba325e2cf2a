-------------------------- MODULE AccountUpgradeProofs --------------------------
(***************************************************************************)
(* Theorems about AccountUpgrade, for any number of users, orders and      *)
(* amounts.  The row lock of a user is one transaction's; who has it has   *)
(* seen the user unconverted and, when it creates an order, without an     *)
(* unfinished one.  Agents, completed orders and converted users are then  *)
(* made together and once, and the money adds up because the balance that  *)
(* the conversion read early is still the one that it clears.  What it     *)
(* counted had been paid or given up, which no later step takes back.      *)
(***************************************************************************)
EXTENDS AccountUpgrade, FiniteSetTheorems, TLAPS

\* How far an order is, by its handler, its row, its bill and its settlement.
Phases ==
  \A o \in Upgrades :
    /\ pc[o] = "idle" <=> req[o] = NoRequest
    /\ pc[o] \in {"idle", "locked"} => status[o] = "none"
    /\ status[o] = "none" => bill[o] = "none"
    /\ pc[o] = "gateway" => bill[o] = "none" /\ status[o] # "none"
    /\ settling[o] # "none" => status[o] = "paid"
    /\ status[o] \notin {"none", "completed"} => req[o].method = "online"

\* The order's transaction has the row of its user.
Holds(o) == pc[o] = "locked" \/ settling[o] = "user"

\* A user's row is locked by one transaction, while it is not converted; a new order is
\* made only where none is unfinished.
Locks ==
  /\ \A o, p \in Upgrades : Holds(o) /\ Holds(p) /\ req[o].user = req[p].user => o = p
  /\ \A o \in Upgrades : Holds(o) => req[o].user \notin converted
  /\ \A o, p \in Upgrades :
       pc[o] = "locked" /\ req[o].user = req[p].user => status[p] \notin {"pending", "paid"}
  /\ \A o, p \in Upgrades :
       status[o] \in {"pending", "paid"} /\ status[p] \in {"pending", "paid"}
         /\ req[o].user = req[p].user => o = p

\* Agents, converted users and completed orders belong together, one to one.
Agents ==
  /\ \A a \in agents : /\ a.user \in converted
                       /\ status[a.order] = "completed"
                       /\ req[a.order].user = a.user
  /\ \A u \in converted : \E a \in agents : a.user = u
  /\ \A a, b \in agents : a.user = b.user => a = b
  /\ \A o \in Upgrades : status[o] = "completed" => \E a \in agents : a.order = o

\* The balance read with the lock is the user's as long as the lock is held.
Reads == \A o \in Upgrades : Holds(o) => seen[o] = balance[req[o].user]

\* The transaction has counted, and found nothing to pay.
Cleared(o) == settling[o] = "user" \/ (pc[o] = "locked" /\ req[o].method = "balance")

\* What was counted is over, and moves with the conversion.
Behind ==
  \A o \in Upgrades, s \in Sides :
    /\ (Cleared(o) \/ status[o] = "completed") /\ s \in counted[o]
         => side[s].user = req[o].user /\ sideStatus[s] \in {"paid", "cancelled"}
    /\ status[o] = "completed" /\ s \in counted[o] => owner[s] # "user"

Safe == TypeOK /\ Phases /\ Locks /\ Agents /\ Reads /\ Behind

--------------------------------------------------------------------------------
(* Steps *)

\* The invariant holds at the start.
LEMMA InitSafe == Init => Safe
BY ConstantsAssumption DEF Init, Safe, TypeOK, Phases, Locks, Agents, Reads, Behind, Cleared, Holds, NoRequest, NoSide, Methods

\* The conversion makes one agent, of a user that had none.
LEMMA ConvertKeepsAgents == ASSUME Safe, NEW o \in Upgrades, Holds(o), Convert(o)
                            PROVE  Agents'
<1> DEFINE u == req[o].user
           new == [user |-> u, order |-> o, balance |-> (seen[o] - FeeOf(o)) + Bonus]
<1>1. /\ agents' = agents \cup {new} /\ new.user = u /\ new.order = o
      /\ converted' = converted \cup {u}
      /\ req' = req
  BY DEF Convert
<1>2. status'[o] = "completed" /\ \A p \in Upgrades : p # o => status'[p] = status[p]
  BY DEF Convert, Safe, TypeOK
<1>3. u \notin converted /\ \A a \in agents : a.user \in converted /\ a.order \in Upgrades
  BY DEF Safe, TypeOK, Locks, Agents
<1> HIDE DEF new
<1>4. \A a \in agents : a.user # u /\ a.order # o
  <2>1. status[o] # "completed"
    BY DEF Safe, TypeOK, Phases, Holds
  <2> QED
    BY <1>3, <2>1 DEF Safe, Agents
<1>5. \A a \in agents' : /\ a.user \in converted'
                         /\ status'[a.order] = "completed"
                         /\ req'[a.order].user = a.user
  BY <1>1, <1>2, <1>3, <1>4 DEF Safe, Agents
<1>6. \A v \in converted' : \E a \in agents' : a.user = v
  BY <1>1 DEF Safe, Agents
<1>7. \A a, b \in agents' : a.user = b.user => a = b
  BY <1>1, <1>4 DEF Safe, Agents
<1>8. \A p \in Upgrades : status'[p] = "completed" => \E a \in agents' : a.order = p
  BY <1>1, <1>2 DEF Safe, Agents
<1> QED
  BY <1>5, <1>6, <1>7, <1>8 DEF Agents

\* Every step keeps the types; a transfer is not negative.
LEMMA TypeStep == Safe /\ [Next]_vars => TypeOK'
<1> SUFFICES ASSUME Safe, [Next]_vars PROVE TypeOK'
  OBVIOUS
<1> USE ConstantsAssumption
    DEF Safe, TypeOK, Phases, Holds, NoRequest, NoSide, Methods, Kinds, accountVars,
        orderVars, readVars, sideVars, adminVars, ReadAll, Forget, Fits
<1>1. ASSUME NEW o \in Upgrades, NEW u \in Users, NEW m \in Methods, Create(o, u, m)
     PROVE  TypeOK'
  BY <1>1 DEF Create, UserRowFree, OrdersOf, Active, ActiveOrders, PlacedSides, SidesOf
<1>2. ASSUME NEW o \in Upgrades, CommitOnline(o)
     PROVE  TypeOK'
  BY <1>2 DEF CommitOnline
<1>3. ASSUME NEW o \in Upgrades, CreateAbort(o)
     PROVE  TypeOK'
  BY <1>3 DEF CreateAbort
<1>4. ASSUME NEW o \in Upgrades, ConvertFromBalance(o)
     PROVE  TypeOK'
  BY <1>4 DEF ConvertFromBalance, Convert, Affordable, FeeOf, Migrated
<1>5. ASSUME NEW o \in Upgrades, GatewayAccepts(o)
     PROVE  TypeOK'
  BY <1>5 DEF GatewayAccepts
<1>6. ASSUME NEW o \in Upgrades, GatewayRefuses(o)
     PROVE  TypeOK'
  BY <1>6 DEF GatewayRefuses, OrderRowFree
<1>7. ASSUME NEW o \in Upgrades, Cancel(o)
     PROVE  TypeOK'
  BY <1>7 DEF Cancel, OrderRowFree
<1>8. ASSUME NEW o \in Upgrades, Pay(o)
     PROVE  TypeOK'
  BY <1>8 DEF Pay
<1>9. ASSUME NEW o \in Upgrades, RecordPayment(o)
     PROVE  TypeOK'
  BY <1>9 DEF RecordPayment, OrderRowFree
<1>10. ASSUME NEW o \in Upgrades, SettleBegin(o)
      PROVE  TypeOK'
  BY <1>10 DEF SettleBegin, OrderRowFree
<1>11. ASSUME NEW o \in Upgrades, SettleLockUser(o)
      PROVE  TypeOK'
  BY <1>11 DEF SettleLockUser, UserRowFree, OrdersOf, Active, PlacedSides, SidesOf
<1>12. ASSUME NEW o \in Upgrades, SettleRefused(o) \/ SettleAbort(o)
      PROVE  TypeOK'
  BY <1>12 DEF SettleRefused, SettleAbort
<1>13. ASSUME NEW o \in Upgrades, ConvertPaid(o)
      PROVE  TypeOK'
  BY <1>13 DEF ConvertPaid, Convert, Affordable, FeeOf, Migrated
<1>14. ASSUME NEW s \in Sides, NEW u \in Users, NEW k \in Kinds, SideAsk(s, u, k)
      PROVE  TypeOK'
  BY <1>14 DEF SideAsk
<1>15. ASSUME NEW s \in Sides, SideInsert(s) \/ ExpirePurchase(s)
      PROVE  TypeOK'
  BY <1>15 DEF SideInsert, ExpirePurchase
<1>16. ASSUME NEW s \in Sides, SettlePurchase(s)
      PROVE  TypeOK'
  BY <1>16 DEF SettlePurchase
<1>17. ASSUME NEW s \in Sides, SettleRecharge(s)
      PROVE  TypeOK'
  BY <1>17 DEF SettleRecharge
<1>18. ASSUME NEW s \in Sides, BuyFromBalance(s)
      PROVE  TypeOK'
  BY <1>18 DEF BuyFromBalance
<1>19. ASSUME NEW u \in Users, ToggleEnabled(u) \/ SwitchClash(u)
      PROVE  TypeOK'
  BY <1>19 DEF ToggleEnabled, SwitchClash
<1>20. ASSUME UNCHANGED vars
      PROVE  TypeOK'
  BY <1>20 DEF vars
<1> HIDE DEF Safe, TypeOK, Phases, Holds, NoRequest, NoSide, Methods, Kinds, accountVars,
        orderVars, readVars, sideVars, adminVars, ReadAll, Forget, Fits
<1>21. ASSUME NEW o \in Upgrades, Upgrade(o) PROVE TypeOK'
  BY <1>21, <1>1, <1>2, <1>3, <1>4, <1>5, <1>6, <1>7, <1>8 DEF Upgrade
<1>22. ASSUME NEW o \in Upgrades, Callback(o) PROVE TypeOK'
  BY <1>22, <1>9, <1>10, <1>11, <1>12, <1>13 DEF Callback
<1>23. ASSUME NEW s \in Sides, SideOrder(s) PROVE TypeOK'
  BY <1>23, <1>14, <1>15, <1>16, <1>17, <1>18 DEF SideOrder
<1> QED
  BY <1>21, <1>22, <1>23, <1>19, <1>20 DEF Next

\* Every step keeps handlers, rows and bills in agreement.
LEMMA PhasesStep == Safe /\ [Next]_vars => Phases'
<1> SUFFICES ASSUME Safe, [Next]_vars PROVE Phases'
  OBVIOUS
<1> USE ConstantsAssumption
    DEF Safe, TypeOK, Phases, Holds, NoRequest, NoSide, Methods, Kinds, accountVars,
        orderVars, readVars, sideVars, adminVars, ReadAll, Forget, Fits
<1>1. ASSUME NEW o \in Upgrades, NEW u \in Users, NEW m \in Methods, Create(o, u, m)
     PROVE  Phases'
  BY <1>1 DEF Create, UserRowFree, OrdersOf, Active, ActiveOrders
<1>2. ASSUME NEW o \in Upgrades, CommitOnline(o)
     PROVE  Phases'
  BY <1>2 DEF CommitOnline
<1>3. ASSUME NEW o \in Upgrades, CreateAbort(o)
     PROVE  Phases'
  BY <1>3 DEF CreateAbort
<1>4. ASSUME NEW o \in Upgrades, ConvertFromBalance(o)
     PROVE  Phases'
  BY <1>4 DEF ConvertFromBalance, Convert, Affordable, FeeOf, Migrated
<1>5. ASSUME NEW o \in Upgrades, GatewayAccepts(o)
     PROVE  Phases'
  BY <1>5 DEF GatewayAccepts
<1>6. ASSUME NEW o \in Upgrades, GatewayRefuses(o)
     PROVE  Phases'
  BY <1>6 DEF GatewayRefuses, OrderRowFree
<1>7. ASSUME NEW o \in Upgrades, Cancel(o)
     PROVE  Phases'
  BY <1>7 DEF Cancel, OrderRowFree
<1>8. ASSUME NEW o \in Upgrades, Pay(o)
     PROVE  Phases'
  BY <1>8 DEF Pay
<1>9. ASSUME NEW o \in Upgrades, RecordPayment(o)
     PROVE  Phases'
  BY <1>9 DEF RecordPayment, OrderRowFree
<1>10. ASSUME NEW o \in Upgrades, SettleBegin(o)
      PROVE  Phases'
  BY <1>10 DEF SettleBegin, OrderRowFree
<1>11. ASSUME NEW o \in Upgrades, SettleLockUser(o)
      PROVE  Phases'
  BY <1>11 DEF SettleLockUser, UserRowFree, OrdersOf, Active
<1>12. ASSUME NEW o \in Upgrades, SettleRefused(o) \/ SettleAbort(o)
      PROVE  Phases'
  BY <1>12 DEF SettleRefused, SettleAbort
<1>13. ASSUME NEW o \in Upgrades, ConvertPaid(o)
      PROVE  Phases'
  BY <1>13 DEF ConvertPaid, Convert, Affordable, FeeOf, Migrated
<1>14. ASSUME NEW s \in Sides, NEW u \in Users, NEW k \in Kinds, SideAsk(s, u, k)
      PROVE  Phases'
  BY <1>14 DEF SideAsk
<1>15. ASSUME NEW s \in Sides, SideInsert(s) \/ ExpirePurchase(s)
      PROVE  Phases'
  BY <1>15 DEF SideInsert, ExpirePurchase
<1>16. ASSUME NEW s \in Sides, SettlePurchase(s)
      PROVE  Phases'
  BY <1>16 DEF SettlePurchase
<1>17. ASSUME NEW s \in Sides, SettleRecharge(s)
      PROVE  Phases'
  BY <1>17 DEF SettleRecharge
<1>18. ASSUME NEW s \in Sides, BuyFromBalance(s)
      PROVE  Phases'
  BY <1>18 DEF BuyFromBalance
<1>19. ASSUME NEW u \in Users, ToggleEnabled(u) \/ SwitchClash(u)
      PROVE  Phases'
  BY <1>19 DEF ToggleEnabled, SwitchClash
<1>20. ASSUME UNCHANGED vars
      PROVE  Phases'
  BY <1>20 DEF vars
<1> HIDE DEF Safe, TypeOK, Phases, Holds, NoRequest, NoSide, Methods, Kinds, accountVars,
        orderVars, readVars, sideVars, adminVars, ReadAll, Forget, Fits
<1>21. ASSUME NEW o \in Upgrades, Upgrade(o) PROVE Phases'
  BY <1>21, <1>1, <1>2, <1>3, <1>4, <1>5, <1>6, <1>7, <1>8 DEF Upgrade
<1>22. ASSUME NEW o \in Upgrades, Callback(o) PROVE Phases'
  BY <1>22, <1>9, <1>10, <1>11, <1>12, <1>13 DEF Callback
<1>23. ASSUME NEW s \in Sides, SideOrder(s) PROVE Phases'
  BY <1>23, <1>14, <1>15, <1>16, <1>17, <1>18 DEF SideOrder
<1> QED
  BY <1>21, <1>22, <1>23, <1>19, <1>20 DEF Next

\* Every step keeps a user's row with one transaction.
LEMMA LocksStep == Safe /\ [Next]_vars => Locks'
<1> SUFFICES ASSUME Safe, [Next]_vars PROVE Locks'
  OBVIOUS
<1> USE ConstantsAssumption
    DEF Safe, TypeOK, Phases, Locks, Holds, NoRequest, NoSide, Methods, Kinds,
        accountVars, orderVars, readVars, sideVars, adminVars, ReadAll, Forget, Fits
<1>1. ASSUME NEW o \in Upgrades, NEW u \in Users, NEW m \in Methods, Create(o, u, m)
     PROVE  Locks'
  BY <1>1 DEF Create, UserRowFree, OrdersOf, Active, ActiveOrders
<1>2. ASSUME NEW o \in Upgrades, CommitOnline(o)
     PROVE  Locks'
  BY <1>2 DEF CommitOnline
<1>3. ASSUME NEW o \in Upgrades, CreateAbort(o)
     PROVE  Locks'
  BY <1>3 DEF CreateAbort
<1>4. ASSUME NEW o \in Upgrades, ConvertFromBalance(o)
     PROVE  Locks'
  BY <1>4 DEF ConvertFromBalance, Convert, Affordable, FeeOf, Migrated
<1>5. ASSUME NEW o \in Upgrades, GatewayAccepts(o)
     PROVE  Locks'
  BY <1>5 DEF GatewayAccepts
<1>6. ASSUME NEW o \in Upgrades, GatewayRefuses(o)
     PROVE  Locks'
  BY <1>6 DEF GatewayRefuses, OrderRowFree
<1>7. ASSUME NEW o \in Upgrades, Cancel(o)
     PROVE  Locks'
  BY <1>7 DEF Cancel, OrderRowFree
<1>8. ASSUME NEW o \in Upgrades, Pay(o)
     PROVE  Locks'
  BY <1>8 DEF Pay
<1>9. ASSUME NEW o \in Upgrades, RecordPayment(o)
     PROVE  Locks'
  BY <1>9 DEF RecordPayment, OrderRowFree
<1>10. ASSUME NEW o \in Upgrades, SettleBegin(o)
      PROVE  Locks'
  BY <1>10 DEF SettleBegin, OrderRowFree
<1>11. ASSUME NEW o \in Upgrades, SettleLockUser(o)
      PROVE  Locks'
  BY <1>11 DEF SettleLockUser, UserRowFree, OrdersOf, Active
<1>12. ASSUME NEW o \in Upgrades, SettleRefused(o) \/ SettleAbort(o)
      PROVE  Locks'
  BY <1>12 DEF SettleRefused, SettleAbort
<1>13. ASSUME NEW o \in Upgrades, ConvertPaid(o)
      PROVE  Locks'
  BY <1>13 DEF ConvertPaid, Convert, Affordable, FeeOf, Migrated
<1>14. ASSUME NEW s \in Sides, NEW u \in Users, NEW k \in Kinds, SideAsk(s, u, k)
      PROVE  Locks'
  BY <1>14 DEF SideAsk
<1>15. ASSUME NEW s \in Sides, SideInsert(s) \/ ExpirePurchase(s)
      PROVE  Locks'
  BY <1>15 DEF SideInsert, ExpirePurchase
<1>16. ASSUME NEW s \in Sides, SettlePurchase(s)
      PROVE  Locks'
  BY <1>16 DEF SettlePurchase
<1>17. ASSUME NEW s \in Sides, SettleRecharge(s)
      PROVE  Locks'
  BY <1>17 DEF SettleRecharge
<1>18. ASSUME NEW s \in Sides, BuyFromBalance(s)
      PROVE  Locks'
  BY <1>18 DEF BuyFromBalance
<1>19. ASSUME NEW u \in Users, ToggleEnabled(u) \/ SwitchClash(u)
      PROVE  Locks'
  BY <1>19 DEF ToggleEnabled, SwitchClash
<1>20. ASSUME UNCHANGED vars
      PROVE  Locks'
  BY <1>20 DEF vars
<1> HIDE DEF Safe, TypeOK, Phases, Locks, Holds, NoRequest, NoSide, Methods, Kinds,
        accountVars, orderVars, readVars, sideVars, adminVars, ReadAll, Forget, Fits
<1>21. ASSUME NEW o \in Upgrades, Upgrade(o) PROVE Locks'
  BY <1>21, <1>1, <1>2, <1>3, <1>4, <1>5, <1>6, <1>7, <1>8 DEF Upgrade
<1>22. ASSUME NEW o \in Upgrades, Callback(o) PROVE Locks'
  BY <1>22, <1>9, <1>10, <1>11, <1>12, <1>13 DEF Callback
<1>23. ASSUME NEW s \in Sides, SideOrder(s) PROVE Locks'
  BY <1>23, <1>14, <1>15, <1>16, <1>17, <1>18 DEF SideOrder
<1> QED
  BY <1>21, <1>22, <1>23, <1>19, <1>20 DEF Next

\* Every step keeps agents, users and orders in agreement.
LEMMA AgentsStep == Safe /\ [Next]_vars => Agents'
<1> SUFFICES ASSUME Safe, [Next]_vars PROVE Agents'
  OBVIOUS
<1> USE ConstantsAssumption
    DEF Safe, TypeOK, Phases, Locks, Agents, Holds, NoRequest, NoSide, Methods,
        Kinds, accountVars, orderVars, readVars, sideVars, adminVars, ReadAll, Forget, Fits
<1>1. ASSUME NEW o \in Upgrades, NEW u \in Users, NEW m \in Methods, Create(o, u, m)
     PROVE  Agents'
  BY <1>1 DEF Create, UserRowFree, OrdersOf, Active, ActiveOrders
<1>2. ASSUME NEW o \in Upgrades, CommitOnline(o)
     PROVE  Agents'
  BY <1>2 DEF CommitOnline
<1>3. ASSUME NEW o \in Upgrades, CreateAbort(o)
     PROVE  Agents'
  BY <1>3 DEF CreateAbort
<1>4. ASSUME NEW o \in Upgrades, ConvertFromBalance(o)
     PROVE  Agents'
  BY <1>4, ConvertKeepsAgents DEF ConvertFromBalance
<1>5. ASSUME NEW o \in Upgrades, GatewayAccepts(o)
     PROVE  Agents'
  BY <1>5 DEF GatewayAccepts
<1>6. ASSUME NEW o \in Upgrades, GatewayRefuses(o)
     PROVE  Agents'
  BY <1>6 DEF GatewayRefuses, OrderRowFree
<1>7. ASSUME NEW o \in Upgrades, Cancel(o)
     PROVE  Agents'
  BY <1>7 DEF Cancel, OrderRowFree
<1>8. ASSUME NEW o \in Upgrades, Pay(o)
     PROVE  Agents'
  BY <1>8 DEF Pay
<1>9. ASSUME NEW o \in Upgrades, RecordPayment(o)
     PROVE  Agents'
  BY <1>9 DEF RecordPayment, OrderRowFree
<1>10. ASSUME NEW o \in Upgrades, SettleBegin(o)
      PROVE  Agents'
  BY <1>10 DEF SettleBegin, OrderRowFree
<1>11. ASSUME NEW o \in Upgrades, SettleLockUser(o)
      PROVE  Agents'
  BY <1>11 DEF SettleLockUser, UserRowFree, OrdersOf, Active
<1>12. ASSUME NEW o \in Upgrades, SettleRefused(o) \/ SettleAbort(o)
      PROVE  Agents'
  BY <1>12 DEF SettleRefused, SettleAbort
<1>13. ASSUME NEW o \in Upgrades, ConvertPaid(o)
      PROVE  Agents'
  BY <1>13, ConvertKeepsAgents DEF ConvertPaid
<1>14. ASSUME NEW s \in Sides, NEW u \in Users, NEW k \in Kinds, SideAsk(s, u, k)
      PROVE  Agents'
  BY <1>14 DEF SideAsk
<1>15. ASSUME NEW s \in Sides, SideInsert(s) \/ ExpirePurchase(s)
      PROVE  Agents'
  BY <1>15 DEF SideInsert, ExpirePurchase
<1>16. ASSUME NEW s \in Sides, SettlePurchase(s)
      PROVE  Agents'
  BY <1>16 DEF SettlePurchase
<1>17. ASSUME NEW s \in Sides, SettleRecharge(s)
      PROVE  Agents'
  BY <1>17 DEF SettleRecharge
<1>18. ASSUME NEW s \in Sides, BuyFromBalance(s)
      PROVE  Agents'
  BY <1>18 DEF BuyFromBalance
<1>19. ASSUME NEW u \in Users, ToggleEnabled(u) \/ SwitchClash(u)
      PROVE  Agents'
  BY <1>19 DEF ToggleEnabled, SwitchClash
<1>20. ASSUME UNCHANGED vars
      PROVE  Agents'
  BY <1>20 DEF vars
<1> HIDE DEF Safe, TypeOK, Phases, Locks, Agents, Holds, NoRequest, NoSide, Methods,
        Kinds, accountVars, orderVars, readVars, sideVars, adminVars, ReadAll, Forget, Fits
<1>21. ASSUME NEW o \in Upgrades, Upgrade(o) PROVE Agents'
  BY <1>21, <1>1, <1>2, <1>3, <1>4, <1>5, <1>6, <1>7, <1>8 DEF Upgrade
<1>22. ASSUME NEW o \in Upgrades, Callback(o) PROVE Agents'
  BY <1>22, <1>9, <1>10, <1>11, <1>12, <1>13 DEF Callback
<1>23. ASSUME NEW s \in Sides, SideOrder(s) PROVE Agents'
  BY <1>23, <1>14, <1>15, <1>16, <1>17, <1>18 DEF SideOrder
<1> QED
  BY <1>21, <1>22, <1>23, <1>19, <1>20 DEF Next

\* Every step keeps the balance that a transaction has read.
LEMMA ReadsStep == Safe /\ [Next]_vars => Reads'
<1> SUFFICES ASSUME Safe, [Next]_vars PROVE Reads'
  OBVIOUS
<1> USE ConstantsAssumption
    DEF Safe, TypeOK, Phases, Locks, Reads, Holds, NoRequest, NoSide, Methods, Kinds, accountVars,
        orderVars, readVars, sideVars, adminVars, ReadAll, Forget, Fits
<1>1. ASSUME NEW o \in Upgrades, NEW u \in Users, NEW m \in Methods, Create(o, u, m)
     PROVE  Reads'
  BY <1>1 DEF Create, UserRowFree, OrdersOf, Active, ActiveOrders
<1>2. ASSUME NEW o \in Upgrades, CommitOnline(o)
     PROVE  Reads'
  BY <1>2 DEF CommitOnline
<1>3. ASSUME NEW o \in Upgrades, CreateAbort(o)
     PROVE  Reads'
  BY <1>3 DEF CreateAbort
<1>4. ASSUME NEW o \in Upgrades, ConvertFromBalance(o)
     PROVE  Reads'
  BY <1>4 DEF ConvertFromBalance, Convert, Affordable, FeeOf, Migrated
<1>5. ASSUME NEW o \in Upgrades, GatewayAccepts(o)
     PROVE  Reads'
  BY <1>5 DEF GatewayAccepts
<1>6. ASSUME NEW o \in Upgrades, GatewayRefuses(o)
     PROVE  Reads'
  BY <1>6 DEF GatewayRefuses, OrderRowFree
<1>7. ASSUME NEW o \in Upgrades, Cancel(o)
     PROVE  Reads'
  BY <1>7 DEF Cancel, OrderRowFree
<1>8. ASSUME NEW o \in Upgrades, Pay(o)
     PROVE  Reads'
  BY <1>8 DEF Pay
<1>9. ASSUME NEW o \in Upgrades, RecordPayment(o)
     PROVE  Reads'
  BY <1>9 DEF RecordPayment, OrderRowFree
<1>10. ASSUME NEW o \in Upgrades, SettleBegin(o)
      PROVE  Reads'
  BY <1>10 DEF SettleBegin, OrderRowFree
<1>11. ASSUME NEW o \in Upgrades, SettleLockUser(o)
      PROVE  Reads'
  BY <1>11 DEF SettleLockUser, UserRowFree, OrdersOf, Active
<1>12. ASSUME NEW o \in Upgrades, SettleRefused(o) \/ SettleAbort(o)
      PROVE  Reads'
  BY <1>12 DEF SettleRefused, SettleAbort
<1>13. ASSUME NEW o \in Upgrades, ConvertPaid(o)
      PROVE  Reads'
  BY <1>13 DEF ConvertPaid, Convert, Affordable, FeeOf, Migrated
<1>14. ASSUME NEW s \in Sides, NEW u \in Users, NEW k \in Kinds, SideAsk(s, u, k)
      PROVE  Reads'
  BY <1>14 DEF SideAsk
<1>15. ASSUME NEW s \in Sides, SideInsert(s) \/ ExpirePurchase(s)
      PROVE  Reads'
  BY <1>15 DEF SideInsert, ExpirePurchase
<1>16. ASSUME NEW s \in Sides, SettlePurchase(s)
      PROVE  Reads'
  BY <1>16 DEF SettlePurchase
<1>17. ASSUME NEW s \in Sides, SettleRecharge(s)
      PROVE  Reads'
  BY <1>17 DEF SettleRecharge, UserRowFree, OrdersOf
<1>18. ASSUME NEW s \in Sides, BuyFromBalance(s)
      PROVE  Reads'
  BY <1>18 DEF BuyFromBalance, UserRowFree, OrdersOf
<1>19. ASSUME NEW u \in Users, ToggleEnabled(u) \/ SwitchClash(u)
      PROVE  Reads'
  BY <1>19 DEF ToggleEnabled, SwitchClash
<1>20. ASSUME UNCHANGED vars
      PROVE  Reads'
  BY <1>20 DEF vars
<1> HIDE DEF Safe, TypeOK, Phases, Locks, Reads, Holds, NoRequest, NoSide, Methods, Kinds, accountVars,
        orderVars, readVars, sideVars, adminVars, ReadAll, Forget, Fits
<1>21. ASSUME NEW o \in Upgrades, Upgrade(o) PROVE Reads'
  BY <1>21, <1>1, <1>2, <1>3, <1>4, <1>5, <1>6, <1>7, <1>8 DEF Upgrade
<1>22. ASSUME NEW o \in Upgrades, Callback(o) PROVE Reads'
  BY <1>22, <1>9, <1>10, <1>11, <1>12, <1>13 DEF Callback
<1>23. ASSUME NEW s \in Sides, SideOrder(s) PROVE Reads'
  BY <1>23, <1>14, <1>15, <1>16, <1>17, <1>18 DEF SideOrder
<1> QED
  BY <1>21, <1>22, <1>23, <1>19, <1>20 DEF Next

\* Every step leaves alone what was counted, but for moving it to the agent.
LEMMA BehindStep == Safe /\ [Next]_vars => Behind'
<1> SUFFICES ASSUME Safe, [Next]_vars PROVE Behind'
  OBVIOUS
<1> USE ConstantsAssumption
    DEF Safe, TypeOK, Phases, Behind, Cleared, Holds, NoRequest, NoSide, Methods, Kinds, accountVars,
        orderVars, readVars, sideVars, adminVars, ReadAll, Forget, Fits
<1>1. ASSUME NEW o \in Upgrades, NEW u \in Users, NEW m \in Methods, Create(o, u, m)
     PROVE  Behind'
  BY <1>1 DEF Create, UserRowFree, OrdersOf, Active, ActiveOrders, Convertible, PendingSides, PlacedSides, SidesOf
<1>2. ASSUME NEW o \in Upgrades, CommitOnline(o)
     PROVE  Behind'
  BY <1>2 DEF CommitOnline
<1>3. ASSUME NEW o \in Upgrades, CreateAbort(o)
     PROVE  Behind'
  BY <1>3 DEF CreateAbort
<1>4. ASSUME NEW o \in Upgrades, ConvertFromBalance(o)
     PROVE  Behind'
  BY <1>4 DEF ConvertFromBalance, Convert, Affordable, FeeOf, Migrated, SidesOf
<1>5. ASSUME NEW o \in Upgrades, GatewayAccepts(o)
     PROVE  Behind'
  BY <1>5 DEF GatewayAccepts
<1>6. ASSUME NEW o \in Upgrades, GatewayRefuses(o)
     PROVE  Behind'
  BY <1>6 DEF GatewayRefuses, OrderRowFree
<1>7. ASSUME NEW o \in Upgrades, Cancel(o)
     PROVE  Behind'
  BY <1>7 DEF Cancel, OrderRowFree
<1>8. ASSUME NEW o \in Upgrades, Pay(o)
     PROVE  Behind'
  BY <1>8 DEF Pay
<1>9. ASSUME NEW o \in Upgrades, RecordPayment(o)
     PROVE  Behind'
  BY <1>9 DEF RecordPayment, OrderRowFree
<1>10. ASSUME NEW o \in Upgrades, SettleBegin(o)
      PROVE  Behind'
  BY <1>10 DEF SettleBegin, OrderRowFree
<1>11. ASSUME NEW o \in Upgrades, SettleLockUser(o)
      PROVE  Behind'
  BY <1>11 DEF SettleLockUser, Convertible, PendingSides, PlacedSides, SidesOf
<1>12. ASSUME NEW o \in Upgrades, SettleRefused(o) \/ SettleAbort(o)
      PROVE  Behind'
  BY <1>12 DEF SettleRefused, SettleAbort
<1>13. ASSUME NEW o \in Upgrades, ConvertPaid(o)
      PROVE  Behind'
  BY <1>13 DEF ConvertPaid, Convert, Affordable, FeeOf, Migrated, SidesOf
<1>14. ASSUME NEW s \in Sides, NEW u \in Users, NEW k \in Kinds, SideAsk(s, u, k)
      PROVE  Behind'
  BY <1>14 DEF SideAsk
<1>15. ASSUME NEW s \in Sides, SideInsert(s) \/ ExpirePurchase(s)
      PROVE  Behind'
  BY <1>15 DEF SideInsert, ExpirePurchase
<1>16. ASSUME NEW s \in Sides, SettlePurchase(s)
      PROVE  Behind'
  BY <1>16 DEF SettlePurchase
<1>17. ASSUME NEW s \in Sides, SettleRecharge(s)
      PROVE  Behind'
  BY <1>17 DEF SettleRecharge
<1>18. ASSUME NEW s \in Sides, BuyFromBalance(s)
      PROVE  Behind'
  BY <1>18 DEF BuyFromBalance
<1>19. ASSUME NEW u \in Users, ToggleEnabled(u) \/ SwitchClash(u)
      PROVE  Behind'
  BY <1>19 DEF ToggleEnabled, SwitchClash
<1>20. ASSUME UNCHANGED vars
      PROVE  Behind'
  BY <1>20 DEF vars
<1> HIDE DEF Safe, TypeOK, Phases, Behind, Cleared, Holds, NoRequest, NoSide, Methods, Kinds, accountVars,
        orderVars, readVars, sideVars, adminVars, ReadAll, Forget, Fits
<1>21. ASSUME NEW o \in Upgrades, Upgrade(o) PROVE Behind'
  BY <1>21, <1>1, <1>2, <1>3, <1>4, <1>5, <1>6, <1>7, <1>8 DEF Upgrade
<1>22. ASSUME NEW o \in Upgrades, Callback(o) PROVE Behind'
  BY <1>22, <1>9, <1>10, <1>11, <1>12, <1>13 DEF Callback
<1>23. ASSUME NEW s \in Sides, SideOrder(s) PROVE Behind'
  BY <1>23, <1>14, <1>15, <1>16, <1>17, <1>18 DEF SideOrder
<1> QED
  BY <1>21, <1>22, <1>23, <1>19, <1>20 DEF Next

--------------------------------------------------------------------------------
(* Money *)

\* An agent's balance, where one is known.
LEMMA TheAgent == ASSUME Safe, NEW a \in agents
                  PROVE  AgentsOf(a.user) = {a} /\ AgentBalance(a.user) = a.balance
<1>1. AgentsOf(a.user) = {a}
  BY DEF Safe, Agents, AgentsOf
<1> QED
  BY <1>1 DEF AgentBalance

\* What is counted is finite.
LEMMA Counts == ASSUME NEW u
                PROVE  /\ \A k : IsFiniteSet(PaidSides(u, k)) /\ Cardinality(PaidSides(u, k)) \in Nat
                       /\ \A m : IsFiniteSet(CompletedOf(u, m)) /\ Cardinality(CompletedOf(u, m)) \in Nat
                       /\ IsFiniteSet(CompletedOf(u, "online") \cup CompletedOf(u, "balance"))
                       /\ Cardinality(CompletedOf(u, "online") \cup CompletedOf(u, "balance")) \in Nat
<1>1. \A k : PaidSides(u, k) \subseteq Sides
  BY DEF PaidSides
<1>2. \A m : CompletedOf(u, m) \subseteq Upgrades
  BY DEF CompletedOf, OrdersOf
<1>3. CompletedOf(u, "online") \cup CompletedOf(u, "balance") \subseteq Upgrades
  BY <1>2
<1> QED
  BY <1>1, <1>2, <1>3, FS_Subset, FS_CardinalityType, ConstantsAssumption

\* An amount for each of one more.
LEMMA OneMore == ASSUME NEW n \in Nat, NEW a \in Nat PROVE a * (n + 1) = a * n + a
OBVIOUS

Recharged(u) == Recharge * Cardinality(PaidSides(u, "recharge"))
Bought(u) == Price * Cardinality(PaidSides(u, "buy"))
Fees(u) == Fee * Cardinality(CompletedOf(u, "balance"))
Bonuses(u) == Bonus * Cardinality(CompletedOf(u, "online") \cup CompletedOf(u, "balance"))

\* What is earned, spent and held is an amount.
LEMMA Amounts == ASSUME Safe, NEW u \in Users
                 PROVE  /\ Income(u) = InitialBalance + Recharged(u) + Bonuses(u)
                        /\ Spending(u) = Bought(u) + Fees(u)
                        /\ Recharged(u) \in Nat /\ Bonuses(u) \in Nat
                        /\ Bought(u) \in Nat /\ Fees(u) \in Nat
                        /\ balance[u] \in Nat /\ AgentBalance(u) \in Nat
<1>1. \A a \in Nat, n \in Nat : a * n \in Nat
  OBVIOUS
<1>2. Recharged(u) \in Nat
  BY <1>1, Counts, ConstantsAssumption DEF Recharged
<1>3. Bought(u) \in Nat
  BY <1>1, Counts, ConstantsAssumption DEF Bought
<1>4. Fees(u) \in Nat
  BY <1>1, Counts, ConstantsAssumption DEF Fees
<1>5. Bonuses(u) \in Nat
  BY <1>1, Counts, ConstantsAssumption DEF Bonuses
<1>6. Income(u) = InitialBalance + Recharged(u) + Bonuses(u) /\ Spending(u) = Bought(u) + Fees(u)
  BY DEF Income, Spending, Recharged, Bought, Fees, Bonuses
<1>7. balance[u] \in Nat /\ AgentBalance(u) \in Nat
  <2>1. \A a \in agents : a.balance \in Nat
    BY DEF Safe, TypeOK
  <2> QED
    BY <2>1 DEF AgentBalance, AgentsOf, Safe, TypeOK
<1> QED
  BY <1>2, <1>3, <1>4, <1>5, <1>6, <1>7

\* The equation, with its sums apart.
Balanced(u) == balance[u] + AgentBalance(u) + Bought(u) + Fees(u) = InitialBalance + Recharged(u) + Bonuses(u)

\* It says what MoneyConserved says.
LEMMA Equation == ASSUME Safe PROVE MoneyConserved <=> \A u \in Users : Balanced(u)
BY Amounts, ConstantsAssumption DEF MoneyConserved, Balanced

\* And after a step.
LEMMA EquationNext == Safe' => (MoneyConserved' <=> (\A u \in Users : Balanced(u))')
<1>1. Safe => (MoneyConserved <=> \A u \in Users : Balanced(u))
  BY Equation
<1> QED
  BY <1>1, PTL

\* A step that touches none of the balances and counts keeps the equation.
LEMMA Unmoved == ASSUME Safe, Safe', MoneyConserved, UNCHANGED <<balance, agents>>,
                        \A s \in Sides : \/ side'[s] = side[s]
                                            /\ (sideStatus'[s] = "paid" <=> sideStatus[s] = "paid")
                                         \/ sideStatus[s] # "paid" /\ sideStatus'[s] # "paid"
                                         \/ side'[s] = side[s] /\ side[s].kind = "purchase",
                        \A o \in Upgrades : \/ req'[o] = req[o]
                                               /\ (status'[o] = "completed" <=> status[o] = "completed")
                                            \/ status[o] # "completed" /\ status'[o] # "completed"
                 PROVE  MoneyConserved'
<1> SUFFICES ASSUME NEW u \in Users PROVE Balanced(u)'
  BY EquationNext
<1>1. AgentsOf(u)' = AgentsOf(u) /\ AgentBalance(u)' = AgentBalance(u) /\ balance'[u] = balance[u]
  BY DEF AgentsOf, AgentBalance
<1>2. ASSUME NEW k \in {"recharge", "buy"} PROVE PaidSides(u, k)' = PaidSides(u, k)
  BY DEF PaidSides
<1>3. ASSUME NEW m \in Methods PROVE CompletedOf(u, m)' = CompletedOf(u, m)
  BY DEF CompletedOf, OrdersOf
<1>4. Recharged(u)' = Recharged(u) /\ Bought(u)' = Bought(u) /\ Fees(u)' = Fees(u) /\ Bonuses(u)' = Bonuses(u)
  BY <1>2, <1>3 DEF Recharged, Bought, Fees, Bonuses, Methods
<1> QED
  BY <1>1, <1>4, Equation DEF Balanced

\* A recharge or a purchase is paid, and the balance moves by its amount.
LEMMA SideMoves == ASSUME Safe, Safe', MoneyConserved, NEW s \in Sides, NEW u \in Users,
                          NEW k \in {"recharge", "buy"},
                          side[s] = [user |-> u, kind |-> k], sideStatus[s] # "paid",
                          sideStatus' = [sideStatus EXCEPT ![s] = "paid"],
                          UNCHANGED <<agents, side, req, status>>,
                          k = "recharge" => balance' = [balance EXCEPT ![u] = @ + Recharge],
                          k = "buy" => /\ balance[u] >= Price
                                       /\ balance' = [balance EXCEPT ![u] = @ - Price]
                   PROVE  MoneyConserved'
<1> SUFFICES ASSUME NEW v \in Users PROVE Balanced(v)'
  BY EquationNext
<1>1. AgentsOf(v)' = AgentsOf(v) /\ AgentBalance(v)' = AgentBalance(v)
  BY DEF AgentsOf, AgentBalance
<1>2. Fees(v)' = Fees(v) /\ Bonuses(v)' = Bonuses(v)
  <2>1. CompletedOf(v, "online")' = CompletedOf(v, "online")
        /\ CompletedOf(v, "balance")' = CompletedOf(v, "balance")
    BY DEF CompletedOf, OrdersOf
  <2> QED
    BY <2>1 DEF Fees, Bonuses
<1>3. ASSUME NEW j, v # u \/ j # k PROVE PaidSides(v, j)' = PaidSides(v, j)
  BY <1>3 DEF PaidSides, Safe, TypeOK
<1>4. Cardinality(PaidSides(u, k)') = Cardinality(PaidSides(u, k)) + 1
  <2>1. PaidSides(u, k)' = PaidSides(u, k) \cup {s} /\ s \notin PaidSides(u, k)
    BY DEF PaidSides, Safe, TypeOK
  <2>2. IsFiniteSet(PaidSides(u, k))
    BY Counts
  <2> QED
    BY <2>1, <2>2, FS_AddElement
<1>5. Balanced(v)
  BY Equation
<1>6. balance[v] \in Nat /\ AgentBalance(v) \in Nat /\ Bought(v) \in Nat /\ Fees(v) \in Nat
      /\ Recharged(v) \in Nat /\ Bonuses(v) \in Nat
  BY Amounts
<1>7. CASE v # u
  <2>1. Recharged(v)' = Recharged(v) /\ Bought(v)' = Bought(v)
    BY <1>3, <1>7 DEF Recharged, Bought
  <2>2. balance'[v] = balance[v]
    BY <1>7 DEF Safe, TypeOK
  <2> QED
    BY <1>1, <1>2, <1>5, <2>1, <2>2 DEF Balanced
<1>8. CASE v = u /\ k = "recharge"
  <2>1. Recharged(v)' = Recharged(v) + Recharge
    BY <1>4, <1>8, OneMore, Counts, ConstantsAssumption DEF Recharged
  <2>2. Bought(v)' = Bought(v)
    BY <1>3, <1>8 DEF Bought
  <2>3. balance'[v] = balance[v] + Recharge
    BY <1>8 DEF Safe, TypeOK
  <2> QED
    BY <1>1, <1>2, <1>5, <1>6, <2>1, <2>2, <2>3, ConstantsAssumption DEF Balanced
<1>9. CASE v = u /\ k = "buy"
  <2>1. Bought(v)' = Bought(v) + Price
    BY <1>4, <1>9, OneMore, Counts, ConstantsAssumption DEF Bought
  <2>2. Recharged(v)' = Recharged(v)
    BY <1>3, <1>9 DEF Recharged
  <2>3. balance'[v] = balance[v] - Price
    BY <1>9 DEF Safe, TypeOK
  <2> QED
    BY <1>1, <1>2, <1>5, <1>6, <2>1, <2>2, <2>3, ConstantsAssumption DEF Balanced
<1> QED
  BY <1>7, <1>8, <1>9

\* A conversion moves the whole balance, less the fee and with the bonus.
LEMMA ConvertMoves == ASSUME Safe, Safe', MoneyConserved, NEW o \in Upgrades, Holds(o), Convert(o)
                      PROVE  MoneyConserved'
<1> DEFINE u == req[o].user
           new == [user |-> u, order |-> o, balance |-> (seen[o] - FeeOf(o)) + Bonus]
<1>1. /\ agents' = agents \cup {new} /\ new.user = u
      /\ new.balance = (balance[u] - FeeOf(o)) + Bonus
      /\ req' = req /\ side' = side /\ sideStatus' = sideStatus
      /\ balance[u] >= FeeOf(o)
  BY DEF Convert, Affordable, Safe, Reads
<1>2. status'[o] = "completed" /\ \A p \in Upgrades : p # o => status'[p] = status[p]
  BY DEF Convert, Safe, TypeOK
<1>3. u \notin converted /\ u \in Users /\ status[o] # "completed" /\ req[o].method \in Methods
      /\ balance' = [balance EXCEPT ![u] = 0] /\ balance \in [Users -> Nat]
  BY DEF Safe, TypeOK, Locks, Phases, Holds, NoRequest, Methods, Convert
<1>4. AgentsOf(u) = {}
  BY <1>3 DEF Safe, Agents, AgentsOf
<1> HIDE DEF u, new
<1> SUFFICES ASSUME NEW v \in Users PROVE Balanced(v)'
  BY EquationNext
<1>5. Recharged(v)' = Recharged(v) /\ Bought(v)' = Bought(v)
  <2>1. \A k : PaidSides(v, k)' = PaidSides(v, k)
    BY <1>1 DEF PaidSides
  <2> QED
    BY <2>1 DEF Recharged, Bought
<1>6. Balanced(v)
  BY Equation
<1>7. balance[v] \in Nat /\ AgentBalance(v) \in Nat /\ Bought(v) \in Nat /\ Fees(v) \in Nat
      /\ Recharged(v) \in Nat /\ Bonuses(v) \in Nat
  BY Amounts
<1>8. CASE v # u
  <2>1. CompletedOf(v, "online")' = CompletedOf(v, "online")
        /\ CompletedOf(v, "balance")' = CompletedOf(v, "balance")
    <3>1. \A p \in Upgrades : req[p].user = v => status'[p] = status[p]
      BY <1>2, <1>8 DEF u
    <3> QED
      BY <1>1, <3>1 DEF CompletedOf, OrdersOf
  <2>2. Fees(v)' = Fees(v) /\ Bonuses(v)' = Bonuses(v)
    BY <2>1 DEF Fees, Bonuses
  <2>3. balance'[v] = balance[v]
    BY <1>3, <1>8
  <2>4. AgentsOf(v)' = AgentsOf(v)
    BY <1>1, <1>8 DEF AgentsOf
  <2>5. AgentBalance(v)' = AgentBalance(v)
    BY <2>4 DEF AgentBalance
  <2> QED
    BY <1>5, <1>6, <2>2, <2>3, <2>5 DEF Balanced
<1>9. CASE v = u
  <2> DEFINE all == CompletedOf(u, "online") \cup CompletedOf(u, "balance")
             fees == CompletedOf(u, "balance")
  <2>1. o \notin all /\ o \notin fees
    BY <1>3 DEF CompletedOf
  <2>2. all' = all \cup {o}
    BY <1>1, <1>2, <1>3 DEF CompletedOf, OrdersOf, u, Methods
  <2>3. fees' = IF req[o].method = "balance" THEN fees \cup {o} ELSE fees
    BY <1>1, <1>2, <1>3 DEF CompletedOf, OrdersOf, u
  <2>4. IsFiniteSet(all) /\ IsFiniteSet(fees) /\ Cardinality(all) \in Nat /\ Cardinality(fees) \in Nat
    BY Counts
  <2>5. Cardinality(all') = Cardinality(all) + 1
    BY <2>1, <2>2, <2>4, FS_AddElement
  <2>6. Bonuses(v)' = Bonuses(v) + Bonus
    <3>1. Bonuses(v)' = Bonus * Cardinality(all') /\ Bonuses(v) = Bonus * Cardinality(all)
      BY <1>1, <1>9 DEF Bonuses, u
    <3> HIDE DEF all
    <3> QED
      BY <2>4, <2>5, <3>1, OneMore, ConstantsAssumption
  <2>7. Fees(v)' = Fees(v) + FeeOf(o)
    <3>1. Fees(v)' = Fee * Cardinality(fees') /\ Fees(v) = Fee * Cardinality(fees)
      BY <1>1, <1>9 DEF Fees, u
    <3> HIDE DEF fees
    <3>2. CASE req[o].method = "balance"
      <4>1. Cardinality(fees') = Cardinality(fees) + 1
        BY <2>1, <2>3, <2>4, <3>2, FS_AddElement
      <4> QED
        BY <2>4, <3>1, <3>2, <4>1, OneMore, ConstantsAssumption DEF FeeOf
    <3>3. CASE req[o].method # "balance"
      BY <1>7, <2>3, <3>1, <3>3 DEF FeeOf
    <3> QED
      BY <3>2, <3>3
  <2>8. balance'[v] = 0
    BY <1>3, <1>9
  <2>9. AgentBalance(v) = 0
    BY <1>4, <1>9 DEF AgentBalance
  <2>10. AgentBalance(v)' = (balance[v] - FeeOf(o)) + Bonus
    <3>1. AgentsOf(v)' = {new}
      BY <1>1, <1>4, <1>9 DEF AgentsOf
    <3> QED
      BY <1>1, <1>9, <3>1 DEF AgentBalance
  <2>11. FeeOf(o) \in Nat /\ Bonus \in Nat /\ InitialBalance \in Nat
    BY ConstantsAssumption DEF FeeOf
  <2> HIDE DEF all, fees
  <2> QED
    BY <1>5, <1>6, <1>7, <2>6, <2>7, <2>8, <2>9, <2>10, <2>11 DEF Balanced
<1> QED
  BY <1>8, <1>9

Inv == Safe /\ MoneyConserved

\* The money adds up at the start.
LEMMA InitMoney == Init => MoneyConserved
<1> SUFFICES ASSUME Init PROVE MoneyConserved
  OBVIOUS
<1>1. Safe
  BY InitSafe
<1> SUFFICES ASSUME NEW u \in Users PROVE Balanced(u)
  BY <1>1, Equation
<1>2. PaidSides(u, "recharge") = {} /\ PaidSides(u, "buy") = {} /\ AgentsOf(u) = {}
  BY DEF Init, PaidSides, AgentsOf
<1>3. CompletedOf(u, "online") = {} /\ CompletedOf(u, "balance") = {}
  BY DEF Init, CompletedOf, OrdersOf
<1>4. Cardinality({}) = 0 /\ \A a \in Nat : a * 0 = 0
  BY FS_EmptySet
<1>5. Recharged(u) = 0 /\ Bought(u) = 0 /\ Fees(u) = 0 /\ Bonuses(u) = 0
  <2>1. CompletedOf(u, "online") \cup CompletedOf(u, "balance") = {}
    BY <1>3
  <2> QED
    BY <1>2, <1>3, <1>4, <2>1, ConstantsAssumption DEF Recharged, Bought, Fees, Bonuses
<1>6. balance[u] = InitialBalance /\ AgentBalance(u) = 0
  BY <1>2 DEF Init, AgentBalance
<1> QED
  BY <1>5, <1>6, ConstantsAssumption DEF Balanced

\* Every step keeps the equation.
LEMMA MoneyStep == Safe /\ Safe' /\ MoneyConserved /\ [Next]_vars => MoneyConserved'
<1> SUFFICES ASSUME Safe, Safe', MoneyConserved, [Next]_vars PROVE MoneyConserved'
  OBVIOUS
<1>1. ASSUME NEW o \in Upgrades, ConvertFromBalance(o) \/ ConvertPaid(o) PROVE MoneyConserved'
  BY <1>1, ConvertMoves DEF ConvertFromBalance, ConvertPaid, Holds
<1>2. ASSUME NEW s \in Sides, SettleRecharge(s) \/ BuyFromBalance(s) PROVE MoneyConserved'
  <2>1. PICK u \in Users, k \in Kinds : side[s] = [user |-> u, kind |-> k]
    <3>1. side[s] \in [user : Users, kind : Kinds] \cup {NoSide} /\ side[s].kind \in {"recharge", "buy"}
      BY <1>2 DEF SettleRecharge, BuyFromBalance, Safe, TypeOK
    <3> QED
      BY <3>1 DEF NoSide, Kinds
  <2>2. CASE SettleRecharge(s)
    <3>1. /\ side[s] = [user |-> u, kind |-> "recharge"] /\ sideStatus[s] # "paid"
          /\ sideStatus' = [sideStatus EXCEPT ![s] = "paid"]
          /\ UNCHANGED <<agents, side, req, status>>
          /\ balance' = [balance EXCEPT ![u] = @ + Recharge]
      BY <2>1, <2>2 DEF SettleRecharge, orderVars
    <3> QED
      BY <3>1, SideMoves
  <2>3. CASE BuyFromBalance(s)
    <3>1. /\ side[s] = [user |-> u, kind |-> "buy"] /\ sideStatus[s] # "paid"
          /\ sideStatus' = [sideStatus EXCEPT ![s] = "paid"]
          /\ UNCHANGED <<agents, side, req, status>>
          /\ balance[u] >= Price /\ balance' = [balance EXCEPT ![u] = @ - Price]
      BY <2>1, <2>3 DEF BuyFromBalance, orderVars
    <3> QED
      BY <3>1, SideMoves
  <2> QED
    BY <1>2, <2>2, <2>3
<1> USE DEF Safe, TypeOK, accountVars, orderVars, readVars, sideVars, adminVars, ReadAll, Forget, Fits
<1>3. ASSUME NEW o \in Upgrades, NEW u \in Users, NEW m \in Methods, Create(o, u, m)
      PROVE  MoneyConserved'
  BY <1>3, Unmoved DEF Create, Phases
<1>4. ASSUME NEW o \in Upgrades,
             \/ CommitOnline(o) \/ CreateAbort(o) \/ GatewayAccepts(o) \/ GatewayRefuses(o)
             \/ Cancel(o) \/ Pay(o)
      PROVE  MoneyConserved'
  BY <1>4, Unmoved DEF CommitOnline, CreateAbort, GatewayAccepts, GatewayRefuses, Cancel, Pay, Phases
<1>5. ASSUME NEW o \in Upgrades,
             \/ RecordPayment(o) \/ SettleBegin(o) \/ SettleLockUser(o) \/ SettleRefused(o)
             \/ SettleAbort(o)
      PROVE  MoneyConserved'
  BY <1>5, Unmoved DEF RecordPayment, SettleBegin, SettleLockUser, SettleRefused, SettleAbort
<1>6. ASSUME NEW s \in Sides, NEW u \in Users, NEW k \in Kinds, SideAsk(s, u, k)
      PROVE  MoneyConserved'
  BY <1>6, Unmoved DEF SideAsk
<1>7. ASSUME NEW s \in Sides, SideInsert(s) \/ ExpirePurchase(s) \/ SettlePurchase(s)
      PROVE  MoneyConserved'
  BY <1>7, Unmoved DEF SideInsert, ExpirePurchase, SettlePurchase
<1>8. CASE (\E u \in Users : ToggleEnabled(u) \/ SwitchClash(u)) \/ UNCHANGED vars
  BY <1>8, Unmoved DEF ToggleEnabled, SwitchClash, vars
<1> HIDE DEF Safe, TypeOK
<1> QED
  BY <1>1, <1>2, <1>3, <1>4, <1>5, <1>6, <1>7, <1>8 DEF Next, Upgrade, Callback, SideOrder

--------------------------------------------------------------------------------
(* Theorems *)

\* Safe and the equation are invariants.
THEOREM InvInvariant == Spec => []Inv
<1>1. Init => Inv
  BY InitSafe, InitMoney DEF Inv
<1>2. Inv /\ [Next]_vars => Inv'
  BY TypeStep, PhasesStep, LocksStep, AgentsStep, ReadsStep, BehindStep, MoneyStep DEF Inv, Safe
<1> QED
  BY <1>1, <1>2, PTL DEF Spec

\* Every variable keeps its type: no balance becomes negative.
THEOREM TypeCorrect == Spec => []TypeOK
<1>1. Inv => TypeOK
  BY DEF Inv, Safe
<1> QED
  BY InvInvariant, <1>1, PTL

\* No unit of money is lost or made by a conversion, whatever is settled around it
\* (settleAgentUpgradeOrderTx).
THEOREM MoneyAdds == Spec => []MoneyConserved
<1>1. Inv => MoneyConserved
  BY DEF Inv
<1> QED
  BY InvInvariant, <1>1, PTL

\* However many callbacks settle an order and however many requests create one, a user
\* becomes one agent at most, by one completed order of his.
THEOREM ConvertedOnce == Spec => []OneConversion
<1>1. Inv => OneConversion
  <2> SUFFICES ASSUME Safe, NEW u \in Users
               PROVE  /\ Cardinality(AgentsOf(u)) = IF u \in converted THEN 1 ELSE 0
                      /\ {a.order : a \in AgentsOf(u)} = {o \in OrdersOf(u) : status[o] = "completed"}
    BY DEF Inv, OneConversion
  <2>1. CASE u \in converted
    <3>1. PICK a \in agents : a.user = u
      BY <2>1 DEF Safe, Agents
    <3>2. AgentsOf(u) = {a}
      BY <3>1, TheAgent
    <3>3. Cardinality(AgentsOf(u)) = 1
      BY <3>2, FS_Singleton
    <3>4. a.order \in Upgrades /\ req[a.order].user = u /\ status[a.order] = "completed"
      BY <3>1 DEF Safe, TypeOK, Agents
    <3>5. ASSUME NEW o \in OrdersOf(u), status[o] = "completed" PROVE o = a.order
      BY <3>1, <3>5 DEF Safe, Agents, OrdersOf
    <3>6. {b.order : b \in AgentsOf(u)} = {a.order}
      BY <3>2
    <3>7. {o \in OrdersOf(u) : status[o] = "completed"} = {a.order}
      BY <3>4, <3>5 DEF OrdersOf
    <3> QED
      BY <2>1, <3>3, <3>6, <3>7
  <2>2. CASE u \notin converted
    <3>1. AgentsOf(u) = {}
      BY <2>2 DEF Safe, Agents, AgentsOf
    <3>2. {o \in OrdersOf(u) : status[o] = "completed"} = {}
      BY <2>2 DEF Safe, Agents, OrdersOf
    <3> QED
      BY <2>2, <3>1, <3>2, FS_EmptySet
  <2> QED
    BY <2>1, <2>2
<1> QED
  BY InvInvariant, <1>1, PTL

\* Two requests that count a user's unfinished orders at the same time do not both make one.
THEOREM OneActive == Spec => []AtMostOneActive
<1>1. Inv => AtMostOneActive
  <2> SUFFICES ASSUME Safe, NEW u \in Users PROVE Cardinality(ActiveOrders(u)) <= 1
    BY DEF Inv, AtMostOneActive
  <2>1. CASE ActiveOrders(u) = {}
    BY <2>1, FS_EmptySet
  <2>2. CASE ActiveOrders(u) # {}
    <3>1. PICK o \in ActiveOrders(u) : TRUE
      BY <2>2
    <3>2. ActiveOrders(u) = {o}
      BY <3>1 DEF ActiveOrders, OrdersOf, Safe, Locks
    <3>3. Cardinality({o}) = 1
      BY FS_Singleton
    <3> QED
      BY <3>2, <3>3
  <2> QED
    BY <2>1, <2>2
<1> QED
  BY InvInvariant, <1>1, PTL

\* Of the orders that a conversion counted none is to be paid afterwards, and none has
\* its license with the closed account, then or later (account_upgrade.go:368-451).
THEOREM NoneLeftBehind == Spec => []NothingLeftBehind
<1>1. Inv => NothingLeftBehind
  BY DEF Inv, Safe, TypeOK, Behind, NothingLeftBehind
<1> QED
  BY InvInvariant, <1>1, PTL

\* The abstract order's grants are the completed status, counted.
LEMMA Granted == ASSUME Safe, NEW o \in Upgrades
                 PROVE  Cardinality({a \in agents : a.order = o}) = IF status[o] = "completed" THEN 1 ELSE 0
<1>1. CASE status[o] = "completed"
  <2>1. PICK a \in agents : a.order = o
    BY <1>1 DEF Safe, Agents
  <2>2. {b \in agents : b.order = o} = {a}
    BY <2>1 DEF Safe, Agents
  <2> QED
    BY <1>1, <2>2, FS_Singleton
<1>2. CASE status[o] # "completed"
  <2>1. {b \in agents : b.order = o} = {}
    BY <1>2 DEF Safe, Agents
  <2> QED
    BY <1>2, <2>1, FS_EmptySet
<1> QED
  BY <1>1, <1>2

GrantsOf(o) == IF status[o] = "completed" THEN 1 ELSE 0

\* Which the refinement mapping counts.
LEMMA Mapped == Safe => [o \in Upgrades |-> Cardinality({a \in agents : a.order = o})]
                          = [o \in Upgrades |-> GrantsOf(o)]
BY Granted DEF GrantsOf

\* And after a step.
LEMMA MappedNext == Safe' => ([o \in Upgrades |-> Cardinality({a \in agents : a.order = o})]
                                = [o \in Upgrades |-> GrantsOf(o)])'
<1>1. Safe => [o \in Upgrades |-> Cardinality({a \in agents : a.order = o})]
                = [o \in Upgrades |-> GrantsOf(o)]
  BY Mapped
<1> QED
  BY <1>1, PTL

\* Agent upgrade orders implement OrderSettlement.
THEOREM Refinement == Spec => ImplementsPromise
<1> DEFINE state == [o \in Upgrades |-> Abstract(status[o])]
           grants == [o \in Upgrades |-> GrantsOf(o)]
           made == [o \in Upgrades |-> Cardinality({a \in agents : a.order = o})]
<1>1. Init => Promise!Init
  BY FS_EmptySet DEF Init, Promise!Init, Abstract
<1>2. Safe => made = grants
  BY Mapped
<1>3. Safe' => made' = grants'
  BY MappedNext
<1>4. Safe /\ Safe' /\ [Next]_vars => [Promise!Next]_(Promise!vars)
  <2> SUFFICES ASSUME Safe, Safe', [Next]_vars PROVE [Promise!Next]_(Promise!vars)
    OBVIOUS
  <2>1. made = grants /\ made' = grants'
    BY <1>2, <1>3
  <2> HIDE DEF made
  <2>2. CASE UNCHANGED status
    BY <2>1, <2>2 DEF Promise!vars, GrantsOf, made
  <2>3. ASSUME NEW o \in Upgrades, NEW st, status' = [status EXCEPT ![o] = st], st # "completed",
               Abstract(st) = Abstract(status[o]), status[o] # "completed"
        PROVE  UNCHANGED Promise!vars
    <3>1. \A p \in Upgrades : Abstract(status'[p]) = Abstract(status[p]) /\ GrantsOf(p)' = GrantsOf(p)
      BY <2>3 DEF Safe, TypeOK, GrantsOf
    <3>2. state' = state /\ grants' = grants
      BY <3>1
    <3> QED
      BY <2>1, <3>2 DEF Promise!vars, made
  <2>4. ASSUME NEW o \in Upgrades, CommitOnline(o) PROVE Promise!Next
    <3>1. status[o] = "none" /\ status' = [status EXCEPT ![o] = "pending"]
      BY <2>4 DEF CommitOnline, Safe, Phases
    <3>2. state[o] = "none" /\ state' = [p \in Upgrades |-> IF p \in {o} THEN "open" ELSE state[p]]
      BY <3>1 DEF Abstract, Safe, TypeOK
    <3>3. grants' = grants
      BY <3>1 DEF GrantsOf, Safe, TypeOK
    <3>4. Promise!Open({o})
      BY <2>1, <3>2, <3>3 DEF Promise!Open, made
    <3> QED
      BY <3>4 DEF Promise!Next
  <2>5. ASSUME NEW o \in Upgrades, status[o] = "pending", NEW st \in {"failed", "cancelled"},
               status' = [status EXCEPT ![o] = st]
        PROVE  Promise!Next
    <3>1. state[o] = "open" /\ state' = [p \in Upgrades |-> IF p \in {o} THEN "closed" ELSE state[p]]
      BY <2>5 DEF Abstract, Safe, TypeOK
    <3>2. grants' = grants
      BY <2>5 DEF GrantsOf, Safe, TypeOK
    <3>3. Promise!Close({o})
      BY <2>1, <3>1, <3>2 DEF Promise!Close, made
    <3> QED
      BY <3>3 DEF Promise!Next
  <2>6. ASSUME NEW o \in Upgrades, ConvertPaid(o) \/ ConvertFromBalance(o) PROVE Promise!Next
    <3>1. status[o] \in {"none", "paid"} /\ status' = [status EXCEPT ![o] = "completed"]
      BY <2>6 DEF ConvertPaid, ConvertFromBalance, Convert, Safe, Phases
    <3>2. state[o] \in {"none", "open"} /\ state' = [state EXCEPT ![o] = "granted"]
      <4>1. Abstract(status[o]) \in {"none", "open"}
        BY <3>1 DEF Abstract
      <4>2. \A p \in Upgrades : Abstract(status'[p]) = IF p = o THEN "granted" ELSE Abstract(status[p])
        BY <3>1 DEF Abstract, Safe, TypeOK
      <4> QED
        BY <4>1, <4>2
    <3>3. grants' = [grants EXCEPT ![o] = @ + 1]
      <4>1. \A p \in Upgrades : GrantsOf(p)' = IF p = o THEN GrantsOf(p) + 1 ELSE GrantsOf(p)
        BY <3>1 DEF GrantsOf, Safe, TypeOK
      <4> QED
        BY <4>1
    <3>4. Promise!Grant(o)
      BY <2>1, <3>2, <3>3 DEF Promise!Grant, made
    <3> QED
      BY <3>4 DEF Promise!Next
  <2>7. ASSUME NEW o \in Upgrades, Upgrade(o), ~CommitOnline(o), ~ConvertFromBalance(o)
        PROVE  [Promise!Next]_(Promise!vars)
    <3>1. CASE GatewayRefuses(o)
      <4>1. CASE status[o] = "pending"
        BY <2>5, <3>1, <4>1 DEF GatewayRefuses
      <4>2. CASE status[o] # "pending"
        BY <2>2, <3>1, <4>2 DEF GatewayRefuses, Safe, TypeOK
      <4> QED
        BY <4>1, <4>2
    <3>2. CASE Cancel(o)
      BY <2>5, <3>2 DEF Cancel
    <3>3. CASE ~GatewayRefuses(o) /\ ~Cancel(o)
      BY <2>2, <2>7, <3>3 DEF Upgrade, Create, CreateAbort, GatewayAccepts, Pay
    <3> QED
      BY <3>1, <3>2, <3>3
  <2>8. ASSUME NEW o \in Upgrades, Callback(o), ~ConvertPaid(o) PROVE UNCHANGED Promise!vars
    <3>1. CASE RecordPayment(o)
      BY <2>3, <3>1 DEF RecordPayment, Abstract
    <3>2. CASE ~RecordPayment(o)
      <4>1. UNCHANGED <<status, agents>>
        BY <2>8, <3>2 DEF Callback, SettleBegin, SettleLockUser, SettleRefused, SettleAbort, accountVars
      <4> QED
        BY <4>1 DEF Promise!vars
    <3> QED
      BY <3>1, <3>2
  <2>9. ASSUME (\E s \in Sides : SideOrder(s)) \/ (\E u \in Users : ToggleEnabled(u) \/ SwitchClash(u)) \/ UNCHANGED vars
        PROVE  UNCHANGED status
    BY <2>9 DEF SideOrder, SideAsk, SideInsert, SettleRecharge, SettlePurchase, ExpirePurchase,
       BuyFromBalance, ToggleEnabled, SwitchClash, vars, orderVars
  <2> QED
    BY <2>2, <2>4, <2>6, <2>7, <2>8, <2>9 DEF Next
<1>5. Inv => Safe
  BY DEF Inv
<1> QED
  BY InvInvariant, <1>1, <1>4, <1>5, PTL DEF Spec, ImplementsPromise, Promise!Spec

================================================================================
