----------------------------- MODULE AdOrdersProofs -----------------------------
(***************************************************************************)
(* Theorems about AdOrders, for any number of orders, days, tasks and      *)
(* places.  The invariant has four parts: an order that is reviewed, or    *)
(* that a task reviews, is paid; tasks work on orders that exist; a day's  *)
(* lock count is the number of orders that ever took the day; and a        *)
(* creating transaction has the day rows it holds to itself and has found  *)
(* room on them.                                                           *)
(***************************************************************************)
EXTENDS AdOrders, FiniteSetTheorems, TLAPS

Reviewing == {"check", "verdict", "show", "insert", "link", "approve", "return", "resubmit"}

\* A payment is taken exactly of the orders that are paid, and what is reviewed is paid.
PaidFirst ==
  /\ \A o \in Orders : payments[o] = IF o \in paid THEN 1 ELSE 0
  /\ \A o \in paid : status[o] \in Reviewed \cup {"voided"}
  /\ \A o \in Orders : status[o] \in Reviewed => o \in paid
  /\ \A t \in Tasks : task[t].kind \in Reviewing => task[t].order \in paid
  /\ \A a \in shown : madeFor[a] \in paid

\* Orders without a row have no task.
Present ==
  \A t \in Tasks : task[t].kind # "idle" => status[task[t].order] \notin {"none", "creating"}

Made(d) == {o \in Orders : status[o] \notin {"none", "creating"} /\ d \in days[o]}

\* No lock is given back, so the count is that of the orders ever made.
LocksCounted == \A d \in Days : locked[d] = Cardinality(Made(d)) /\ reserved[d] = 0

\* A day row is one transaction's, which found a place on it.
Room ==
  /\ \A o \in Orders : held[o] # {} => status[o] = "creating" /\ held[o] \subseteq days[o]
  /\ \A o, p \in Orders : \A d \in held[o] \cap held[p] : o = p
  /\ \A o \in Orders : \A d \in held[o] : locked[d] < Capacity

Inv == TypeOK /\ PaidFirst /\ Present /\ LocksCounted /\ Room

--------------------------------------------------------------------------------
(* Tasks *)

\* What is known of a task by its kind.
LEMMA Fields == ASSUME TypeOK, NEW t \in Tasks
                PROVE  /\ task[t].kind \in Kinds \cup {"idle"}
                       /\ task[t] = Idle <=> task[t].kind = "idle"
                       /\ task[t].kind # "idle" =>
                            /\ task[t] \in Task
                            /\ task[t].order \in Orders
                            /\ task[t].ok \in BOOLEAN
                            /\ task[t].ad \in Ads \cup {NoAd}
BY DEF TypeOK, Task, Idle, Kinds

\* A task that goes on keeps its order.
LEMMA GoesOn == ASSUME TypeOK, NEW t \in Tasks, NEW k \in Kinds,
                       task[t].kind # "idle", Goes(t, k)
                PROVE  /\ task' \in [Tasks -> Task \cup {Idle}]
                       /\ task'[t].kind = k /\ task'[t].order = task[t].order
                       /\ \A u \in Tasks \ {t} : task'[u] = task[u]
<1>1. task[t] \in Task /\ task'[t] = [task[t] EXCEPT !.kind = k]
  BY Fields DEF Goes, TypeOK
<1>2. task'[t] \in Task /\ task'[t].kind = k /\ task'[t].order = task[t].order
  BY <1>1 DEF Task
<1> QED
  BY <1>2 DEF Goes, TypeOK

\* Likewise one that learned whether the texts pass.
LEMMA Judges == ASSUME TypeOK, NEW t \in Tasks, NEW b \in BOOLEAN, task[t].kind # "idle",
                       task' = [task EXCEPT ![t].kind = "verdict", ![t].ok = b]
                PROVE  /\ task' \in [Tasks -> Task \cup {Idle}]
                       /\ task'[t].kind = "verdict" /\ task'[t].order = task[t].order
                       /\ \A u \in Tasks \ {t} : task'[u] = task[u]
<1>1. task[t] \in Task /\ task'[t] = [task[t] EXCEPT !.kind = "verdict", !.ok = b]
  BY Fields DEF TypeOK
<1>2. task'[t] = [kind |-> "verdict", order |-> task[t].order, ok |-> b, ad |-> task[t].ad]
  BY ZenonT(40), <1>1 DEF Task
<1>3. task'[t] \in Task /\ task'[t].kind = "verdict" /\ task'[t].order = task[t].order
  BY <1>2, Fields DEF Task, Kinds
<1> QED
  BY <1>3 DEF TypeOK

\* Or one that made an advertisement.
LEMMA Inserts == ASSUME TypeOK, NEW t \in Tasks, NEW a \in Ads, task[t].kind # "idle",
                        task' = [task EXCEPT ![t].kind = "link", ![t].ad = a]
                 PROVE  /\ task' \in [Tasks -> Task \cup {Idle}]
                        /\ task'[t].kind = "link" /\ task'[t].order = task[t].order
                        /\ \A u \in Tasks \ {t} : task'[u] = task[u]
<1>1. task[t] \in Task /\ task'[t] = [task[t] EXCEPT !.kind = "link", !.ad = a]
  BY Fields DEF TypeOK
<1>2. task'[t] = [kind |-> "link", order |-> task[t].order, ok |-> task[t].ok, ad |-> a]
  BY ZenonT(40), <1>1 DEF Task
<1>3. task'[t] \in Task /\ task'[t].kind = "link" /\ task'[t].order = task[t].order
  BY <1>2, Fields DEF Task, Kinds
<1> QED
  BY <1>3 DEF TypeOK

\* A task that ends is idle.
LEMMA EndsIdle == ASSUME TypeOK, NEW t \in Tasks, Ends(t)
                  PROVE  /\ task' \in [Tasks -> Task \cup {Idle}]
                         /\ task'[t].kind = "idle"
                         /\ \A u \in Tasks \ {t} : task'[u] = task[u]
BY DEF TypeOK, Ends, Idle

--------------------------------------------------------------------------------
(* Steps *)

\* The invariant holds at the start.
LEMMA InitInv == Init => Inv
<1> SUFFICES ASSUME Init PROVE Inv
  OBVIOUS
<1> USE ConstantsAssumption DEF Init
<1>1. TypeOK /\ PaidFirst /\ Present /\ Room
  BY DEF TypeOK, PaidFirst, Present, Room, Statuses, Reviewed, Idle, Kinds, Reviewing
<1>2. \A d \in Days : Made(d) = {}
  BY DEF Made
<1>3. LocksCounted
  BY <1>2, FS_EmptySet DEF LocksCounted
<1> QED
  BY <1>1, <1>3 DEF Inv

\* Every step keeps the types; locking found room for one more.
LEMMA TypeStep == Inv /\ [Next]_vars => TypeOK'
<1> SUFFICES ASSUME Inv, [Next]_vars PROVE TypeOK'
  OBVIOUS
<1> USE ConstantsAssumption, Fields
    DEF Inv, TypeOK, LocksCounted, Room, Statuses, Reviewed, Kinds, Reviewing,
        Expanded, Unlocked, dayVars, orderVars, adVars
<1>1. ASSUME NEW o \in Orders, NEW D \in SUBSET Days, CreateBegin(o, D)
     PROVE  TypeOK'
  BY <1>1 DEF CreateBegin
<1>2. ASSUME NEW o \in Orders, NEW d \in Days, LockDay(o, d)
     PROVE  TypeOK'
  BY <1>2 DEF LockDay, NextDay, DayFree
<1>3. ASSUME NEW o \in Orders, CreateCommit(o)
     PROVE  TypeOK'
  BY <1>3 DEF CreateCommit
<1>4. ASSUME NEW o \in Orders, CreateAbort(o)
     PROVE  TypeOK'
  BY <1>4 DEF CreateAbort
<1>5. ASSUME NEW o \in Orders, Lapse(o) \/ Pay(o)
     PROVE  TypeOK'
  BY <1>5 DEF Lapse, Pay
<1>6. ASSUME NEW t \in Tasks, NEW o \in Orders, PayRead(t, o)
     PROVE  TypeOK'
  BY <1>6 DEF PayRead, Begun, Task, Idle
<1>7. ASSUME NEW t \in Tasks, NEW o \in Orders, Release(t, o)
     PROVE  TypeOK'
  BY <1>7, EndsIdle DEF Release, At
<1>8. ASSUME NEW t \in Tasks, NEW o \in Orders, Checkout(t, o)
     PROVE  TypeOK'
  BY <1>8, EndsIdle DEF Checkout, At
<1>9. ASSUME NEW t \in Tasks, NEW o \in Orders, Settle(t, o)
     PROVE  TypeOK'
  BY <1>9 DEF Settle, Begun, Task, Idle
<1>10. ASSUME NEW t \in Tasks, NEW o \in Orders, CheckRead(t, o)
      PROVE  TypeOK'
  BY <1>10, Judges, EndsIdle DEF CheckRead, At
<1>11. ASSUME NEW t \in Tasks, NEW o \in Orders, ShowRead(t, o)
      PROVE  TypeOK'
  BY <1>11, GoesOn, EndsIdle DEF ShowRead, At
<1>12. ASSUME NEW t \in Tasks, NEW o \in Orders, CheckWrite(t, o)
      PROVE  TypeOK'
  BY <1>12, GoesOn, EndsIdle DEF CheckWrite, At
<1>13. ASSUME NEW t \in Tasks, NEW o \in Orders, NEW a \in Ads, ShowInsert(t, o, a)
      PROVE  TypeOK'
  BY <1>13, Inserts DEF ShowInsert, At
<1>14. ASSUME NEW t \in Tasks, NEW o \in Orders, ShowLink(t, o)
      PROVE  TypeOK'
  BY <1>14, EndsIdle DEF ShowLink, At
<1>15. ASSUME NEW t \in Tasks, NEW o \in Orders, NEW k \in {"approve", "return"}, ReviewRead(t, o, k)
      PROVE  TypeOK'
  BY <1>15 DEF ReviewRead, Reviewable, Begun, Task, Idle
<1>16. ASSUME NEW t \in Tasks, NEW o \in Orders, Approve(t, o)
      PROVE  TypeOK'
  BY <1>16, GoesOn DEF Approve, At
<1>17. ASSUME NEW t \in Tasks, NEW o \in Orders, Return(t, o)
      PROVE  TypeOK'
  BY <1>17, EndsIdle DEF Return, At
<1>18. ASSUME NEW t \in Tasks, NEW o \in Orders, ResubmitRead(t, o)
      PROVE  TypeOK'
  BY <1>18 DEF ResubmitRead, Begun, Task, Idle
<1>19. ASSUME NEW t \in Tasks, NEW o \in Orders, VoidRead(t, o)
      PROVE  TypeOK'
  BY <1>19 DEF VoidRead, Begun, Task, Idle
<1>20. ASSUME NEW t \in Tasks, NEW o \in Orders, Resubmit(t, o)
      PROVE  TypeOK'
  BY <1>20, GoesOn DEF Resubmit, At
<1>21. ASSUME NEW t \in Tasks, NEW o \in Orders, VoidDelete(t, o)
      PROVE  TypeOK'
  BY <1>21, GoesOn DEF VoidDelete, At
<1>22. ASSUME NEW t \in Tasks, NEW o \in Orders, VoidWrite(t, o)
      PROVE  TypeOK'
  BY <1>22, EndsIdle DEF VoidWrite, At
<1>23. ASSUME NEW t \in Tasks, Fail(t)
      PROVE  TypeOK'
  BY <1>23, EndsIdle DEF Fail
<1>24. ASSUME UNCHANGED vars
      PROVE  TypeOK'
  BY <1>24 DEF vars
<1> HIDE DEF Inv, TypeOK, LocksCounted, Room, Statuses, Reviewed, Kinds, Reviewing,
        Expanded, Unlocked, dayVars, orderVars, adVars
<1>25. ASSUME NEW o \in Orders, Create(o) PROVE TypeOK'
  BY <1>25, <1>1, <1>2, <1>3, <1>4 DEF Create
<1>26. ASSUME NEW t \in Tasks, NEW o \in Orders, Payment(t, o) PROVE TypeOK'
  BY <1>26, <1>6, <1>7, <1>8, <1>9 DEF Payment
<1>27. ASSUME NEW t \in Tasks, NEW o \in Orders, Check(t, o) PROVE TypeOK'
  BY <1>27, <1>10, <1>11, <1>12, <1>13, <1>14 DEF Check
<1>28. ASSUME NEW t \in Tasks, NEW o \in Orders, Review(t, o) PROVE TypeOK'
  BY <1>28, <1>15, <1>16, <1>17, <1>18, <1>19, <1>20, <1>21, <1>22 DEF Review
<1> QED
  BY <1>25, <1>5, <1>26, <1>27, <1>28, <1>23, <1>24 DEF Next

\* Every step keeps what is reviewed paid.
LEMMA PaidStep == Inv /\ [Next]_vars => PaidFirst'
<1> SUFFICES ASSUME Inv, [Next]_vars PROVE PaidFirst'
  OBVIOUS
<1> USE ConstantsAssumption, Fields
    DEF Inv, TypeOK, PaidFirst, Present, Statuses, Reviewed, Kinds, Reviewing,
        Expanded, Unlocked, dayVars, orderVars, adVars
<1>1. ASSUME NEW o \in Orders, NEW D \in SUBSET Days, CreateBegin(o, D)
     PROVE  PaidFirst'
  BY <1>1 DEF CreateBegin
<1>2. ASSUME NEW o \in Orders, NEW d \in Days, LockDay(o, d)
     PROVE  PaidFirst'
  BY <1>2 DEF LockDay, NextDay, DayFree
<1>3. ASSUME NEW o \in Orders, CreateCommit(o)
     PROVE  PaidFirst'
  BY <1>3 DEF CreateCommit
<1>4. ASSUME NEW o \in Orders, CreateAbort(o)
     PROVE  PaidFirst'
  BY <1>4 DEF CreateAbort
<1>5. ASSUME NEW o \in Orders, Lapse(o) \/ Pay(o)
     PROVE  PaidFirst'
  BY <1>5 DEF Lapse, Pay
<1>6. ASSUME NEW t \in Tasks, NEW o \in Orders, PayRead(t, o)
     PROVE  PaidFirst'
  BY <1>6 DEF PayRead, Begun, Task, Idle
<1>7. ASSUME NEW t \in Tasks, NEW o \in Orders, Release(t, o)
     PROVE  PaidFirst'
  BY <1>7, EndsIdle DEF Release, At
<1>8. ASSUME NEW t \in Tasks, NEW o \in Orders, Checkout(t, o)
     PROVE  PaidFirst'
  BY <1>8, EndsIdle DEF Checkout, At
<1>9. ASSUME NEW t \in Tasks, NEW o \in Orders, Settle(t, o)
     PROVE  PaidFirst'
  BY <1>9 DEF Settle, Begun, Task, Idle
<1>10. ASSUME NEW t \in Tasks, NEW o \in Orders, CheckRead(t, o)
      PROVE  PaidFirst'
  BY <1>10, Judges, EndsIdle DEF CheckRead, At
<1>11. ASSUME NEW t \in Tasks, NEW o \in Orders, ShowRead(t, o)
      PROVE  PaidFirst'
  BY <1>11, GoesOn, EndsIdle DEF ShowRead, At
<1>12. ASSUME NEW t \in Tasks, NEW o \in Orders, CheckWrite(t, o)
      PROVE  PaidFirst'
  BY <1>12, GoesOn, EndsIdle DEF CheckWrite, At
<1>13. ASSUME NEW t \in Tasks, NEW o \in Orders, NEW a \in Ads, ShowInsert(t, o, a)
      PROVE  PaidFirst'
  BY <1>13 DEF ShowInsert, At, Task, Idle
<1>14. ASSUME NEW t \in Tasks, NEW o \in Orders, ShowLink(t, o)
      PROVE  PaidFirst'
  BY <1>14, EndsIdle DEF ShowLink, At
<1>15. ASSUME NEW t \in Tasks, NEW o \in Orders, NEW k \in {"approve", "return"}, ReviewRead(t, o, k)
      PROVE  PaidFirst'
  BY <1>15 DEF ReviewRead, Reviewable, Begun, Task, Idle
<1>16. ASSUME NEW t \in Tasks, NEW o \in Orders, Approve(t, o)
      PROVE  PaidFirst'
  BY <1>16, GoesOn DEF Approve, At
<1>17. ASSUME NEW t \in Tasks, NEW o \in Orders, Return(t, o)
      PROVE  PaidFirst'
  BY <1>17, EndsIdle DEF Return, At
<1>18. ASSUME NEW t \in Tasks, NEW o \in Orders, ResubmitRead(t, o)
      PROVE  PaidFirst'
  BY <1>18 DEF ResubmitRead, Begun, Task, Idle
<1>19. ASSUME NEW t \in Tasks, NEW o \in Orders, VoidRead(t, o)
      PROVE  PaidFirst'
  BY <1>19 DEF VoidRead, Begun, Task, Idle
<1>20. ASSUME NEW t \in Tasks, NEW o \in Orders, Resubmit(t, o)
      PROVE  PaidFirst'
  BY <1>20, GoesOn DEF Resubmit, At
<1>21. ASSUME NEW t \in Tasks, NEW o \in Orders, VoidDelete(t, o)
      PROVE  PaidFirst'
  BY SMTT(30), <1>21, GoesOn DEF VoidDelete, At
<1>22. ASSUME NEW t \in Tasks, NEW o \in Orders, VoidWrite(t, o)
      PROVE  PaidFirst'
  BY <1>22, EndsIdle DEF VoidWrite, At
<1>23. ASSUME NEW t \in Tasks, Fail(t)
      PROVE  PaidFirst'
  BY <1>23, EndsIdle DEF Fail
<1>24. ASSUME UNCHANGED vars
      PROVE  PaidFirst'
  BY <1>24 DEF vars
<1> HIDE DEF Inv, TypeOK, PaidFirst, Present, Statuses, Reviewed, Kinds, Reviewing,
        Expanded, Unlocked, dayVars, orderVars, adVars
<1>25. ASSUME NEW o \in Orders, Create(o) PROVE PaidFirst'
  BY <1>25, <1>1, <1>2, <1>3, <1>4 DEF Create
<1>26. ASSUME NEW t \in Tasks, NEW o \in Orders, Payment(t, o) PROVE PaidFirst'
  BY <1>26, <1>6, <1>7, <1>8, <1>9 DEF Payment
<1>27. ASSUME NEW t \in Tasks, NEW o \in Orders, Check(t, o) PROVE PaidFirst'
  BY <1>27, <1>10, <1>11, <1>12, <1>13, <1>14 DEF Check
<1>28. ASSUME NEW t \in Tasks, NEW o \in Orders, Review(t, o) PROVE PaidFirst'
  BY <1>28, <1>15, <1>16, <1>17, <1>18, <1>19, <1>20, <1>21, <1>22 DEF Review
<1> QED
  BY <1>25, <1>5, <1>26, <1>27, <1>28, <1>23, <1>24 DEF Next

\* Tasks begin on orders that exist, and orders do not go away.
LEMMA PresentStep == Inv /\ [Next]_vars => Present'
<1> SUFFICES ASSUME Inv, [Next]_vars PROVE Present'
  OBVIOUS
<1> USE ConstantsAssumption, Fields
    DEF Inv, TypeOK, PaidFirst, Present, Statuses, Reviewed, Kinds, Reviewing,
        Expanded, Unlocked, dayVars, orderVars, adVars
<1>1. ASSUME NEW o \in Orders, NEW D \in SUBSET Days, CreateBegin(o, D)
     PROVE  Present'
  BY <1>1 DEF CreateBegin
<1>2. ASSUME NEW o \in Orders, NEW d \in Days, LockDay(o, d)
     PROVE  Present'
  BY <1>2 DEF LockDay, NextDay, DayFree
<1>3. ASSUME NEW o \in Orders, CreateCommit(o)
     PROVE  Present'
  BY <1>3 DEF CreateCommit
<1>4. ASSUME NEW o \in Orders, CreateAbort(o)
     PROVE  Present'
  BY <1>4 DEF CreateAbort
<1>5. ASSUME NEW o \in Orders, Lapse(o) \/ Pay(o)
     PROVE  Present'
  BY <1>5 DEF Lapse, Pay
<1>6. ASSUME NEW t \in Tasks, NEW o \in Orders, PayRead(t, o)
     PROVE  Present'
  BY <1>6 DEF PayRead, Begun, Task, Idle
<1>7. ASSUME NEW t \in Tasks, NEW o \in Orders, Release(t, o)
     PROVE  Present'
  BY <1>7, EndsIdle DEF Release, At
<1>8. ASSUME NEW t \in Tasks, NEW o \in Orders, Checkout(t, o)
     PROVE  Present'
  BY <1>8, EndsIdle DEF Checkout, At
<1>9. ASSUME NEW t \in Tasks, NEW o \in Orders, Settle(t, o)
     PROVE  Present'
  BY <1>9 DEF Settle, Begun, Task, Idle
<1>10. ASSUME NEW t \in Tasks, NEW o \in Orders, CheckRead(t, o)
      PROVE  Present'
  BY <1>10, Judges, EndsIdle DEF CheckRead, At
<1>11. ASSUME NEW t \in Tasks, NEW o \in Orders, ShowRead(t, o)
      PROVE  Present'
  BY <1>11, GoesOn, EndsIdle DEF ShowRead, At
<1>12. ASSUME NEW t \in Tasks, NEW o \in Orders, CheckWrite(t, o)
      PROVE  Present'
  BY <1>12, GoesOn, EndsIdle DEF CheckWrite, At
<1>13. ASSUME NEW t \in Tasks, NEW o \in Orders, NEW a \in Ads, ShowInsert(t, o, a)
      PROVE  Present'
  BY <1>13 DEF ShowInsert, At, Task, Idle
<1>14. ASSUME NEW t \in Tasks, NEW o \in Orders, ShowLink(t, o)
      PROVE  Present'
  BY <1>14, EndsIdle DEF ShowLink, At
<1>15. ASSUME NEW t \in Tasks, NEW o \in Orders, NEW k \in {"approve", "return"}, ReviewRead(t, o, k)
      PROVE  Present'
  BY <1>15 DEF ReviewRead, Reviewable, Begun, Task, Idle
<1>16. ASSUME NEW t \in Tasks, NEW o \in Orders, Approve(t, o)
      PROVE  Present'
  BY <1>16, GoesOn DEF Approve, At
<1>17. ASSUME NEW t \in Tasks, NEW o \in Orders, Return(t, o)
      PROVE  Present'
  BY <1>17, EndsIdle DEF Return, At
<1>18. ASSUME NEW t \in Tasks, NEW o \in Orders, ResubmitRead(t, o)
      PROVE  Present'
  BY <1>18 DEF ResubmitRead, Begun, Task, Idle
<1>19. ASSUME NEW t \in Tasks, NEW o \in Orders, VoidRead(t, o)
      PROVE  Present'
  BY <1>19 DEF VoidRead, Begun, Task, Idle
<1>20. ASSUME NEW t \in Tasks, NEW o \in Orders, Resubmit(t, o)
      PROVE  Present'
  BY SMTT(30), <1>20, GoesOn DEF Resubmit, At
<1>21. ASSUME NEW t \in Tasks, NEW o \in Orders, VoidDelete(t, o)
      PROVE  Present'
  BY <1>21, GoesOn DEF VoidDelete, At
<1>22. ASSUME NEW t \in Tasks, NEW o \in Orders, VoidWrite(t, o)
      PROVE  Present'
  BY <1>22, EndsIdle DEF VoidWrite, At
<1>23. ASSUME NEW t \in Tasks, Fail(t)
      PROVE  Present'
  BY <1>23, EndsIdle DEF Fail
<1>24. ASSUME UNCHANGED vars
      PROVE  Present'
  BY <1>24 DEF vars
<1> HIDE DEF Inv, TypeOK, PaidFirst, Present, Statuses, Reviewed, Kinds, Reviewing,
        Expanded, Unlocked, dayVars, orderVars, adVars
<1>25. ASSUME NEW o \in Orders, Create(o) PROVE Present'
  BY <1>25, <1>1, <1>2, <1>3, <1>4 DEF Create
<1>26. ASSUME NEW t \in Tasks, NEW o \in Orders, Payment(t, o) PROVE Present'
  BY <1>26, <1>6, <1>7, <1>8, <1>9 DEF Payment
<1>27. ASSUME NEW t \in Tasks, NEW o \in Orders, Check(t, o) PROVE Present'
  BY <1>27, <1>10, <1>11, <1>12, <1>13, <1>14 DEF Check
<1>28. ASSUME NEW t \in Tasks, NEW o \in Orders, Review(t, o) PROVE Present'
  BY <1>28, <1>15, <1>16, <1>17, <1>18, <1>19, <1>20, <1>21, <1>22 DEF Review
<1> QED
  BY <1>25, <1>5, <1>26, <1>27, <1>28, <1>23, <1>24 DEF Next

\* Day rows stay with one transaction, and commits count only their own.
LEMMA RoomStep == Inv /\ [Next]_vars => Room'
<1> SUFFICES ASSUME Inv, [Next]_vars PROVE Room'
  OBVIOUS
<1> USE ConstantsAssumption, Fields
    DEF Inv, TypeOK, Present, LocksCounted, Room, Statuses, Reviewed, Kinds,
        Reviewing, Expanded, Unlocked, dayVars, orderVars, adVars
<1>1. ASSUME NEW o \in Orders, NEW D \in SUBSET Days, CreateBegin(o, D)
     PROVE  Room'
  BY <1>1 DEF CreateBegin
<1>2. ASSUME NEW o \in Orders, NEW d \in Days, LockDay(o, d)
     PROVE  Room'
  BY <1>2 DEF LockDay, NextDay, DayFree
<1>3. ASSUME NEW o \in Orders, CreateCommit(o)
     PROVE  Room'
  BY <1>3 DEF CreateCommit
<1>4. ASSUME NEW o \in Orders, CreateAbort(o)
     PROVE  Room'
  BY <1>4 DEF CreateAbort
<1>5. ASSUME NEW o \in Orders, Lapse(o) \/ Pay(o)
     PROVE  Room'
  BY <1>5 DEF Lapse, Pay
<1>6. ASSUME NEW t \in Tasks, NEW o \in Orders, PayRead(t, o)
     PROVE  Room'
  BY <1>6 DEF PayRead, Begun, Task, Idle
<1>7. ASSUME NEW t \in Tasks, NEW o \in Orders, Release(t, o)
     PROVE  Room'
  BY <1>7, EndsIdle DEF Release, At
<1>8. ASSUME NEW t \in Tasks, NEW o \in Orders, Checkout(t, o)
     PROVE  Room'
  BY <1>8, EndsIdle DEF Checkout, At
<1>9. ASSUME NEW t \in Tasks, NEW o \in Orders, Settle(t, o)
     PROVE  Room'
  BY <1>9 DEF Settle, Begun, Task, Idle
<1>10. ASSUME NEW t \in Tasks, NEW o \in Orders, CheckRead(t, o)
      PROVE  Room'
  BY <1>10, Judges, EndsIdle DEF CheckRead, At
<1>11. ASSUME NEW t \in Tasks, NEW o \in Orders, ShowRead(t, o)
      PROVE  Room'
  BY <1>11, GoesOn, EndsIdle DEF ShowRead, At
<1>12. ASSUME NEW t \in Tasks, NEW o \in Orders, CheckWrite(t, o)
      PROVE  Room'
  BY <1>12, GoesOn, EndsIdle DEF CheckWrite, At
<1>13. ASSUME NEW t \in Tasks, NEW o \in Orders, NEW a \in Ads, ShowInsert(t, o, a)
      PROVE  Room'
  BY <1>13, Inserts DEF ShowInsert, At
<1>14. ASSUME NEW t \in Tasks, NEW o \in Orders, ShowLink(t, o)
      PROVE  Room'
  BY <1>14, EndsIdle DEF ShowLink, At
<1>15. ASSUME NEW t \in Tasks, NEW o \in Orders, NEW k \in {"approve", "return"}, ReviewRead(t, o, k)
      PROVE  Room'
  BY <1>15 DEF ReviewRead, Reviewable, Begun, Task, Idle
<1>16. ASSUME NEW t \in Tasks, NEW o \in Orders, Approve(t, o)
      PROVE  Room'
  BY <1>16, GoesOn DEF Approve, At
<1>17. ASSUME NEW t \in Tasks, NEW o \in Orders, Return(t, o)
      PROVE  Room'
  BY <1>17, EndsIdle DEF Return, At
<1>18. ASSUME NEW t \in Tasks, NEW o \in Orders, ResubmitRead(t, o)
      PROVE  Room'
  BY <1>18 DEF ResubmitRead, Begun, Task, Idle
<1>19. ASSUME NEW t \in Tasks, NEW o \in Orders, VoidRead(t, o)
      PROVE  Room'
  BY <1>19 DEF VoidRead, Begun, Task, Idle
<1>20. ASSUME NEW t \in Tasks, NEW o \in Orders, Resubmit(t, o)
      PROVE  Room'
  BY <1>20, GoesOn DEF Resubmit, At
<1>21. ASSUME NEW t \in Tasks, NEW o \in Orders, VoidDelete(t, o)
      PROVE  Room'
  BY <1>21, GoesOn DEF VoidDelete, At
<1>22. ASSUME NEW t \in Tasks, NEW o \in Orders, VoidWrite(t, o)
      PROVE  Room'
  BY <1>22, EndsIdle DEF VoidWrite, At
<1>23. ASSUME NEW t \in Tasks, Fail(t)
      PROVE  Room'
  BY <1>23, EndsIdle DEF Fail
<1>24. ASSUME UNCHANGED vars
      PROVE  Room'
  BY <1>24 DEF vars
<1> HIDE DEF Inv, TypeOK, Present, LocksCounted, Room, Statuses, Reviewed, Kinds,
        Reviewing, Expanded, Unlocked, dayVars, orderVars, adVars
<1>25. ASSUME NEW o \in Orders, Create(o) PROVE Room'
  BY <1>25, <1>1, <1>2, <1>3, <1>4 DEF Create
<1>26. ASSUME NEW t \in Tasks, NEW o \in Orders, Payment(t, o) PROVE Room'
  BY <1>26, <1>6, <1>7, <1>8, <1>9 DEF Payment
<1>27. ASSUME NEW t \in Tasks, NEW o \in Orders, Check(t, o) PROVE Room'
  BY <1>27, <1>10, <1>11, <1>12, <1>13, <1>14 DEF Check
<1>28. ASSUME NEW t \in Tasks, NEW o \in Orders, Review(t, o) PROVE Room'
  BY <1>28, <1>15, <1>16, <1>17, <1>18, <1>19, <1>20, <1>21, <1>22 DEF Review
<1> QED
  BY <1>25, <1>5, <1>26, <1>27, <1>28, <1>23, <1>24 DEF Next

\* Only a commit makes an order, and it counts one lock for each of its days.
LEMMA LocksStep == Inv /\ [Next]_vars => LocksCounted'
<1> SUFFICES ASSUME Inv, [Next]_vars PROVE LocksCounted'
  OBVIOUS
<1> USE ConstantsAssumption
<1>1. ASSUME locked' = locked, reserved' = reserved,
             \A o \in Orders : (status'[o] \in {"none", "creating"} <=> status[o] \in {"none", "creating"})
                               /\ (status[o] \notin {"none", "creating"} => days'[o] = days[o])
      PROVE  LocksCounted'
  <2>1. \A d \in Days : Made(d)' = Made(d)
    BY <1>1 DEF Made
  <2> QED
    BY <1>1, <2>1 DEF Inv, LocksCounted
<1>2. ASSUME NEW o \in Orders, CreateCommit(o) PROVE LocksCounted'
  <2> SUFFICES ASSUME NEW d \in Days
               PROVE  locked'[d] = Cardinality(Made(d)') /\ reserved'[d] = 0
    BY DEF LocksCounted
  <2>1. reserved' = reserved /\ days' = days
        /\ locked'[d] = IF d \in days[o] THEN locked[d] + 1 ELSE locked[d]
    BY <1>2 DEF CreateCommit
  <2>2. \A p \in Orders : status'[p] \in {"none", "creating"}
                           <=> status[p] \in {"none", "creating"} /\ p # o
    BY <1>2 DEF CreateCommit, Inv, TypeOK
  <2>3. Made(d)' = IF d \in days[o] THEN Made(d) \cup {o} ELSE Made(d)
    BY <2>1, <2>2, <1>2 DEF Made, CreateCommit
  <2>4. IsFiniteSet(Made(d)) /\ o \notin Made(d)
    BY <1>2, FS_Subset DEF Made, CreateCommit
  <2>5. locked[d] = Cardinality(Made(d)) /\ reserved[d] = 0
    BY DEF Inv, LocksCounted
  <2>6. CASE d \in days[o]
    <3>1. Cardinality(Made(d) \cup {o}) = Cardinality(Made(d)) + 1
      BY <2>4, FS_AddElement
    <3> QED
      BY <2>1, <2>3, <2>5, <2>6, <3>1
  <2>7. CASE d \notin days[o]
    BY <2>1, <2>3, <2>5, <2>7
  <2> QED
    BY <2>6, <2>7
<1> USE Fields DEF Inv, TypeOK, PaidFirst, Present, Statuses, Reviewed, Kinds, Reviewing, Expanded,
        Unlocked, dayVars, orderVars, adVars
<1>3. ASSUME NEW o \in Orders, (\E D \in SUBSET Days : CreateBegin(o, D)) \/ CreateAbort(o)
      PROVE  LocksCounted'
  BY <1>1, <1>3 DEF CreateBegin, CreateAbort
<1>4. ASSUME NEW o \in Orders, NEW d \in Days, LockDay(o, d) PROVE LocksCounted'
  BY <1>1, <1>4 DEF LockDay
<1>5. ASSUME NEW o \in Orders, Lapse(o) \/ Pay(o) PROVE LocksCounted'
  BY <1>1, <1>5 DEF Lapse, Pay
<1>6. ASSUME NEW t \in Tasks, NEW o \in Orders, PayRead(t, o) \/ Checkout(t, o) PROVE LocksCounted'
  BY <1>1, <1>6 DEF PayRead, Checkout
<1>7. ASSUME NEW t \in Tasks, NEW o \in Orders, Release(t, o) \/ Settle(t, o) PROVE LocksCounted'
  <2>1. locked' = locked /\ reserved' = reserved /\ days' = days
    <3>1. locked' = Unlocked(o) /\ Unlocked(o) = locked
      BY ZenonT(40), <1>7 DEF Release, Settle
    <3>2. reserved' = reserved
      <4>1. reserved \in [Days -> 0..Capacity]
        OBVIOUS
      <4>2. CASE Release(t, o)
        BY <4>2 DEF Release
      <4>3. CASE Settle(t, o)
        <5>1. reserved' = [d \in Days |-> reserved[d]]
          BY <4>3 DEF Settle
        <5> HIDE DEF TypeOK
        <5> QED
          BY <4>1, <5>1
      <4> QED
        BY <1>7, <4>2, <4>3
    <3>3. days' = days
      BY <1>7 DEF Release, Settle
    <3> QED
      BY <3>1, <3>2, <3>3
  <2>2. status[o] \notin {"none", "creating"}
    BY <1>7 DEF Release, Settle, At
  <2>3. \E st \in Statuses \ {"none", "creating"} : status' = [status EXCEPT ![o] = st]
    <3>1. CASE Release(t, o)
      BY <3>1, <2>2 DEF Release
    <3>2. CASE Settle(t, o)
      BY <3>2 DEF Settle
    <3> QED
      BY <1>7, <3>1, <3>2
  <2>4. status'[o] \notin {"none", "creating"} /\ \A p \in Orders : p # o => status'[p] = status[p]
    BY <2>3
  <2> QED
    BY <1>1, <2>1, <2>2, <2>4
<1>8. ASSUME NEW t \in Tasks, NEW o \in Orders, Check(t, o) PROVE LocksCounted'
  <2>1. /\ locked' = locked /\ reserved' = reserved /\ days' = days
        /\ status'[o] \in {"none", "creating"} <=> status[o] \in {"none", "creating"}
        /\ \A p \in Orders : p # o => status'[p] = status[p]
    BY <1>8 DEF Check, CheckRead, CheckWrite, ShowRead, ShowInsert, ShowLink, At
  <2> QED
    BY <1>1, <2>1
<1>9. ASSUME NEW t \in Tasks, NEW o \in Orders, Review(t, o) PROVE LocksCounted'
  <2>1. locked' = locked /\ reserved' = reserved /\ days' = days
    BY <1>9 DEF Review, ReviewRead, Approve, Return, ResubmitRead, Resubmit, VoidRead, VoidDelete,
       VoidWrite
  <2>2. CASE status' = status
    BY <1>1, <2>1, <2>2
  <2>3. CASE Approve(t, o) \/ Return(t, o) \/ Resubmit(t, o) \/ VoidWrite(t, o)
    <3>1. status[o] \notin {"none", "creating"}
      BY <2>3 DEF Approve, Return, Resubmit, VoidWrite, At
    <3>2. status'[o] \notin {"none", "creating"} /\ \A p \in Orders : p # o => status'[p] = status[p]
      BY <2>3, <3>1 DEF Approve, Return, Resubmit, VoidWrite
    <3> QED
      BY <1>1, <2>1, <3>1, <3>2
  <2> QED
    BY <1>9, <2>2, <2>3 DEF Review, ReviewRead, ResubmitRead, VoidRead, VoidDelete
<1>10. CASE (\E t \in Tasks : Fail(t)) \/ UNCHANGED vars
  BY <1>1, <1>10 DEF Fail, vars
<1> HIDE DEF Inv, TypeOK, PaidFirst, Present
<1> QED
  BY <1>2, <1>3, <1>4, <1>5, <1>6, <1>7, <1>8, <1>9, <1>10 DEF Next, Create, Payment

--------------------------------------------------------------------------------
(* Theorems *)

\* The conjunction is an invariant.
THEOREM InvInvariant == Spec => []Inv
<1>1. Inv /\ [Next]_vars => Inv'
  BY TypeStep, PaidStep, PresentStep, RoomStep, LocksStep DEF Inv
<1> QED
  BY InitInv, <1>1, PTL DEF Spec

\* Every variable keeps its type; no day's lock count exceeds the slot's places.
THEOREM TypeCorrect == Spec => []TypeOK
<1>1. Inv => TypeOK
  BY DEF Inv
<1> QED
  BY InvInvariant, <1>1, PTL

\* Orders that overlap in days and are made at the same time never share the last place
\* of a day (lockAdSlotDay).
THEOREM NeverOversold == Spec => []NoDayOversold
<1>1. Inv => NoDayOversold
  <2> SUFFICES ASSUME Inv, NEW d \in Days
               PROVE  Cardinality({o \in Orders : Live(o) /\ d \in days[o]}) <= Capacity
    BY DEF NoDayOversold
  <2> DEFINE L == {o \in Orders : Live(o) /\ d \in days[o]}
  <2>1. L \subseteq Made(d)
    BY DEF Live, Made, Reviewed
  <2>2. IsFiniteSet(Made(d))
    BY ConstantsAssumption, FS_Subset DEF Made
  <2>3. Cardinality(L) <= Cardinality(Made(d)) /\ Cardinality(L) \in Nat /\ Cardinality(Made(d)) \in Nat
    BY <2>1, <2>2, FS_Subset, FS_CardinalityType
  <2>4. Cardinality(Made(d)) = locked[d] /\ locked[d] \in 0..Capacity
    BY DEF Inv, LocksCounted, TypeOK
  <2> QED
    BY <2>3, <2>4, ConstantsAssumption
<1> QED
  BY InvInvariant, <1>1, PTL

\* A reviewer who read an order before it was voided or returned, and a check that comes
\* late, put up only what was paid (AdminAdAuditApprove, runAdOrderAutoCheck).
THEOREM OnlyPaidShown == Spec => []NothingUnpaid
<1>1. Inv => NothingUnpaid
  BY DEF Inv, PaidFirst, NothingUnpaid
<1> QED
  BY InvInvariant, <1>1, PTL

\* A paid order never expires (releaseAdOrderLock against settleAdOrder).
THEOREM PaidStands == Spec => PaidStaysPaid
<1>1. Inv /\ [Next]_vars => paid \subseteq paid'
  <2>1. ASSUME NEW o \in Orders, Create(o) \/ Lapse(o) \/ Pay(o) PROVE paid' = paid
    BY <2>1 DEF Create, CreateBegin, LockDay, CreateCommit, CreateAbort, Lapse, Pay, orderVars
  <2>2. ASSUME NEW t \in Tasks, NEW o \in Orders, Payment(t, o) PROVE paid \subseteq paid'
    BY <2>2 DEF Payment, PayRead, Release, Checkout, Settle, orderVars
  <2>3. ASSUME NEW t \in Tasks, NEW o \in Orders, Check(t, o) \/ Review(t, o) PROVE paid' = paid
    BY <2>3 DEF Check, CheckRead, CheckWrite, ShowRead, ShowInsert, ShowLink, Review, ReviewRead, Approve,
       Return, ResubmitRead, Resubmit, VoidRead, VoidDelete, VoidWrite, orderVars
  <2>4. ASSUME NEW t \in Tasks, Fail(t) PROVE paid' = paid
    BY <2>4 DEF Fail, orderVars
  <2> QED
    BY <2>1, <2>2, <2>3, <2>4 DEF Next, vars, orderVars
<1>2. Inv /\ Inv' /\ [Next]_vars
        => \A o \in Orders : o \in paid => status'[o] \in Reviewed \cup {"voided"}
  BY <1>1 DEF Inv, PaidFirst
<1> QED
  BY InvInvariant, <1>2, PTL DEF Spec, PaidStaysPaid

\* A step that changes only what is paid already, or nothing an order promises, stutters.
LEMMA Stutters == ASSUME payments' = payments, paid' = paid,
                         \A o \in Orders \ paid :
                           \/ status'[o] = status[o]
                           \/ status[o] \in {"none", "creating"} /\ status'[o] \in {"none", "creating"}
                  PROVE  UNCHANGED Promise!vars
<1>1. \A o \in Orders : State(o)' = State(o)
  BY DEF State
<1> QED
  BY <1>1 DEF Promise!vars

\* An order that moves from one state of the promise to another moves alone.
LEMMA Moves == ASSUME NEW o \in Orders, NEW s, State(o)' = s,
                      \A p \in Orders : p # o => State(p)' = State(p)
               PROVE  [p \in Orders |-> State(p)]'
                        = [[p \in Orders |-> State(p)] EXCEPT ![o] = s]
OBVIOUS

\* Advertising orders implement OrderSettlement.
THEOREM Refinement == Spec => ImplementsPromise
<1> DEFINE state == [o \in Orders |-> State(o)]
<1>1. Init => Promise!Init
  BY DEF Init, Promise!Init, State
<1>2. Inv /\ Inv' /\ [Next]_vars => [Promise!Next]_(Promise!vars)
  <2> SUFFICES ASSUME Inv, Inv', [Next]_vars
               PROVE  [Promise!Next]_(Promise!vars)
    OBVIOUS
  <2>1. ASSUME NEW o \in Orders, CreateCommit(o) PROVE Promise!Next
    <3>1. paid' = paid /\ payments' = payments /\ status[o] = "creating" /\ status'[o] = "pending_pay"
          /\ \A p \in Orders : p # o => status'[p] = status[p]
      BY <2>1 DEF CreateCommit, Inv, TypeOK
    <3>2. o \notin paid
      BY <3>1 DEF Inv, PaidFirst, Reviewed
    <3>3. State(o) = "none" /\ State(o)' = "open" /\ \A p \in Orders : p # o => State(p)' = State(p)
      BY <3>1, <3>2 DEF State
    <3>4. state' = [p \in Orders |-> IF p \in {o} THEN "open" ELSE state[p]]
      BY <3>3
    <3>5. Promise!Open({o})
      BY <3>1, <3>3, <3>4 DEF Promise!Open
    <3> QED
      BY <3>5 DEF Promise!Next
  <2>2. ASSUME NEW o \in Orders, paid' = paid, payments' = payments, status[o] # status'[o],
               status[o] \notin {"none", "creating"}, status'[o] \in {"expired_lock", "voided"},
               \A p \in Orders : p # o => status'[p] = status[p]
        PROVE  [Promise!Next]_(Promise!vars)
    <3>1. CASE o \in paid \/ status[o] # "pending_pay"
      <4>1. State(o)' = State(o)
        BY <2>2, <3>1 DEF State, Inv, PaidFirst
      <4>2. \A p \in Orders : State(p)' = State(p)
        BY <2>2, <4>1 DEF State
      <4> QED
        BY <2>2, <4>2 DEF Promise!vars
    <3>2. CASE o \notin paid /\ status[o] = "pending_pay"
      <4>1. State(o) = "open" /\ State(o)' = "closed" /\ \A p \in Orders : p # o => State(p)' = State(p)
        BY <2>2, <3>2 DEF State
      <4>2. state' = [p \in Orders |-> IF p \in {o} THEN "closed" ELSE state[p]]
        BY <4>1
      <4>3. Promise!Close({o})
        BY <2>2, <4>1, <4>2 DEF Promise!Close
      <4> QED
        BY <4>3 DEF Promise!Next
    <3> QED
      BY <3>1, <3>2
  <2>3. ASSUME NEW t \in Tasks, NEW o \in Orders, Settle(t, o) PROVE Promise!Next
    <3>1. status[o] = "pending_pay" /\ paid' = paid \cup {o} /\ payments' = [payments EXCEPT ![o] = @ + 1]
      BY <2>3 DEF Settle
    <3>2. \A p \in Orders : p # o => status'[p] = status[p]
      BY <2>3 DEF Settle, Inv, TypeOK
    <3>3. o \notin paid
      BY <3>1 DEF Inv, PaidFirst, Reviewed
    <3>4. State(o) = "open" /\ State(o)' = "granted" /\ \A p \in Orders : p # o => State(p)' = State(p)
      BY <3>1, <3>2, <3>3 DEF State
    <3>5. state' = [state EXCEPT ![o] = "granted"]
      BY <3>4, Moves
    <3>6. Promise!Grant(o)
      BY <3>1, <3>4, <3>5 DEF Promise!Grant
    <3> QED
      BY <3>6 DEF Promise!Next
  <2> USE Fields
  <2>4. ASSUME NEW o \in Orders, Create(o) \/ Lapse(o) \/ Pay(o), ~CreateCommit(o)
        PROVE  UNCHANGED Promise!vars
    <3>1. payments' = payments /\ paid' = paid
      BY <2>4 DEF Create, CreateBegin, LockDay, CreateAbort, Lapse, Pay, orderVars
    <3>2. \A p \in Orders : \/ status'[p] = status[p]
                            \/ status[p] \in {"none", "creating"} /\ status'[p] \in {"none", "creating"}
      BY <2>4 DEF Create, CreateBegin, LockDay, CreateAbort, Lapse, Pay, orderVars, Inv, TypeOK
    <3> QED
      BY <3>1, <3>2, Stutters
  <2>5. ASSUME NEW t \in Tasks, NEW o \in Orders, Release(t, o) PROVE [Promise!Next]_(Promise!vars)
    <3>1. /\ paid' = paid /\ payments' = payments
          /\ status[o] \notin {"none", "creating"}
          /\ status'[o] = IF status[o] = "pending_pay" THEN "expired_lock" ELSE status[o]
          /\ \A p \in Orders : p # o => status'[p] = status[p]
      BY <2>5 DEF Release, At, Inv, TypeOK, Present
    <3>2. CASE status[o] = status'[o]
      BY <3>1, <3>2, Stutters
    <3> QED
      BY <3>1, <3>2, <2>2
  <2>6. ASSUME NEW t \in Tasks, NEW o \in Orders, VoidWrite(t, o) PROVE [Promise!Next]_(Promise!vars)
    <3>1. /\ paid' = paid /\ payments' = payments
          /\ status[o] \notin {"none", "creating"}
          /\ status'[o] = "voided"
          /\ \A p \in Orders : p # o => status'[p] = status[p]
      BY <2>6 DEF VoidWrite, At, Inv, TypeOK, Present
    <3>2. CASE status[o] = status'[o]
      BY <3>1, <3>2, Stutters
    <3> QED
      BY <3>1, <3>2, <2>2
  <2>7. ASSUME NEW t \in Tasks, NEW o \in Orders, PayRead(t, o) \/ Checkout(t, o) PROVE UNCHANGED Promise!vars
    BY <2>7, Stutters DEF PayRead, Checkout, orderVars
  <2>8. ASSUME NEW t \in Tasks, NEW o \in Orders, Check(t, o) PROVE UNCHANGED Promise!vars
    <3>1. payments' = payments /\ paid' = paid
      BY <2>8 DEF Check, CheckRead, CheckWrite, ShowRead, ShowInsert, ShowLink, orderVars
    <3>2. \A p \in Orders : status'[p] = status[p] \/ p = o
      BY <2>8 DEF Check, CheckRead, CheckWrite, ShowRead, ShowInsert, ShowLink, orderVars, Inv, TypeOK
    <3>3. o \in paid
      BY <2>8 DEF Check, CheckRead, CheckWrite, ShowRead, ShowInsert, ShowLink, At, Inv, PaidFirst,
         Reviewing
    <3> QED
      BY <3>1, <3>2, <3>3, Stutters
  <2>9. ASSUME NEW t \in Tasks, NEW o \in Orders, Review(t, o), ~VoidWrite(t, o)
        PROVE  UNCHANGED Promise!vars
    <3>1. payments' = payments /\ paid' = paid
      BY <2>9 DEF Review, ReviewRead, Approve, Return, ResubmitRead, Resubmit, VoidRead, VoidDelete, orderVars
    <3>2. \A p \in Orders : status'[p] = status[p] \/ p = o
      BY <2>9 DEF Review, ReviewRead, Approve, Return, ResubmitRead, Resubmit, VoidRead, VoidDelete,
         orderVars, Inv, TypeOK
    <3>3. status' = status \/ o \in paid
      <4>1. CASE Approve(t, o) \/ Return(t, o) \/ Resubmit(t, o)
        BY <4>1 DEF Approve, Return, Resubmit, At, Inv, PaidFirst, Reviewing
      <4>2. CASE ~(Approve(t, o) \/ Return(t, o) \/ Resubmit(t, o))
        BY <2>9, <4>2 DEF Review, ReviewRead, ResubmitRead, VoidRead, VoidDelete, orderVars
      <4> QED
        BY <4>1, <4>2
    <3> QED
      BY <3>1, <3>2, <3>3, Stutters
  <2>10. CASE (\E t \in Tasks : Fail(t)) \/ UNCHANGED vars
    BY <2>10, Stutters DEF Fail, vars, orderVars
  <2> QED
    BY <2>1, <2>3, <2>4, <2>5, <2>6, <2>7, <2>8, <2>9, <2>10 DEF Next, Payment
<1> QED
  BY InvInvariant, <1>1, <1>2, PTL DEF Spec, ImplementsPromise, Promise!Spec

================================================================================
