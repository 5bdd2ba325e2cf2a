-------------------------------- MODULE DBPool --------------------------------
(***************************************************************************)
(* The process-wide pool of database connections (config/db.go) and the    *)
(* three ways handlers use it: one connection at a time, a transaction     *)
(* that asks the pool for a second connection before it ends               *)
(* (settleLicensePurchaseOrder calling appIsCommercialProduct), and the    *)
(* return pages of the payment channels, which close what they were given. *)
(***************************************************************************)
EXTENDS Naturals, FiniteSets

CONSTANTS
  Plain, Nested, Returns,   \* requests, by the way they use the pool
  Pools,                    \* identities of the *sql.DB values made (bounds rebuilding)
  DSNs,                     \* data source names the configuration may hold
  MaxOpenConns              \* AUTO_PRO_DB_MAX_OPEN_CONNS

Handlers == Plain \cup Nested \cup Returns

ASSUME PoolAssumption ==
  /\ MaxOpenConns \in Nat \ {0}
  /\ Plain \cap Nested = {} /\ Plain \cap Returns = {} /\ Nested \cap Returns = {}

VARIABLES
  dsn,        \* the data source name of the configuration
  dbPool,     \* the current pool: {} or a singleton
  dbPoolDSN,  \* what it was made for
  pools,      \* pool -> "unmade", "open", "retiring", or closed: "closed" by retirePool,
              \* "shut" by a handler
  pc,         \* request -> how far it is
  wanted,     \* request -> the data source name it read
  given,      \* request -> the pool DB() gave it: {} or a singleton
  conns       \* pool -> connections in use, as pairs <<request, number>>

poolVars == <<dsn, dbPool, dbPoolDSN, pools, pc, wanted, given, conns>>

PoolTypeOK ==
  /\ dsn \in DSNs
  /\ dbPool \in SUBSET Pools
  /\ dbPoolDSN \in DSNs
  /\ pools \in [Pools -> {"unmade", "open", "retiring", "closed", "shut"}]
  /\ pc \in [Handlers -> {"idle", "configured", "given", "working", "nested", "closing", "answered", "failed"}]
  /\ wanted \in [Handlers -> DSNs]
  /\ given \in [Handlers -> SUBSET Pools]
  /\ conns \in [Pools -> SUBSET (Handlers \X {1, 2})]
  /\ \A p \in Pools : Cardinality(conns[p]) <= MaxOpenConns

PoolInit ==
  /\ dsn \in DSNs
  /\ dbPool = {}
  /\ dbPoolDSN = dsn
  /\ pools = [p \in Pools |-> "unmade"]
  /\ pc = [h \in Handlers |-> "idle"]
  /\ wanted = [h \in Handlers |-> dsn]
  /\ given = [h \in Handlers |-> {}]
  /\ conns = [p \in Pools |-> {}]

--------------------------------------------------------------------------------

\* LoadDBConfig, under a lock of its own.
ReadConfig(h) ==
  /\ pc[h] = "idle"
  /\ wanted' = [wanted EXCEPT ![h] = dsn]
  /\ pc' = [pc EXCEPT ![h] = "configured"]
  /\ UNCHANGED <<dsn, dbPool, dbPoolDSN, pools, given, conns>>

\* dbPoolFor under dbPoolMu: the pool of the DSN the request read, by then perhaps
\* not the configured one, is reused whatever its state.
Reuse(d) == dbPool # {} /\ dbPoolDSN = d

ReusePool(h) ==
  /\ pc[h] = "configured"
  /\ Reuse(wanted[h])
  /\ given' = [given EXCEPT ![h] = dbPool]
  /\ pc' = [pc EXCEPT ![h] = "given"]
  /\ UNCHANGED <<dsn, dbPool, dbPoolDSN, pools, wanted, conns>>

Retired(p) == IF p \in dbPool /\ pools[p] = "open" THEN "retiring" ELSE pools[p]

\* Mutant: the goroutine reads dbPool after the new pool was stored in it.
OpenPoolRetiresNew(h, n) ==
  /\ pc[h] = "configured"
  /\ ~Reuse(wanted[h])
  /\ pools[n] = "unmade"
  /\ pools' = [pools EXCEPT ![n] = IF dbPool = {} THEN "open" ELSE "retiring"]
  /\ dbPool' = {n}
  /\ dbPoolDSN' = wanted[h]
  /\ given' = [given EXCEPT ![h] = {n}]
  /\ pc' = [pc EXCEPT ![h] = "given"]
  /\ UNCHANGED <<dsn, wanted, conns>>

\* Another DSN: open a new pool and leave the old one to retirePool.
OpenPool(h, n) ==
  /\ pc[h] = "configured"
  /\ ~Reuse(wanted[h])
  /\ pools[n] = "unmade"
  /\ pools' = [p \in Pools |-> IF p = n THEN "open" ELSE Retired(p)]
  /\ dbPool' = {n}
  /\ dbPoolDSN' = wanted[h]
  /\ given' = [given EXCEPT ![h] = {n}]
  /\ pc' = [pc EXCEPT ![h] = "given"]
  /\ UNCHANGED <<dsn, wanted, conns>>

\* Thirty seconds later retirePool closes it.
Retire(p) ==
  /\ pools[p] = "retiring"
  /\ pools' = [pools EXCEPT ![p] = "closed"]
  /\ UNCHANGED <<dsn, dbPool, dbPoolDSN, pc, wanted, given, conns>>

\* The installer writes another database configuration.
Reconfigure(d) ==
  /\ d # dsn
  /\ dsn' = d
  /\ UNCHANGED <<dbPool, dbPoolDSN, pools, pc, wanted, given, conns>>

--------------------------------------------------------------------------------

Usable(p) == pools[p] \in {"open", "retiring"}

Free(p) == Usable(p) /\ Cardinality(conns[p]) < MaxOpenConns

\* A query or BEGIN waits for a connection of the pool.
TakeConn(h) ==
  /\ pc[h] = "given"
  /\ \E p \in given[h] : /\ Free(p)
                         /\ conns' = [conns EXCEPT ![p] = @ \cup {<<h, 1>>}]
  /\ pc' = [pc EXCEPT ![h] = "working"]
  /\ UNCHANGED <<dsn, dbPool, dbPoolDSN, pools, wanted, given>>

\* appIsCommercialProduct(db, ...) inside the settlement's transaction.
TakeSecond(h) ==
  /\ h \in Nested
  /\ pc[h] = "working"
  /\ \E p \in given[h] : /\ Free(p)
                         /\ conns' = [conns EXCEPT ![p] = @ \cup {<<h, 2>>}]
  /\ pc' = [pc EXCEPT ![h] = "nested"]
  /\ UNCHANGED <<dsn, dbPool, dbPoolDSN, pools, wanted, given>>

\* "sql: database is closed": the next use of a closed pool fails, and the
\* deferred Rollback gives back what the request held.
UseClosed(h) ==
  /\ pc[h] = "given" \/ (pc[h] = "working" /\ h \in Nested)
  /\ \E p \in given[h] : ~Usable(p)
  /\ conns' = [p \in Pools |-> conns[p] \ ({h} \X {1, 2})]
  /\ pc' = [pc EXCEPT ![h] = IF h \in Returns THEN "closing" ELSE "failed"]
  /\ UNCHANGED <<dsn, dbPool, dbPoolDSN, pools, wanted, given>>

\* Commit or rollback; the connections go back to the pool.
Released(h) == [p \in Pools |-> conns[p] \ ({h} \X {1, 2})]

\* Mutant: the connection of the nested query is not given back (rows left open).
FinishLeaks(h) ==
  /\ pc[h] = IF h \in Nested THEN "nested" ELSE "working"
  /\ conns' = [p \in Pools |-> conns[p] \ {<<h, 1>>}]
  /\ pc' = [pc EXCEPT ![h] = IF h \in Returns THEN "closing" ELSE "answered"]
  /\ UNCHANGED <<dsn, dbPool, dbPoolDSN, pools, wanted, given>>

Finish(h) ==
  /\ pc[h] = IF h \in Nested THEN "nested" ELSE "working"
  /\ conns' = Released(h)
  /\ pc' = [pc EXCEPT ![h] = IF h \in Returns THEN "closing" ELSE "answered"]
  /\ UNCHANGED <<dsn, dbPool, dbPoolDSN, pools, wanted, given>>

\* EpayReturn and EpayV2Return: db.Close() before the redirect.
CloseGiven(h) ==
  /\ h \in Returns
  /\ pc[h] = "closing"
  /\ pools' = [p \in Pools |-> IF p \in given[h] THEN "shut" ELSE pools[p]]
  /\ pc' = [pc EXCEPT ![h] = "answered"]
  /\ UNCHANGED <<dsn, dbPool, dbPoolDSN, wanted, given, conns>>

\* The next request of the same client.
Again(h) ==
  /\ pc[h] \in {"answered", "failed"}
  /\ pc' = [pc EXCEPT ![h] = "idle"]
  /\ wanted' = [wanted EXCEPT ![h] = dsn]
  /\ given' = [given EXCEPT ![h] = {}]
  /\ UNCHANGED <<dsn, dbPool, dbPoolDSN, pools, conns>>

--------------------------------------------------------------------------------

Work(h) == TakeConn(h) \/ TakeSecond(h) \/ UseClosed(h) \/ Finish(h) \/ CloseGiven(h)

PoolNext ==
  \/ \E h \in Handlers : ReadConfig(h) \/ ReusePool(h) \/ Work(h) \/ Again(h)
  \/ \E h \in Handlers, n \in Pools : OpenPool(h, n)
  \/ \E p \in Pools : Retire(p)
  \/ \E d \in DSNs : Reconfigure(d)

PoolSpec == PoolInit /\ [][PoolNext]_poolVars

\* database/sql hands a returned connection to one of the waiting requests, drawn at
\* random, so a request is not passed over for ever; and a request runs to its end.
PoolFairSpec == PoolSpec /\ \A h \in Handlers : SF_poolVars(Work(h))

--------------------------------------------------------------------------------

\* The pool that DB() gives to the next request has not been closed, unless a handler
\* did: a reconfiguration retires only pools that were replaced.
CurrentPoolOpen == \A p \in dbPool : pools[p] \in {"open", "shut"}

\* config/db.go:34: callers must not close the pool they were given.
CallersLeaveItOpen == \A p \in Pools : pools[p] # "shut"

\* Transactions that hold a connection of p and want a second one.
WaitingNested(p) == {h \in Nested : pc[h] = "working" /\ <<h, 1>> \in conns[p]}

\* They hold all of its connections, so that none of them will get its second one and
\* nobody else his first (agent_panel_payment.go:872).
Jammed(p) == Usable(p) /\ Cardinality(WaitingNested(p)) >= MaxOpenConns

\* Every request that was given the pool is answered or fails, unless as many
\* transactions as the pool has connections each wait for a second one: nothing else
\* keeps a connection from coming back, and a closed pool fails at once.
RequestsEnd ==
  \A h \in Handlers :
    pc[h] = "given" ~> \/ pc[h] \in {"answered", "failed"}
                       \/ \E p \in given[h] : Jammed(p)

\* In every state a full pool has a request that can go on without another connection, or
\* is jammed.
WaitsForSomeone ==
  \A p \in Pools :
    Usable(p) /\ ~Free(p) /\ ~Jammed(p)
      => \E h \in Handlers : /\ conns[p] \cap ({h} \X {1, 2}) # {}
                             /\ pc[h] = IF h \in Nested THEN "nested" ELSE "working"

================================================================================
