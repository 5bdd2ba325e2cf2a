-------------------------------- MODULE Realname --------------------------------
(***************************************************************************)
(* Identity checks (realname.go, xiaomu_realname.go).  An owner, a user or *)
(* an agent, hands in a name and an identity number; a provider judges     *)
(* them.  Four kinds of check differ in who asks the provider when:        *)
(*                                                                         *)
(*   photo    kuaitong's and tencent's face sessions: the owner takes a    *)
(*            photo, and the request that submits it claims the session,   *)
(*            calls the billed interface and settles the session;          *)
(*            tencent's may stay open and be asked for by polls            *)
(*   record   xiaomu's sessions: polls ask for the record until it is over *)
(*   order    alipay's orders: likewise, and the row goes when it passed   *)
(*   direct   kuaitong's two elements: one call, no session                *)
(*                                                                         *)
(* Each statement on the database is a step, since none but the claims is  *)
(* in a transaction, and their errors are ignored.  A session stands for   *)
(* the identity that was handed in with it.  A change of the provider in   *)
(* the settings only makes requests be refused, and is left out; so are    *)
(* the records of failed checks.                                           *)
(***************************************************************************)
EXTENDS Naturals, FiniteSets

CONSTANTS
  Sessions,
  Owners,
  Requests,         \* requests at work at one time (a bound)
  MaxAttempts,      \* realnameFaceMaxAttempts
  MaxRestarts,      \* bound on restarts of the process
  MaxFailures       \* bound on statements whose error is ignored

NoSession == "no session"
Nobody == "nobody"

ASSUME ConstantsAssumption ==
  /\ MaxAttempts \in Nat /\ MaxRestarts \in Nat /\ MaxFailures \in Nat
  /\ NoSession \notin Sessions /\ Nobody \notin Owners

VARIABLES
  kind,         \* session -> the kind of its check
  owner,        \* session -> whose it is
  status,       \* session -> realnameFaceSession.Status, "none" without a row
  reference,    \* sessions whose CertifyID or RecordID is set
  expired,      \* sessions past ExpireAt
  verdict,      \* session -> what the provider has decided of the record or order
  attempts,     \* session -> realnameFaceAttempts, in memory
  identity,     \* owner -> the session whose name is in the owner's row
  records,      \* session -> its rows in realname_records with status passed
  at,           \* request -> what it does next
  on,           \* request -> its session
  calls,        \* history: session -> calls of the billed interface
  lost,         \* history: sessions of which a step was lost
  restarts, failures

sessionVars == <<kind, owner, status, reference, expired>>
resultVars == <<identity, records>>
countVars == <<attempts, calls>>
faultVars == <<lost, restarts, failures>>
requestVars == <<at, on>>
vars == <<sessionVars, verdict, resultVars, countVars, faultVars, requestVars>>

Kinds == {"kuaitong", "tencent", "record", "order", "direct"}
Photo == {"kuaitong", "tencent"}
Statuses == {"none", "pending", "processing", "passed", "failed", "unknown", "deleted"}

\* Stages of a request.  "submit", "poll": it has read the session.  "claimed",
\* "verify", "confirm", "query": the session is claimed for it.  "ask": it asks without
\* a claim.  "pass", "write", "record", "delete": what is left to do after a success.
Claimed == {"claimed", "verify", "confirm", "query"}
Finishing == {"pass", "write", "record", "delete"}
Stages == {"idle", "init", "submit", "poll", "ask"} \cup Claimed \cup Finishing

TypeOK ==
  /\ kind \in [Sessions -> Kinds \cup {"none"}]
  /\ owner \in [Sessions -> Owners \cup {Nobody}]
  /\ status \in [Sessions -> Statuses]
  /\ reference \in SUBSET Sessions
  /\ expired \in SUBSET Sessions
  /\ verdict \in [Sessions -> {"open", "passed", "failed"}]
  /\ attempts \in [Sessions -> 0..MaxAttempts]
  /\ identity \in [Owners -> Sessions \cup {NoSession}]
  /\ records \in [Sessions -> Nat]
  /\ at \in [Requests -> Stages]
  /\ on \in [Requests -> Sessions \cup {NoSession}]
  /\ calls \in [Sessions -> Nat]
  /\ lost \in SUBSET Sessions
  /\ restarts \in 0..MaxRestarts
  /\ failures \in 0..MaxFailures

Init ==
  /\ kind = [s \in Sessions |-> "none"]
  /\ owner = [s \in Sessions |-> Nobody]
  /\ status = [s \in Sessions |-> "none"]
  /\ reference = {}
  /\ expired = {}
  /\ verdict = [s \in Sessions |-> "open"]
  /\ attempts = [s \in Sessions |-> 0]
  /\ identity = [o \in Owners |-> NoSession]
  /\ records = [s \in Sessions |-> 0]
  /\ at = [r \in Requests |-> "idle"]
  /\ on = [r \in Requests |-> NoSession]
  /\ calls = [s \in Sessions |-> 0]
  /\ lost = {}
  /\ restarts = 0
  /\ failures = 0

--------------------------------------------------------------------------------
(* Requests *)

Begins(r, stage, s) ==
  /\ at[r] = "idle"
  /\ at' = [at EXCEPT ![r] = stage]
  /\ on' = [on EXCEPT ![r] = s]

Goes(r, stage) == at' = [at EXCEPT ![r] = stage] /\ UNCHANGED on

Answers(r) ==
  /\ at' = [at EXCEPT ![r] = "idle"]
  /\ on' = [on EXCEPT ![r] = NoSession]

Alive(s) == status[s] \notin {"none", "deleted"} /\ s \notin expired

\* saveRealnameFaceSession: the whole value, whatever is in the row by now.
Saves(s, st) == status' = [status EXCEPT ![s] = st] /\ UNCHANGED <<kind, owner, expired>>

--------------------------------------------------------------------------------
(* realnameInit *)

\* The owner is not verified yet, says the row; the provider has not been asked.
InitRead(r, s, o, k) ==
  /\ kind[s] = "none"
  /\ identity[o] = NoSession
  /\ Begins(r, "init", s)
  /\ kind' = [kind EXCEPT ![s] = k]
  /\ owner' = [owner EXCEPT ![s] = o]
  /\ UNCHANGED <<status, reference, expired, verdict, resultVars, countVars, faultVars>>

\* The provider refuses or cannot be reached: no session, or one that is over.
InitRefused(r) ==
  /\ at[r] = "init"
  /\ kind[on[r]] \in {"record", "order", "direct"}
  /\ \E st \in IF kind[on[r]] = "record" THEN {"failed", "unknown"} ELSE {"deleted"} :
       Saves(on[r], st)
  /\ Answers(r)
  /\ UNCHANGED <<reference, verdict, resultVars, countVars, faultVars>>

\* The session or order is inserted.
InitPending(r) ==
  /\ at[r] = "init"
  /\ kind[on[r]] # "direct"
  /\ Saves(on[r], "pending")
  /\ reference' = IF kind[on[r]] \in Photo THEN reference ELSE reference \cup {on[r]}
  /\ Answers(r)
  /\ UNCHANGED <<verdict, resultVars, countVars, faultVars>>

\* The provider passes it at once; a direct check has no session to save.
InitPassed(r) ==
  /\ at[r] = "init"
  /\ kind[on[r]] \in {"record", "direct"}
  /\ verdict' = [verdict EXCEPT ![on[r]] = "passed"]
  /\ Goes(r, IF kind[on[r]] = "record" THEN "pass" ELSE "write")
  /\ UNCHANGED <<sessionVars, resultVars, countVars, faultVars>>

--------------------------------------------------------------------------------
(* RealnameFaceSubmit *)

SubmitRead(r, s) ==
  /\ Alive(s)
  /\ kind[s] \in Photo
  /\ status[s] \in {"pending", "failed"}
  /\ Begins(r, "submit", s)
  /\ UNCHANGED <<sessionVars, verdict, resultVars, countVars, faultVars>>

\* Mutant: the status that was read before is trusted.
ClaimableTrusted(s) == Alive(s)

Claimable(s) == Alive(s) /\ status[s] \in {"pending", "failed"}

\* claimRealnameFaceSession: one transaction with the row locked.
Claim(r) ==
  /\ at[r] = "submit"
  /\ Claimable(on[r])
  /\ Saves(on[r], "processing")
  /\ Goes(r, "claimed")
  /\ UNCHANGED <<reference, verdict, resultVars, countVars, faultVars>>

\* Another request was faster, the session is over, or the transaction fails.
ClaimRefused(r) ==
  /\ at[r] = "submit"
  /\ Answers(r)
  /\ UNCHANGED <<sessionVars, verdict, resultVars, countVars, faultVars>>

\* Mutant: one attempt too many.
AllowedOneMore(s) == attempts[s] <= MaxAttempts

AttemptAllowed(s) == attempts[s] < MaxAttempts

Attempt(r) ==
  /\ at[r] = "claimed"
  /\ AttemptAllowed(on[r])
  /\ attempts' = [attempts EXCEPT ![on[r]] = @ + 1]
  /\ calls' = [calls EXCEPT ![on[r]] = @ + 1]
  /\ Goes(r, "verify")
  /\ UNCHANGED <<sessionVars, verdict, resultVars, faultVars>>

TooManyAttempts(r) ==
  /\ at[r] = "claimed"
  /\ ~AttemptAllowed(on[r])
  /\ Saves(on[r], "failed")
  /\ Answers(r)
  /\ UNCHANGED <<reference, verdict, resultVars, countVars, faultVars>>

\* Mutant: an interface that cannot be reached leaves the session as it is.
VerifyErrorUnsaved(r) ==
  /\ at[r] = "verify"
  /\ Answers(r)
  /\ UNCHANGED <<sessionVars, verdict, resultVars, countVars, faultVars>>

\* No answer: the photo may be submitted again.
VerifyError(r) ==
  /\ at[r] = "verify"
  /\ Saves(on[r], "pending")
  /\ Answers(r)
  /\ UNCHANGED <<reference, verdict, resultVars, countVars, faultVars>>

\* The photo is refused, by the first answer or by the confirmation.
VerifyFailed(r) ==
  /\ at[r] \in {"verify", "confirm"}
  /\ Saves(on[r], "failed")
  /\ Answers(r)
  /\ UNCHANGED <<reference, verdict, resultVars, countVars, faultVars>>

\* Passed; tencent's answer may ask for a confirmation by a query.
VerifyPassed(r) ==
  /\ at[r] = "verify"
  /\ \/ Goes(r, "pass")
     \/ kind[on[r]] = "tencent" /\ Goes(r, "confirm")
  /\ UNCHANGED <<sessionVars, verdict, resultVars, countVars, faultVars>>

\* The confirmation passes, or fails to answer: the first answer then stands.
Confirmed(r) ==
  /\ at[r] = "confirm"
  /\ Goes(r, "pass")
  /\ UNCHANGED <<sessionVars, verdict, resultVars, countVars, faultVars>>

\* The provider has not finished: polls are to ask for the certificate.
ConfirmPending(r) ==
  /\ at[r] = "confirm"
  /\ Saves(on[r], "pending")
  /\ reference' = reference \cup {on[r]}
  /\ Answers(r)
  /\ UNCHANGED <<verdict, resultVars, countVars, faultVars>>

--------------------------------------------------------------------------------
(* realnameQuery and what it calls *)

PollRead(r, s) ==
  /\ Alive(s)
  /\ kind[s] \in {"tencent", "record", "order"}
  /\ status[s] = "pending"
  /\ s \in reference
  /\ Begins(r, IF kind[s] = "tencent" THEN "poll" ELSE "ask", s)
  /\ UNCHANGED <<sessionVars, verdict, resultVars, countVars, faultVars>>

\* Mutant: the status that was read before is trusted.
QueryClaimableTrusted(s) == Alive(s)

QueryClaimable(s) == Alive(s) /\ status[s] = "pending"

\* claimTencentRealnameQuerySession: one transaction with the row locked.
QueryClaim(r) ==
  /\ at[r] = "poll"
  /\ QueryClaimable(on[r])
  /\ Saves(on[r], "processing")
  /\ Goes(r, "query")
  /\ UNCHANGED <<reference, verdict, resultVars, countVars, faultVars>>

QueryRefused(r) ==
  /\ at[r] = "poll"
  /\ Answers(r)
  /\ UNCHANGED <<sessionVars, verdict, resultVars, countVars, faultVars>>

\* Tencent: unknown or still open, refused, or passed.
QueryOpen(r) ==
  /\ at[r] = "query"
  /\ \E st \in {"pending", "failed"} : Saves(on[r], st)
  /\ Answers(r)
  /\ UNCHANGED <<reference, verdict, resultVars, countVars, faultVars>>

QueryPassed(r) ==
  /\ at[r] = "query"
  /\ Goes(r, "pass")
  /\ UNCHANGED <<sessionVars, verdict, resultVars, countVars, faultVars>>

\* The provider of a record or an order makes up its mind.
Decide(s, v) ==
  /\ kind[s] \in {"record", "order"}
  /\ status[s] = "pending"
  /\ verdict[s] = "open"
  /\ verdict' = [verdict EXCEPT ![s] = v]
  /\ UNCHANGED <<sessionVars, resultVars, countVars, faultVars, requestVars>>

\* It has not yet, or cannot be reached; an order has no other answer than a success.
AskOpen(r) ==
  /\ at[r] = "ask"
  /\ verdict[on[r]] = "open" \/ kind[on[r]] = "order"
  /\ Answers(r)
  /\ UNCHANGED <<sessionVars, verdict, resultVars, countVars, faultVars>>

AskFailed(r) ==
  /\ at[r] = "ask"
  /\ verdict[on[r]] = "failed" /\ kind[on[r]] = "record"
  /\ Saves(on[r], "failed")
  /\ Answers(r)
  /\ UNCHANGED <<reference, verdict, resultVars, countVars, faultVars>>

AskPassed(r) ==
  /\ at[r] = "ask"
  /\ verdict[on[r]] = "passed"
  /\ Goes(r, IF kind[on[r]] = "record" THEN "pass" ELSE "write")
  /\ UNCHANGED <<sessionVars, verdict, resultVars, countVars, faultVars>>

--------------------------------------------------------------------------------
(* After a success: three statements, one after another *)

Pass(r) ==
  /\ at[r] = "pass"
  /\ Saves(on[r], "passed")
  /\ Goes(r, "write")
  /\ UNCHANGED <<reference, verdict, resultVars, countVars, faultVars>>

\* Mutant: an owner who has a name already keeps it and is not written.
WriteSkipped(r) ==
  /\ at[r] = "write"
  /\ Goes(r, "record")
  /\ UNCHANGED <<sessionVars, verdict, resultVars, countVars, faultVars>>

\* UPDATE users or agents SET real_name, real_id_card, realname_at.
Write(r) ==
  /\ at[r] = "write"
  /\ identity' = [identity EXCEPT ![owner[on[r]]] = on[r]]
  /\ Goes(r, "record")
  /\ UNCHANGED <<sessionVars, verdict, records, countVars, faultVars>>

\* A photo's attempts are forgotten by its submit, and kept by a poll, which only
\* tencent's sessions have; here the request does not tell which it is.
AttemptsAfter(s) ==
  {a \in {attempts, [attempts EXCEPT ![s] = 0]} :
     CASE kind[s] = "kuaitong" -> a[s] = 0
       [] kind[s] = "tencent" -> TRUE
       [] OTHER -> a = attempts}

\* An order's row is still to be deleted.
Recorded(r) == IF kind[on[r]] = "order" THEN Goes(r, "delete") ELSE Answers(r)

\* writeRealnameRecord.
Record(r) ==
  /\ at[r] = "record"
  /\ records' = [records EXCEPT ![on[r]] = @ + 1]
  /\ attempts' \in AttemptsAfter(on[r])
  /\ Recorded(r)
  /\ UNCHANGED <<sessionVars, verdict, identity, calls, faultVars>>

Delete(r) ==
  /\ at[r] = "delete"
  /\ Saves(on[r], "deleted")
  /\ Answers(r)
  /\ UNCHANGED <<reference, verdict, resultVars, countVars, faultVars>>

--------------------------------------------------------------------------------
(* Time and faults *)

Expire(s) ==
  /\ kind[s] \in Photo \cup {"record"}
  /\ status[s] \notin {"none", "deleted"}
  /\ s \notin expired
  /\ expired' = expired \cup {s}
  /\ UNCHANGED <<kind, owner, status, reference, verdict, resultVars, countVars, faultVars,
                 requestVars>>

\* A statement whose error is ignored: the handler goes on as if it had worked.  Only
\* a direct check looks at the error, and ends.
StatementFails(r) ==
  /\ failures < MaxFailures
  /\ failures' = failures + 1
  /\ \/ at[r] \in Claimed /\ Answers(r)
     \/ at[r] = "pass" /\ Goes(r, "write")
     \/ at[r] = "write" /\ kind[on[r]] = "direct" /\ Answers(r)
     \/ at[r] = "write" /\ kind[on[r]] # "direct" /\ Goes(r, "record")
     \/ at[r] = "record" /\ Recorded(r)
     \/ at[r] = "delete" /\ Answers(r)
  /\ attempts' \in IF at[r] = "record" THEN AttemptsAfter(on[r]) ELSE {attempts}
  /\ lost' = lost \cup {on[r]}
  /\ UNCHANGED <<sessionVars, verdict, resultVars, calls, restarts>>

\* The process stops between two steps of its requests and starts again.
Restart ==
  /\ restarts < MaxRestarts
  /\ restarts' = restarts + 1
  /\ lost' = lost \cup {on[r] : r \in {q \in Requests : at[q] \in Claimed \cup Finishing}}
  /\ at' = [r \in Requests |-> "idle"]
  /\ on' = [r \in Requests |-> NoSession]
  /\ attempts' = [s \in Sessions |-> 0]
  /\ UNCHANGED <<sessionVars, verdict, resultVars, calls, failures>>

--------------------------------------------------------------------------------

\* What a request does once it has begun.
Work(r) ==
  \/ InitRefused(r) \/ InitPending(r) \/ InitPassed(r)
  \/ Claim(r) \/ ClaimRefused(r) \/ Attempt(r) \/ TooManyAttempts(r)
  \/ VerifyError(r) \/ VerifyFailed(r) \/ VerifyPassed(r) \/ Confirmed(r) \/ ConfirmPending(r)
  \/ QueryClaim(r) \/ QueryRefused(r) \/ QueryOpen(r) \/ QueryPassed(r)
  \/ AskOpen(r) \/ AskFailed(r) \/ AskPassed(r)
  \/ Pass(r) \/ Write(r) \/ Record(r) \/ Delete(r)

Starts(r, s) ==
  \/ \E o \in Owners, k \in Kinds : InitRead(r, s, o, k)
  \/ SubmitRead(r, s) \/ PollRead(r, s)

Provider(s) == \E v \in {"passed", "failed"} : Decide(s, v)

Next ==
  \/ \E r \in Requests : Work(r) \/ StatementFails(r)
  \/ \E r \in Requests, s \in Sessions : Starts(r, s)
  \/ \E s \in Sessions : Provider(s) \/ Expire(s)
  \/ Restart

Spec == Init /\ [][Next]_vars

\* A handler goes on: no step of it waits for another request, and calls of a
\* provider have a timeout.
Fairness == \A r \in Requests : WF_vars(Work(r))

FairSpec == Spec /\ Fairness

--------------------------------------------------------------------------------
(* Properties *)

On(s, stages) == {r \in Requests : on[r] = s /\ at[r] \in stages}

\* Two requests never work on one photo session at a time, so that the billed interface
\* is never called twice for one photo ("prevents concurrent requests from calling the
\* billed interface again", realname.go:2740), and a session that is claimed is
\* "processing" and nothing else.
OneCallAtATime ==
  \A s \in Sessions :
    kind[s] \in Photo =>
      /\ Cardinality(On(s, Claimed \cup Finishing)) <= 1
      /\ On(s, Claimed) # {} => status[s] = "processing"

\* A session costs MaxAttempts billed calls at most for each life of the process,
\* though the counter is read and written apart and forgotten after a success.
CallsBounded == \A s \in Sessions : calls[s] <= MaxAttempts * (restarts + 1)

\* What passed is written: once nobody works on a session that passed, its owner is
\* verified and the check is on record, unless the process stopped or a statement was
\* lost in between.
PassedIsWritten ==
  \A s \in Sessions :
    status[s] = "passed" /\ On(s, Finishing) = {} /\ s \notin lost =>
      identity[owner[s]] # NoSession /\ records[s] > 0

\* A photo session does not stay "processing", which neither a new photo nor a poll
\* can end: whatever the provider answers or fails to answer, the request that
\* claimed it settles it.
ProcessingEnds ==
  \A s \in Sessions : status[s] = "processing" ~> (status[s] # "processing" \/ s \in lost)

\* A late answer never takes a success back.
PassedIsFinal ==
  [][\A s \in Sessions : status[s] = "passed" => status'[s] = "passed"]_vars
================================================================================
