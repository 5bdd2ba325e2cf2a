----------------------------- MODULE RealnameProofs -----------------------------
(***************************************************************************)
(* Theorems about Realname, for every set of sessions, owners and requests *)
(* and every number of attempts, restarts and lost statements.             *)
(***************************************************************************)
EXTENDS Realname, TLAPS, FiniteSetTheorems

--------------------------------------------------------------------------------
(* The inductive invariant *)

Busy == Claimed \cup Finishing

\* Which request may be at which stage of which kind of session.
Placed ==
  /\ \A s \in Sessions : kind[s] # "none" <=> owner[s] \in Owners
  /\ \A s \in Sessions : kind[s] = "none" => status[s] = "none" /\ verdict[s] = "open"
  /\ \A s \in Sessions : s \in reference => status[s] # "none"
  /\ \A r \in Requests :
       /\ at[r] = "idle" <=> on[r] = NoSession
       /\ at[r] # "idle" => kind[on[r]] # "none"
       /\ at[r] \in Claimed \cup {"submit"} => kind[on[r]] \in Photo
       /\ at[r] \in {"poll", "query", "confirm"} => kind[on[r]] = "tencent"
       /\ at[r] = "ask" => kind[on[r]] \in {"record", "order"}
       /\ at[r] = "pass" => kind[on[r]] \in Photo \cup {"record"}
       /\ at[r] = "delete" => kind[on[r]] = "order"
       /\ at[r] \in {"submit", "poll", "ask"} => status[on[r]] # "none"
       /\ at[r] \in Busy /\ kind[on[r]] \in Photo => status[on[r]] # "none"

\* A session is begun by one request, before it has a row.
Beginning ==
  \A r \in Requests : at[r] = "init" =>
    /\ status[on[r]] = "none"
    /\ verdict[on[r]] = "open"
    /\ \A q \in Requests : on[q] = on[r] => q = r

\* A photo session is one request's from its claim until it is settled.
Exclusive ==
  /\ \A r, q \in Requests :
       at[r] \in Busy /\ at[q] \in Busy /\ on[r] = on[q] /\ kind[on[r]] \in Photo => r = q
  /\ \A r \in Requests :
       /\ at[r] \in Claimed => status[on[r]] = "processing"
       /\ at[r] = "pass" /\ kind[on[r]] \in Photo => status[on[r]] = "processing"
       /\ at[r] \in {"write", "record"} /\ kind[on[r]] \in Photo
            => status[on[r]] \in {"passed", "processing"}

\* What the provider of a record or an order has decided stands.
Decided ==
  /\ \A s \in Sessions : kind[s] \in {"order", "direct"} => status[s] # "passed"
  /\ \A s \in Sessions : kind[s] = "record" /\ status[s] = "passed" => verdict[s] = "passed"
  /\ \A r \in Requests :
       at[r] = "pass" /\ kind[on[r]] = "record" => verdict[on[r]] = "passed"

\* What passed is written, or the request that will write it is at work.
Written ==
  \A s \in Sessions : status[s] = "passed" /\ s \notin lost =>
    \/ \E r \in Requests : on[r] = s /\ at[r] = "write"
    \/ /\ identity[owner[s]] # NoSession
       /\ records[s] > 0 \/ \E r \in Requests : on[r] = s /\ at[r] = "record"

\* Every call is counted in this life of the process as long as more may follow.
Counted ==
  \A s \in Sessions :
    /\ kind[s] \notin Photo => calls[s] = 0
    /\ calls[s] <= MaxAttempts * restarts + MaxAttempts
    /\ \/ status[s] \in {"none", "pending", "failed"}
       \/ \E r \in Requests : on[r] = s /\ at[r] \in Claimed
       => calls[s] <= MaxAttempts * restarts + attempts[s]

Inv == TypeOK /\ Placed /\ Beginning /\ Exclusive /\ Decided /\ Written /\ Counted

--------------------------------------------------------------------------------
(* Steps *)

\* The invariant holds at the start.
LEMMA InitInv == Init => Inv
BY ConstantsAssumption
   DEF Init, Inv, TypeOK, Placed, Beginning, Exclusive, Decided, Written, Counted,
       Kinds, Photo, Statuses, Stages, Claimed, Finishing, Busy

\* Every step keeps the types.
LEMMA TypeStep == Inv /\ [Next]_vars => TypeOK'
<1> SUFFICES ASSUME Inv, [Next]_vars PROVE TypeOK'
  OBVIOUS
<1> USE ConstantsAssumption
    DEF Inv, TypeOK, Placed, Kinds, Photo, Statuses, Stages, Claimed, Finishing, Busy,
        sessionVars, resultVars, countVars, faultVars, requestVars
<1>1. ASSUME NEW r \in Requests, InitRefused(r) \/ InitPending(r) PROVE TypeOK'
  BY <1>1 DEF InitRefused, InitPending, Saves, Answers
<1>2. ASSUME NEW r \in Requests, InitPassed(r) PROVE TypeOK'
  BY <1>2 DEF InitPassed, Goes
<1>3. ASSUME NEW r \in Requests, Claim(r) \/ QueryClaim(r) PROVE TypeOK'
  BY <1>3 DEF Claim, QueryClaim, Claimable, QueryClaimable, Alive, Saves, Goes
<1>4. ASSUME NEW r \in Requests, ClaimRefused(r) \/ QueryRefused(r) \/ AskOpen(r) PROVE TypeOK'
  BY <1>4 DEF ClaimRefused, QueryRefused, AskOpen, Answers
<1>5. ASSUME NEW r \in Requests, Attempt(r) \/ VerifyPassed(r) \/ Confirmed(r) \/ QueryPassed(r) PROVE TypeOK'
  BY <1>5 DEF Attempt, AttemptAllowed, VerifyPassed, Confirmed, QueryPassed, Goes
<1>6. ASSUME NEW r \in Requests, TooManyAttempts(r) \/ VerifyError(r) \/ VerifyFailed(r) PROVE TypeOK'
  BY <1>6 DEF TooManyAttempts, VerifyError, VerifyFailed, Saves, Answers
<1>7. ASSUME NEW r \in Requests, ConfirmPending(r) \/ QueryOpen(r) PROVE TypeOK'
  BY <1>7 DEF ConfirmPending, QueryOpen, Saves, Answers
<1>8. ASSUME NEW r \in Requests, AskFailed(r) PROVE TypeOK'
  BY <1>8 DEF AskFailed, Saves, Answers
<1>9. ASSUME NEW r \in Requests, AskPassed(r) PROVE TypeOK'
  BY <1>9 DEF AskPassed, Goes
<1>10. ASSUME NEW r \in Requests, Pass(r) PROVE TypeOK'
  BY <1>10 DEF Pass, Saves, Goes
<1>11. ASSUME NEW r \in Requests, Write(r) PROVE TypeOK'
  BY <1>11 DEF Write, Goes
<1>12. ASSUME NEW r \in Requests, Record(r) PROVE TypeOK'
  BY <1>12 DEF Record, Recorded, AttemptsAfter, Goes, Answers
<1>13. ASSUME NEW r \in Requests, Delete(r) PROVE TypeOK'
  BY <1>13 DEF Delete, Saves, Answers
<1>14. ASSUME NEW r \in Requests, StatementFails(r) PROVE TypeOK'
  BY <1>14 DEF StatementFails, Recorded, AttemptsAfter, Goes, Answers
<1>15. ASSUME NEW r \in Requests, NEW s \in Sessions, NEW o \in Owners, NEW k \in Kinds, InitRead(r, s, o, k) PROVE TypeOK'
  BY <1>15 DEF InitRead, Begins
<1>16. ASSUME NEW r \in Requests, NEW s \in Sessions, SubmitRead(r, s) \/ PollRead(r, s) PROVE TypeOK'
  BY <1>16 DEF SubmitRead, PollRead, Begins, Alive
<1>17. ASSUME NEW s \in Sessions, Provider(s) PROVE TypeOK'
  BY <1>17 DEF Provider, Decide
<1>18. ASSUME NEW s \in Sessions, Expire(s) PROVE TypeOK'
  BY <1>18 DEF Expire
<1>19. ASSUME Restart PROVE TypeOK'
  BY <1>19 DEF Restart
<1>20. ASSUME UNCHANGED vars PROVE TypeOK'
  BY <1>20 DEF vars
<1> HIDE DEF Inv, TypeOK, Placed, Kinds, Photo, Statuses, Stages, Claimed, Finishing, Busy,
             sessionVars, resultVars, countVars, faultVars, requestVars
<1> QED
  BY <1>1, <1>2, <1>3, <1>4, <1>5, <1>6, <1>7, <1>8, <1>9, <1>10, <1>11, <1>12, <1>13, <1>14, <1>15, <1>16, <1>17, <1>18, <1>19, <1>20 DEF Next, Work, Starts

\* Every step keeps requests at stages of their sessions' kinds.
LEMMA PlacedStep == Inv /\ [Next]_vars => Placed'
<1> SUFFICES ASSUME Inv, [Next]_vars PROVE Placed'
  OBVIOUS
<1> USE ConstantsAssumption
    DEF Inv, TypeOK, Placed, Beginning, Exclusive, Kinds, Photo, Statuses, Stages, Claimed, Finishing, Busy,
        sessionVars, resultVars, countVars, faultVars, requestVars
<1>1. ASSUME NEW r \in Requests, InitRefused(r) \/ InitPending(r) PROVE Placed'
  BY <1>1 DEF InitRefused, InitPending, Saves, Answers
<1>2. ASSUME NEW r \in Requests, InitPassed(r) PROVE Placed'
  BY <1>2 DEF InitPassed, Goes
<1>3. ASSUME NEW r \in Requests, Claim(r) \/ QueryClaim(r) PROVE Placed'
  BY <1>3 DEF Claim, QueryClaim, Claimable, QueryClaimable, Alive, Saves, Goes
<1>4. ASSUME NEW r \in Requests, ClaimRefused(r) \/ QueryRefused(r) \/ AskOpen(r) PROVE Placed'
  BY <1>4 DEF ClaimRefused, QueryRefused, AskOpen, Answers
<1>5. ASSUME NEW r \in Requests, Attempt(r) \/ VerifyPassed(r) \/ Confirmed(r) \/ QueryPassed(r) PROVE Placed'
  BY <1>5 DEF Attempt, AttemptAllowed, VerifyPassed, Confirmed, QueryPassed, Goes
<1>6. ASSUME NEW r \in Requests, TooManyAttempts(r) \/ VerifyError(r) \/ VerifyFailed(r) PROVE Placed'
  BY <1>6 DEF TooManyAttempts, VerifyError, VerifyFailed, Saves, Answers
<1>7. ASSUME NEW r \in Requests, ConfirmPending(r) \/ QueryOpen(r) PROVE Placed'
  BY <1>7 DEF ConfirmPending, QueryOpen, Saves, Answers
<1>8. ASSUME NEW r \in Requests, AskFailed(r) PROVE Placed'
  BY <1>8 DEF AskFailed, Saves, Answers
<1>9. ASSUME NEW r \in Requests, AskPassed(r) PROVE Placed'
  BY <1>9 DEF AskPassed, Goes
<1>10. ASSUME NEW r \in Requests, Pass(r) PROVE Placed'
  BY <1>10 DEF Pass, Saves, Goes
<1>11. ASSUME NEW r \in Requests, Write(r) PROVE Placed'
  BY <1>11 DEF Write, Goes
<1>12. ASSUME NEW r \in Requests, Record(r) PROVE Placed'
  BY <1>12 DEF Record, Recorded, AttemptsAfter, Goes, Answers
<1>13. ASSUME NEW r \in Requests, Delete(r) PROVE Placed'
  BY <1>13 DEF Delete, Saves, Answers
<1>14. ASSUME NEW r \in Requests, StatementFails(r) PROVE Placed'
  BY <1>14 DEF StatementFails, Recorded, AttemptsAfter, Goes, Answers
<1>15. ASSUME NEW r \in Requests, NEW s \in Sessions, NEW o \in Owners, NEW k \in Kinds, InitRead(r, s, o, k) PROVE Placed'
  BY <1>15 DEF InitRead, Begins
<1>16. ASSUME NEW r \in Requests, NEW s \in Sessions, SubmitRead(r, s) \/ PollRead(r, s) PROVE Placed'
  BY <1>16 DEF SubmitRead, PollRead, Begins, Alive
<1>17. ASSUME NEW s \in Sessions, Provider(s) PROVE Placed'
  BY <1>17 DEF Provider, Decide
<1>18. ASSUME NEW s \in Sessions, Expire(s) PROVE Placed'
  BY <1>18 DEF Expire
<1>19. ASSUME Restart PROVE Placed'
  BY <1>19 DEF Restart
<1>20. ASSUME UNCHANGED vars PROVE Placed'
  BY <1>20 DEF vars
<1> HIDE DEF Inv, TypeOK, Placed, Beginning, Exclusive, Kinds, Photo, Statuses, Stages, Claimed, Finishing, Busy,
             sessionVars, resultVars, countVars, faultVars, requestVars
<1> QED
  BY <1>1, <1>2, <1>3, <1>4, <1>5, <1>6, <1>7, <1>8, <1>9, <1>10, <1>11, <1>12, <1>13, <1>14, <1>15, <1>16, <1>17, <1>18, <1>19, <1>20 DEF Next, Work, Starts

\* A session is begun by one request.
LEMMA BeginningStep == Inv /\ [Next]_vars => Beginning'
<1> SUFFICES ASSUME Inv, [Next]_vars PROVE Beginning'
  OBVIOUS
<1> USE ConstantsAssumption
    DEF Inv, TypeOK, Placed, Beginning, Kinds, Photo, Statuses, Stages, Claimed, Finishing, Busy,
        sessionVars, resultVars, countVars, faultVars, requestVars
<1>1. ASSUME NEW r \in Requests, InitRefused(r) \/ InitPending(r) PROVE Beginning'
  BY <1>1 DEF InitRefused, InitPending, Saves, Answers
<1>2. ASSUME NEW r \in Requests, InitPassed(r) PROVE Beginning'
  BY <1>2 DEF InitPassed, Goes
<1>3. ASSUME NEW r \in Requests, Claim(r) \/ QueryClaim(r) PROVE Beginning'
  BY <1>3 DEF Claim, QueryClaim, Claimable, QueryClaimable, Alive, Saves, Goes
<1>4. ASSUME NEW r \in Requests, ClaimRefused(r) \/ QueryRefused(r) \/ AskOpen(r) PROVE Beginning'
  BY <1>4 DEF ClaimRefused, QueryRefused, AskOpen, Answers
<1>5. ASSUME NEW r \in Requests, Attempt(r) \/ VerifyPassed(r) \/ Confirmed(r) \/ QueryPassed(r) PROVE Beginning'
  BY <1>5 DEF Attempt, AttemptAllowed, VerifyPassed, Confirmed, QueryPassed, Goes
<1>6. ASSUME NEW r \in Requests, TooManyAttempts(r) \/ VerifyError(r) \/ VerifyFailed(r) PROVE Beginning'
  BY <1>6 DEF TooManyAttempts, VerifyError, VerifyFailed, Saves, Answers
<1>7. ASSUME NEW r \in Requests, ConfirmPending(r) \/ QueryOpen(r) PROVE Beginning'
  BY <1>7 DEF ConfirmPending, QueryOpen, Saves, Answers
<1>8. ASSUME NEW r \in Requests, AskFailed(r) PROVE Beginning'
  BY <1>8 DEF AskFailed, Saves, Answers
<1>9. ASSUME NEW r \in Requests, AskPassed(r) PROVE Beginning'
  BY <1>9 DEF AskPassed, Goes
<1>10. ASSUME NEW r \in Requests, Pass(r) PROVE Beginning'
  BY <1>10 DEF Pass, Saves, Goes
<1>11. ASSUME NEW r \in Requests, Write(r) PROVE Beginning'
  BY <1>11 DEF Write, Goes
<1>12. ASSUME NEW r \in Requests, Record(r) PROVE Beginning'
  BY <1>12 DEF Record, Recorded, AttemptsAfter, Goes, Answers
<1>13. ASSUME NEW r \in Requests, Delete(r) PROVE Beginning'
  BY <1>13 DEF Delete, Saves, Answers
<1>14. ASSUME NEW r \in Requests, StatementFails(r) PROVE Beginning'
  BY <1>14 DEF StatementFails, Recorded, AttemptsAfter, Goes, Answers
<1>15. ASSUME NEW r \in Requests, NEW s \in Sessions, NEW o \in Owners, NEW k \in Kinds, InitRead(r, s, o, k) PROVE Beginning'
  BY <1>15 DEF InitRead, Begins
<1>16. ASSUME NEW r \in Requests, NEW s \in Sessions, SubmitRead(r, s) \/ PollRead(r, s) PROVE Beginning'
  BY <1>16 DEF SubmitRead, PollRead, Begins, Alive
<1>17. ASSUME NEW s \in Sessions, Provider(s) PROVE Beginning'
  BY <1>17 DEF Provider, Decide
<1>18. ASSUME NEW s \in Sessions, Expire(s) PROVE Beginning'
  BY <1>18 DEF Expire
<1>19. ASSUME Restart PROVE Beginning'
  BY <1>19 DEF Restart
<1>20. ASSUME UNCHANGED vars PROVE Beginning'
  BY <1>20 DEF vars
<1> HIDE DEF Inv, TypeOK, Placed, Beginning, Kinds, Photo, Statuses, Stages, Claimed, Finishing, Busy,
             sessionVars, resultVars, countVars, faultVars, requestVars
<1> QED
  BY <1>1, <1>2, <1>3, <1>4, <1>5, <1>6, <1>7, <1>8, <1>9, <1>10, <1>11, <1>12, <1>13, <1>14, <1>15, <1>16, <1>17, <1>18, <1>19, <1>20 DEF Next, Work, Starts

\* Every step keeps photo sessions to one request each.
LEMMA ExclusiveStep == Inv /\ [Next]_vars => Exclusive'
<1> SUFFICES ASSUME Inv, [Next]_vars PROVE Exclusive'
  OBVIOUS
<1> USE ConstantsAssumption
    DEF Inv, TypeOK, Placed, Beginning, Exclusive, Kinds, Photo, Statuses, Stages, Claimed, Finishing, Busy,
        sessionVars, resultVars, countVars, faultVars, requestVars
<1>1. ASSUME NEW r \in Requests, InitRefused(r) \/ InitPending(r) PROVE Exclusive'
  BY <1>1 DEF InitRefused, InitPending, Saves, Answers
<1>2. ASSUME NEW r \in Requests, InitPassed(r) PROVE Exclusive'
  BY <1>2 DEF InitPassed, Goes
<1>3. ASSUME NEW r \in Requests, Claim(r) \/ QueryClaim(r) PROVE Exclusive'
  BY <1>3 DEF Claim, QueryClaim, Claimable, QueryClaimable, Alive, Saves, Goes
<1>4. ASSUME NEW r \in Requests, ClaimRefused(r) \/ QueryRefused(r) \/ AskOpen(r) PROVE Exclusive'
  BY <1>4 DEF ClaimRefused, QueryRefused, AskOpen, Answers
<1>5. ASSUME NEW r \in Requests, Attempt(r) \/ VerifyPassed(r) \/ Confirmed(r) \/ QueryPassed(r) PROVE Exclusive'
  BY <1>5 DEF Attempt, AttemptAllowed, VerifyPassed, Confirmed, QueryPassed, Goes
<1>6. ASSUME NEW r \in Requests, TooManyAttempts(r) \/ VerifyError(r) \/ VerifyFailed(r) PROVE Exclusive'
  BY <1>6 DEF TooManyAttempts, VerifyError, VerifyFailed, Saves, Answers
<1>7. ASSUME NEW r \in Requests, ConfirmPending(r) \/ QueryOpen(r) PROVE Exclusive'
  BY <1>7 DEF ConfirmPending, QueryOpen, Saves, Answers
<1>8. ASSUME NEW r \in Requests, AskFailed(r) PROVE Exclusive'
  BY <1>8 DEF AskFailed, Saves, Answers
<1>9. ASSUME NEW r \in Requests, AskPassed(r) PROVE Exclusive'
  BY <1>9 DEF AskPassed, Goes
<1>10. ASSUME NEW r \in Requests, Pass(r) PROVE Exclusive'
  BY <1>10 DEF Pass, Saves, Goes
<1>11. ASSUME NEW r \in Requests, Write(r) PROVE Exclusive'
  BY <1>11 DEF Write, Goes
<1>12. ASSUME NEW r \in Requests, Record(r) PROVE Exclusive'
  BY <1>12 DEF Record, Recorded, AttemptsAfter, Goes, Answers
<1>13. ASSUME NEW r \in Requests, Delete(r) PROVE Exclusive'
  BY <1>13 DEF Delete, Saves, Answers
<1>14. ASSUME NEW r \in Requests, StatementFails(r) PROVE Exclusive'
  BY <1>14 DEF StatementFails, Recorded, AttemptsAfter, Goes, Answers
<1>15. ASSUME NEW r \in Requests, NEW s \in Sessions, NEW o \in Owners, NEW k \in Kinds, InitRead(r, s, o, k) PROVE Exclusive'
  BY <1>15 DEF InitRead, Begins
<1>16. ASSUME NEW r \in Requests, NEW s \in Sessions, SubmitRead(r, s) \/ PollRead(r, s) PROVE Exclusive'
  BY <1>16 DEF SubmitRead, PollRead, Begins, Alive
<1>17. ASSUME NEW s \in Sessions, Provider(s) PROVE Exclusive'
  BY <1>17 DEF Provider, Decide
<1>18. ASSUME NEW s \in Sessions, Expire(s) PROVE Exclusive'
  BY <1>18 DEF Expire
<1>19. ASSUME Restart PROVE Exclusive'
  BY <1>19 DEF Restart
<1>20. ASSUME UNCHANGED vars PROVE Exclusive'
  BY <1>20 DEF vars
<1> HIDE DEF Inv, TypeOK, Placed, Beginning, Exclusive, Kinds, Photo, Statuses, Stages, Claimed, Finishing, Busy,
             sessionVars, resultVars, countVars, faultVars, requestVars
<1> QED
  BY <1>1, <1>2, <1>3, <1>4, <1>5, <1>6, <1>7, <1>8, <1>9, <1>10, <1>11, <1>12, <1>13, <1>14, <1>15, <1>16, <1>17, <1>18, <1>19, <1>20 DEF Next, Work, Starts

\* Verdicts stand.
LEMMA DecidedStep == Inv /\ [Next]_vars => Decided'
<1> SUFFICES ASSUME Inv, [Next]_vars PROVE Decided'
  OBVIOUS
<1> USE ConstantsAssumption
    DEF Inv, TypeOK, Placed, Beginning, Exclusive, Decided, Kinds, Photo, Statuses, Stages, Claimed, Finishing, Busy,
        sessionVars, resultVars, countVars, faultVars, requestVars
<1>1. ASSUME NEW r \in Requests, InitRefused(r) \/ InitPending(r) PROVE Decided'
  BY <1>1 DEF InitRefused, InitPending, Saves, Answers
<1>2. ASSUME NEW r \in Requests, InitPassed(r) PROVE Decided'
  BY <1>2 DEF InitPassed, Goes
<1>3. ASSUME NEW r \in Requests, Claim(r) \/ QueryClaim(r) PROVE Decided'
  BY <1>3 DEF Claim, QueryClaim, Claimable, QueryClaimable, Alive, Saves, Goes
<1>4. ASSUME NEW r \in Requests, ClaimRefused(r) \/ QueryRefused(r) \/ AskOpen(r) PROVE Decided'
  BY <1>4 DEF ClaimRefused, QueryRefused, AskOpen, Answers
<1>5. ASSUME NEW r \in Requests, Attempt(r) \/ VerifyPassed(r) \/ Confirmed(r) \/ QueryPassed(r) PROVE Decided'
  BY <1>5 DEF Attempt, AttemptAllowed, VerifyPassed, Confirmed, QueryPassed, Goes
<1>6. ASSUME NEW r \in Requests, TooManyAttempts(r) \/ VerifyError(r) \/ VerifyFailed(r) PROVE Decided'
  BY <1>6 DEF TooManyAttempts, VerifyError, VerifyFailed, Saves, Answers
<1>7. ASSUME NEW r \in Requests, ConfirmPending(r) \/ QueryOpen(r) PROVE Decided'
  BY <1>7 DEF ConfirmPending, QueryOpen, Saves, Answers
<1>8. ASSUME NEW r \in Requests, AskFailed(r) PROVE Decided'
  BY <1>8 DEF AskFailed, Saves, Answers
<1>9. ASSUME NEW r \in Requests, AskPassed(r) PROVE Decided'
  BY <1>9 DEF AskPassed, Goes
<1>10. ASSUME NEW r \in Requests, Pass(r) PROVE Decided'
  BY <1>10 DEF Pass, Saves, Goes
<1>11. ASSUME NEW r \in Requests, Write(r) PROVE Decided'
  BY <1>11 DEF Write, Goes
<1>12. ASSUME NEW r \in Requests, Record(r) PROVE Decided'
  BY <1>12 DEF Record, Recorded, AttemptsAfter, Goes, Answers
<1>13. ASSUME NEW r \in Requests, Delete(r) PROVE Decided'
  BY <1>13 DEF Delete, Saves, Answers
<1>14. ASSUME NEW r \in Requests, StatementFails(r) PROVE Decided'
  BY <1>14 DEF StatementFails, Recorded, AttemptsAfter, Goes, Answers
<1>15. ASSUME NEW r \in Requests, NEW s \in Sessions, NEW o \in Owners, NEW k \in Kinds, InitRead(r, s, o, k) PROVE Decided'
  BY <1>15 DEF InitRead, Begins
<1>16. ASSUME NEW r \in Requests, NEW s \in Sessions, SubmitRead(r, s) \/ PollRead(r, s) PROVE Decided'
  BY <1>16 DEF SubmitRead, PollRead, Begins, Alive
<1>17. ASSUME NEW s \in Sessions, Provider(s) PROVE Decided'
  BY <1>17 DEF Provider, Decide
<1>18. ASSUME NEW s \in Sessions, Expire(s) PROVE Decided'
  BY <1>18 DEF Expire
<1>19. ASSUME Restart PROVE Decided'
  BY <1>19 DEF Restart
<1>20. ASSUME UNCHANGED vars PROVE Decided'
  BY <1>20 DEF vars
<1> HIDE DEF Inv, TypeOK, Placed, Beginning, Exclusive, Decided, Kinds, Photo, Statuses, Stages, Claimed, Finishing, Busy,
             sessionVars, resultVars, countVars, faultVars, requestVars
<1> QED
  BY <1>1, <1>2, <1>3, <1>4, <1>5, <1>6, <1>7, <1>8, <1>9, <1>10, <1>11, <1>12, <1>13, <1>14, <1>15, <1>16, <1>17, <1>18, <1>19, <1>20 DEF Next, Work, Starts

\* What passed is written or about to be.
LEMMA WrittenStep == Inv /\ [Next]_vars => Written'
<1> SUFFICES ASSUME Inv, [Next]_vars PROVE Written'
  OBVIOUS
<1> USE ConstantsAssumption
    DEF Inv, TypeOK, Placed, Exclusive, Decided, Written, Kinds, Photo, Statuses, Stages, Claimed, Finishing, Busy,
        sessionVars, resultVars, countVars, faultVars, requestVars
<1>1. ASSUME NEW r \in Requests, InitRefused(r) \/ InitPending(r) PROVE Written'
  BY SMTT(30), <1>1 DEF InitRefused, InitPending, Saves, Answers
<1>2. ASSUME NEW r \in Requests, InitPassed(r) PROVE Written'
  BY <1>2 DEF InitPassed, Goes
<1>3. ASSUME NEW r \in Requests, Claim(r) \/ QueryClaim(r) PROVE Written'
  BY <1>3 DEF Claim, QueryClaim, Claimable, QueryClaimable, Alive, Saves, Goes
<1>4. ASSUME NEW r \in Requests, ClaimRefused(r) \/ QueryRefused(r) \/ AskOpen(r) PROVE Written'
  BY <1>4 DEF ClaimRefused, QueryRefused, AskOpen, Answers
<1>5. ASSUME NEW r \in Requests, Attempt(r) \/ VerifyPassed(r) \/ Confirmed(r) \/ QueryPassed(r) PROVE Written'
  BY <1>5 DEF Attempt, AttemptAllowed, VerifyPassed, Confirmed, QueryPassed, Goes
<1>6. ASSUME NEW r \in Requests, TooManyAttempts(r) \/ VerifyError(r) \/ VerifyFailed(r) PROVE Written'
  BY <1>6 DEF TooManyAttempts, VerifyError, VerifyFailed, Saves, Answers
<1>7. ASSUME NEW r \in Requests, ConfirmPending(r) \/ QueryOpen(r) PROVE Written'
  BY <1>7 DEF ConfirmPending, QueryOpen, Saves, Answers
<1>8. ASSUME NEW r \in Requests, AskFailed(r) PROVE Written'
  BY <1>8 DEF AskFailed, Saves, Answers
<1>9. ASSUME NEW r \in Requests, AskPassed(r) PROVE Written'
  BY <1>9 DEF AskPassed, Goes
<1>10. ASSUME NEW r \in Requests, Pass(r) PROVE Written'
  BY <1>10 DEF Pass, Saves, Goes
<1>11. ASSUME NEW r \in Requests, Write(r) PROVE Written'
  BY <1>11 DEF Write, Goes
<1>12. ASSUME NEW r \in Requests, Record(r) PROVE Written'
  BY <1>12 DEF Record, Recorded, AttemptsAfter, Goes, Answers
<1>13. ASSUME NEW r \in Requests, Delete(r) PROVE Written'
  BY <1>13 DEF Delete, Saves, Answers
<1>14. ASSUME NEW r \in Requests, StatementFails(r) PROVE Written'
  BY <1>14 DEF StatementFails, Recorded, AttemptsAfter, Goes, Answers
<1>15. ASSUME NEW r \in Requests, NEW s \in Sessions, NEW o \in Owners, NEW k \in Kinds, InitRead(r, s, o, k) PROVE Written'
  BY <1>15 DEF InitRead, Begins
<1>16. ASSUME NEW r \in Requests, NEW s \in Sessions, SubmitRead(r, s) \/ PollRead(r, s) PROVE Written'
  BY <1>16 DEF SubmitRead, PollRead, Begins, Alive
<1>17. ASSUME NEW s \in Sessions, Provider(s) PROVE Written'
  BY <1>17 DEF Provider, Decide
<1>18. ASSUME NEW s \in Sessions, Expire(s) PROVE Written'
  BY <1>18 DEF Expire
<1>19. ASSUME Restart PROVE Written'
  BY <1>19 DEF Restart
<1>20. ASSUME UNCHANGED vars PROVE Written'
  BY <1>20 DEF vars
<1> HIDE DEF Inv, TypeOK, Placed, Exclusive, Decided, Written, Kinds, Photo, Statuses, Stages, Claimed, Finishing, Busy,
             sessionVars, resultVars, countVars, faultVars, requestVars
<1> QED
  BY <1>1, <1>2, <1>3, <1>4, <1>5, <1>6, <1>7, <1>8, <1>9, <1>10, <1>11, <1>12, <1>13, <1>14, <1>15, <1>16, <1>17, <1>18, <1>19, <1>20 DEF Next, Work, Starts

\* Calls are counted.
LEMMA CountedStep == Inv /\ [Next]_vars => Counted'
<1> SUFFICES ASSUME Inv, [Next]_vars PROVE Counted'
  OBVIOUS
<1> USE ConstantsAssumption
    DEF Inv, TypeOK, Placed, Exclusive, Counted, Kinds, Photo, Statuses, Stages, Claimed, Finishing, Busy,
        sessionVars, resultVars, countVars, faultVars, requestVars
<1>0. MaxAttempts * restarts \in Nat
  OBVIOUS
<1>1. ASSUME NEW r \in Requests, InitRefused(r) \/ InitPending(r) PROVE Counted'
  <2>1. \A s \in Sessions : calls'[s] = calls[s] /\ attempts'[s] = attempts[s]
                             /\ kind'[s] = kind[s] /\ restarts' = restarts
    BY <1>1 DEF InitRefused, InitPending, Saves, Answers
  <2>2. at[r] = "init" /\ on[r] \in Sessions /\ status[on[r]] = "none"
    BY <1>1 DEF InitRefused, InitPending, Beginning
  <2>3. \A s \in Sessions : s # on[r] => status'[s] = status[s]
    BY <1>1, <2>2 DEF InitRefused, InitPending, Saves, Answers
  <2>4. \A q \in Requests : at'[q] \in Claimed => at[q] \in Claimed /\ on'[q] = on[q]
    BY <1>1 DEF InitRefused, InitPending, Saves, Answers
  <2>5. \A s \in Sessions :
          (\/ status'[s] \in {"none", "pending", "failed"}
           \/ \E q \in Requests : on'[q] = s /\ at'[q] \in Claimed)
          => (\/ status[s] \in {"none", "pending", "failed"}
              \/ \E q \in Requests : on[q] = s /\ at[q] \in Claimed)
    BY <2>2, <2>3, <2>4
  <2>6. \A s \in Sessions :
          /\ kind'[s] \notin Photo => calls'[s] = 0
          /\ calls'[s] <= MaxAttempts * restarts' + MaxAttempts
    BY <2>1
  <2>7. \A s \in Sessions : calls[s] <= MaxAttempts * restarts + attempts[s]
                             <=> calls'[s] <= MaxAttempts * restarts' + attempts'[s]
    BY <2>1
  <2>8. ASSUME NEW s \in Sessions,
               \/ status'[s] \in {"none", "pending", "failed"}
               \/ \E q \in Requests : on'[q] = s /\ at'[q] \in Claimed
        PROVE  calls'[s] <= MaxAttempts * restarts' + attempts'[s]
    <3>1. \/ status[s] \in {"none", "pending", "failed"}
          \/ \E q \in Requests : on[q] = s /\ at[q] \in Claimed
      BY <2>5, <2>8
    <3>2. calls[s] <= MaxAttempts * restarts + attempts[s]
      BY <3>1
    <3> QED
      BY <3>2, <2>7
  <2> QED
    BY <2>6, <2>8
<1>2. ASSUME NEW r \in Requests, InitPassed(r) PROVE Counted'
  BY <1>2 DEF InitPassed, Goes
<1>3. ASSUME NEW r \in Requests, Claim(r) \/ QueryClaim(r) PROVE Counted'
  BY <1>3 DEF Claim, QueryClaim, Claimable, QueryClaimable, Alive, Saves, Goes
<1>4. ASSUME NEW r \in Requests, ClaimRefused(r) \/ QueryRefused(r) \/ AskOpen(r) PROVE Counted'
  BY <1>4 DEF ClaimRefused, QueryRefused, AskOpen, Answers
<1>5. ASSUME NEW r \in Requests, Attempt(r) \/ VerifyPassed(r) \/ Confirmed(r) \/ QueryPassed(r) PROVE Counted'
  BY <1>5 DEF Attempt, AttemptAllowed, VerifyPassed, Confirmed, QueryPassed, Goes
<1>6. ASSUME NEW r \in Requests, TooManyAttempts(r) \/ VerifyError(r) \/ VerifyFailed(r) PROVE Counted'
  BY <1>6 DEF TooManyAttempts, VerifyError, VerifyFailed, Saves, Answers
<1>7. ASSUME NEW r \in Requests, ConfirmPending(r) \/ QueryOpen(r) PROVE Counted'
  BY <1>7 DEF ConfirmPending, QueryOpen, Saves, Answers
<1>8. ASSUME NEW r \in Requests, AskFailed(r) PROVE Counted'
  <2>1. \A s \in Sessions : calls'[s] = calls[s] /\ attempts'[s] = attempts[s]
                             /\ kind'[s] = kind[s] /\ restarts' = restarts
    BY <1>8 DEF AskFailed, Saves, Answers
  <2>2. \A s \in Sessions : status'[s] = status[s] \/ calls[s] = 0
    BY <1>8 DEF AskFailed, Saves, Answers
  <2>3. \A q \in Requests : at'[q] \in Claimed => at[q] \in Claimed /\ on'[q] = on[q]
    BY <1>8 DEF AskFailed, Saves, Answers
  <2>4. \A s \in Sessions : 0 <= MaxAttempts * restarts + attempts[s]
    BY <1>0
  <2> QED
    BY <2>1, <2>2, <2>3, <2>4
<1>9. ASSUME NEW r \in Requests, AskPassed(r) PROVE Counted'
  BY <1>9 DEF AskPassed, Goes
<1>10. ASSUME NEW r \in Requests, Pass(r) PROVE Counted'
  BY <1>10 DEF Pass, Saves, Goes
<1>11. ASSUME NEW r \in Requests, Write(r) PROVE Counted'
  BY <1>11 DEF Write, Goes
<1>12. ASSUME NEW r \in Requests, Record(r) PROVE Counted'
  BY <1>12 DEF Record, Recorded, AttemptsAfter, Goes, Answers
<1>13. ASSUME NEW r \in Requests, Delete(r) PROVE Counted'
  BY <1>13 DEF Delete, Saves, Answers
<1>14. ASSUME NEW r \in Requests, StatementFails(r) PROVE Counted'
  BY <1>14 DEF StatementFails, Recorded, AttemptsAfter, Goes, Answers
<1>15. ASSUME NEW r \in Requests, NEW s \in Sessions, NEW o \in Owners, NEW k \in Kinds, InitRead(r, s, o, k) PROVE Counted'
  BY <1>15 DEF InitRead, Begins
<1>16. ASSUME NEW r \in Requests, NEW s \in Sessions, SubmitRead(r, s) \/ PollRead(r, s) PROVE Counted'
  BY <1>16 DEF SubmitRead, PollRead, Begins, Alive
<1>17. ASSUME NEW s \in Sessions, Provider(s) PROVE Counted'
  BY <1>17 DEF Provider, Decide
<1>18. ASSUME NEW s \in Sessions, Expire(s) PROVE Counted'
  BY <1>18 DEF Expire
<1>19. ASSUME Restart PROVE Counted'
  BY <1>19 DEF Restart
<1>20. ASSUME UNCHANGED vars PROVE Counted'
  BY <1>20 DEF vars
<1> QED
  BY <1>1, <1>2, <1>3, <1>4, <1>5, <1>6, <1>7, <1>8, <1>9, <1>10, <1>11, <1>12, <1>13, <1>14, <1>15, <1>16, <1>17, <1>18, <1>19, <1>20 DEF Next, Work, Starts

--------------------------------------------------------------------------------
(* Theorems *)

\* Every part of the invariant holds at the start and is kept by every step.
THEOREM InvInvariant == Spec => []Inv
<1>1. Inv /\ [Next]_vars => Inv'
  BY TypeStep, PlacedStep, BeginningStep, ExclusiveStep, DecidedStep, WrittenStep, CountedStep
     DEF Inv
<1> QED
  BY InitInv, <1>1, PTL DEF Spec

\* Every variable keeps its type.
THEOREM TypeCorrect == Spec => []TypeOK
<1>1. Inv => TypeOK
  BY DEF Inv
<1> HIDE DEF Inv, TypeOK, Placed, Exclusive, Counted, Kinds, Photo, Statuses, Stages, Claimed, Finishing, Busy,
             sessionVars, resultVars, countVars, faultVars, requestVars
<1> QED
  BY InvInvariant, <1>1, PTL

\* A set all of whose members are equal has one at most.
LEMMA AtMostOne == ASSUME NEW S, \A x, y \in S : x = y
                   PROVE  Cardinality(S) <= 1
<1>1. CASE S = {}
  BY <1>1, FS_EmptySet
<1>2. CASE S # {}
  <2>1. PICK x \in S : TRUE
    BY <1>2
  <2>2. S = {x}
    BY <2>1
  <2> QED
    BY <2>2, FS_Singleton
<1> QED
  BY <1>1, <1>2

\* Two requests never call the billed interface for one photo session at a time
\* (claimRealnameFaceSession, claimTencentRealnameQuerySession).
THEOREM BilledOneAtATime == Spec => []OneCallAtATime
<1>1. Inv => OneCallAtATime
  <2> SUFFICES ASSUME Inv, NEW s \in Sessions, kind[s] \in Photo
               PROVE  /\ Cardinality(On(s, Claimed \cup Finishing)) <= 1
                      /\ On(s, Claimed) # {} => status[s] = "processing"
    BY DEF OneCallAtATime
  <2>1. \A r, q \in On(s, Claimed \cup Finishing) : r = q
    BY DEF Inv, Exclusive, On, Busy
  <2>2. Cardinality(On(s, Claimed \cup Finishing)) <= 1
    BY <2>1, AtMostOne
  <2>3. On(s, Claimed) # {} => status[s] = "processing"
    BY DEF Inv, Exclusive, On
  <2> QED
    BY <2>2, <2>3
<1> QED
  BY InvInvariant, <1>1, PTL

\* A session costs no more than MaxAttempts billed calls in each life of the process,
\* whatever the counter in memory goes through (RealnameFaceSubmit).
THEOREM CallsAreBounded == Spec => []CallsBounded
<1>1. Inv => CallsBounded
  BY ConstantsAssumption DEF Inv, TypeOK, Counted, CallsBounded
<1> QED
  BY InvInvariant, <1>1, PTL

\* A session that passed has verified its owner and is on record, unless a step of it was
\* lost (finishRealnameFaceSuccess).
THEOREM PassedWritten == Spec => []PassedIsWritten
<1>1. Inv => PassedIsWritten
  BY DEF Inv, Written, PassedIsWritten, On, Finishing
<1> QED
  BY InvInvariant, <1>1, PTL

\* A session that passed stays so: none of the answers that come late finds it open
\* (claimRealnameFaceSession, queryXiaomuRealname).
THEOREM PassedStands == Spec => PassedIsFinal
<1> DEFINE Kept == \A s \in Sessions : status[s] = "passed" => status'[s] = "passed"
<1>1. Inv /\ [Next]_vars => Kept
  <2> SUFFICES ASSUME Inv, [Next]_vars PROVE Kept
    OBVIOUS
  <2> USE DEF Inv, TypeOK, Placed, Beginning, Exclusive, Decided, Kinds, Photo, Statuses, Stages,
          Claimed, Finishing, Busy, sessionVars, Saves
  <2>1. ASSUME NEW r \in Requests, InitRefused(r) \/ InitPending(r) PROVE Kept
    BY <2>1 DEF InitRefused, InitPending
  <2>2. ASSUME NEW r \in Requests, Claim(r) \/ QueryClaim(r) PROVE Kept
    BY <2>2 DEF Claim, QueryClaim, Claimable, QueryClaimable
  <2>3. ASSUME NEW r \in Requests,
               TooManyAttempts(r) \/ VerifyError(r) \/ VerifyFailed(r) \/ ConfirmPending(r)
               \/ QueryOpen(r)
        PROVE  Kept
    BY <2>3 DEF TooManyAttempts, VerifyError, VerifyFailed, ConfirmPending, QueryOpen
  <2>4. ASSUME NEW r \in Requests, AskFailed(r) \/ Pass(r) \/ Delete(r) PROVE Kept
    BY <2>4 DEF AskFailed, Pass, Delete
  <2>5. ASSUME UNCHANGED status PROVE Kept
    BY <2>5
  <2>6. ASSUME NEW r \in Requests, Work(r)
        PROVE  \/ InitRefused(r) \/ InitPending(r) \/ Claim(r) \/ QueryClaim(r)
               \/ TooManyAttempts(r) \/ VerifyError(r) \/ VerifyFailed(r) \/ ConfirmPending(r)
               \/ QueryOpen(r) \/ AskFailed(r) \/ Pass(r) \/ Delete(r) \/ UNCHANGED status
    BY <2>6 DEF Work, InitPassed, ClaimRefused, Attempt, VerifyPassed, Confirmed, QueryRefused,
                QueryPassed, AskOpen, AskPassed, Write, Record
  <2>7. ASSUME NEW r \in Requests, StatementFails(r) PROVE UNCHANGED status
    BY <2>7 DEF StatementFails
  <2>8. ASSUME NEW r \in Requests, NEW s \in Sessions, Starts(r, s) PROVE UNCHANGED status
    BY <2>8 DEF Starts, InitRead, SubmitRead, PollRead
  <2>9. ASSUME NEW s \in Sessions, Provider(s) \/ Expire(s) PROVE UNCHANGED status
    BY <2>9 DEF Provider, Decide, Expire
  <2>10. ASSUME Restart \/ UNCHANGED vars PROVE UNCHANGED status
    BY <2>10 DEF Restart, vars
  <2> QED
    BY <2>1, <2>2, <2>3, <2>4, <2>5, <2>6, <2>7, <2>8, <2>9, <2>10 DEF Next
<1>2. Spec => [][Kept]_vars
  BY InvInvariant, <1>1, PTL DEF Spec
<1> QED
  BY <1>2 DEF PassedIsFinal
================================================================================
