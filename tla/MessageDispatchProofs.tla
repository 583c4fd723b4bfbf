----------------------- MODULE MessageDispatchProofs -----------------------
(***************************************************************************)
(* Theorems of MessageDispatch for any number of jobs, workers, tokens and *)
(* attempts.                                                               *)
(***************************************************************************)
EXTENDS MessageDispatch, TLAPS

USE JobsAssumption, LeaseAssumption, BoundsAssumption, ResponsesAssumption

-----------------------------------------------------------------------------

(* gen_random_uuid: the token of a new lease is a token, and no worker      *)
(* remembers it.                                                            *)
LEMMA FreshTokenIsFresh ==
  ASSUME NEW j \in Jobs, HasFreshToken(j)
  PROVE  FreshToken(j) \in Tokens /\ FreshToken(j) \notin UsedTokens(j)
BY DEF HasFreshToken, FreshToken

(* TwilioSmsProvider and SendGridEmailProvider always return a result. *)
LEMMA DeliveryResultType ==
  ASSUME NEW j, NEW response
  PROVE  DeliveryResult(j, response) \in Results
BY DEF DeliveryResult, TwilioResult, SendGridResult, Results

(* What finish_message_attempt and resolve_unknown_message make of a job. *)
LEMMA JobStatusAfterType ==
  ASSUME NEW j, NEW res
  PROVE  JobStatusAfter(j, res) \in
           {"completed", "reconciliation_required", "dead_letter", "retry"}
BY DEF JobStatusAfter, AfterFailure

(* Leaving a job keeps the worker's memory well-typed. *)
LEMMA NextJobType ==
  ASSUME TypeOK, NEW w \in Workers, NEW j, NextJob(w, j)
  PROVE  /\ pc' \in [Workers -> Steps]
         /\ held' \in [Workers -> [Jobs -> Tokens \cup {NoToken}]]
         /\ current' \in [Workers -> Jobs \cup {NoJob}]
         /\ attemptNo' \in [Workers -> 0..MaxAttempts]
         /\ result' \in [Workers -> Results \cup {"none"}]
         /\ WorkersTyped'
<1>1. pc' \in [Workers -> Steps]
  BY DEF TypeOK, NextJob, Steps
<1>2. held' \in [Workers -> [Jobs -> Tokens \cup {NoToken}]]
  BY DEF TypeOK, NextJob
<1>3. /\ current' \in [Workers -> Jobs \cup {NoJob}]
      /\ attemptNo' \in [Workers -> 0..MaxAttempts]
      /\ result' \in [Workers -> Results \cup {"none"}]
  BY DEF TypeOK, NextJob
<1>4. WorkersTyped'
  BY DEF TypeOK, WorkersTyped, NextJob, InAttempt
<1>5. QED
  BY <1>1, <1>2, <1>3, <1>4

(* Giving up a lease keeps the job row well-typed. *)
LEMMA ReleaseType ==
  ASSUME TypeOK, NEW j, NEW status \in JobStatuses, Release(j, status)
  PROVE  /\ jobStatus' \in [Jobs -> JobStatuses]
         /\ lease' \in [Jobs -> (Workers \X Tokens) \cup {NoLease}]
         /\ leaseLive' \in [Jobs -> BOOLEAN]
         /\ due' \in [Jobs -> BOOLEAN]
BY DEF TypeOK, Release

(* No step of the system takes a variable out of its type. *)
LEMMA TypeStep ==
  ASSUME TypeOK, [Next]_vars
  PROVE  TypeOK'
<1> USE DEF TypeOK, jobVars, dbVars, workerVars, providerVars, GoTo
<1>1. ASSUME NEW w \in Workers, NEW Q \in SUBSET Jobs, NEW S \in SUBSET Jobs,
             Claim(w, Q, S)
      PROVE TypeOK'
  <2>1. \A j \in S : FreshToken(j) \in Tokens
    BY <1>1, FreshTokenIsFresh DEF Claim
  <2>2. /\ jobStatus' \in [Jobs -> JobStatuses]
        /\ lease' \in [Jobs -> (Workers \X Tokens) \cup {NoLease}]
        /\ leaseLive' \in [Jobs -> BOOLEAN]
    BY <1>1, <2>1 DEF Claim, JobStatuses
  <2>3. /\ outbox' \in [Jobs -> OutboxStatuses]
        /\ attempts' \in [Jobs -> [AttemptNos -> AttemptStatuses]]
    BY <1>1 DEF Claim, OutboxStatuses, AttemptStatuses
  <2>4. held' \in [Workers -> [Jobs -> Tokens \cup {NoToken}]]
    BY <1>1, <2>1 DEF Claim
  <2>5. WorkersTyped'
    BY <1>1 DEF Claim, WorkersTyped
  <2>6. QED
    BY <1>1, <2>2, <2>3, <2>4, <2>5 DEF Claim
<1>2. ASSUME NEW w \in Workers, NEW j \in Jobs, Authorize(w, j)
      PROVE TypeOK'
  BY <1>2 DEF Authorize, Steps, InAttempt, WorkersTyped
<1>3. ASSUME NEW w \in Workers, NEW j \in Jobs, Block(w, j)
      PROVE TypeOK'
  BY <1>3, NextJobType, ReleaseType DEF Block, JobStatuses
<1>4. ASSUME NEW w \in Workers, NEW j \in Jobs, AuthorizeRaises(w, j)
      PROVE TypeOK'
  BY <1>4, NextJobType DEF AuthorizeRaises
<1>5. ASSUME NEW w \in Workers, Defer(w)
      PROVE TypeOK'
  BY <1>5, NextJobType, ReleaseType DEF Defer, JobStatuses
<1>6. ASSUME NEW w \in Workers, StartAttempt(w)
      PROVE TypeOK'
  <2> DEFINE j == current[w]
             n == attemptCount[j] + 1
  <2>1. j \in Jobs /\ n \in AttemptNos
    BY <1>6 DEF StartAttempt, WorkersTyped, AttemptNos
  <2>2. /\ attemptCount' \in [Jobs -> 0..MaxAttempts]
        /\ outbox' \in [Jobs -> OutboxStatuses]
        /\ attempts' \in [Jobs -> [AttemptNos -> AttemptStatuses]]
    BY <1>6, <2>1 DEF StartAttempt, OutboxStatuses, AttemptStatuses, AttemptNos
  <2>3. /\ pc' \in [Workers -> Steps]
        /\ attemptNo' \in [Workers -> 0..MaxAttempts]
        /\ WorkersTyped'
    BY <1>6, <2>1 DEF StartAttempt, Steps, InAttempt, WorkersTyped, AttemptNos
  <2>4. QED
    BY <1>6, <2>2, <2>3 DEF StartAttempt
<1>7. ASSUME NEW w \in Workers, Abandon(w)
      PROVE TypeOK'
  BY <1>7, NextJobType DEF Abandon
<1>8. ASSUME NEW w \in Workers, PrepareFails(w) \/ HoldRaises(w)
      PROVE TypeOK'
  BY <1>8 DEF PrepareFails, HoldRaises, Steps, Results, InAttempt, WorkersTyped
<1>9. ASSUME NEW w \in Workers, Prepare(w)
      PROVE TypeOK'
  BY <1>9 DEF Prepare, Steps, InAttempt, WorkersTyped
<1>10. ASSUME NEW w \in Workers, Hold(w)
       PROVE TypeOK'
  BY <1>10, NextJobType, ReleaseType
     DEF Hold, JobStatuses, OutboxStatuses, AttemptStatuses
<1>11. ASSUME NEW w \in Workers, NEW response \in Responses,
              NEW reached \in BOOLEAN, Send(w, response, reached)
       PROVE TypeOK'
  <2>1. attemptNo[w] \in AttemptNos
    BY <1>11 DEF Send, WorkersTyped, InAttempt
  <2>2. /\ taken' \in [Jobs -> SUBSET AttemptNos]
        /\ late' \in [Jobs -> SUBSET AttemptNos]
        /\ misread' \in [Jobs -> SUBSET AttemptNos]
    BY <1>11, <2>1 DEF Send
  <2>3. /\ pc' \in [Workers -> Steps]
        /\ result' \in [Workers -> Results \cup {"none"}]
        /\ WorkersTyped'
    BY <1>11, DeliveryResultType DEF Send, Steps, InAttempt, WorkersTyped
  <2>4. QED
    BY <1>11, <2>2, <2>3 DEF Send
<1>12. ASSUME NEW w \in Workers, Finish(w)
       PROVE TypeOK'
  <2>1. result[w] \in Results
    BY <1>12 DEF Finish, WorkersTyped
  <2>2. /\ outbox' \in [Jobs -> OutboxStatuses]
        /\ attempts' \in [Jobs -> [AttemptNos -> AttemptStatuses]]
    BY <1>12, <2>1 DEF Finish, OutboxStatuses, AttemptStatuses, Results
  <2>3. JobStatusAfter(current[w], result[w]) \in JobStatuses
    BY JobStatusAfterType DEF JobStatuses
  <2>4. /\ jobStatus' \in [Jobs -> JobStatuses]
        /\ lease' \in [Jobs -> (Workers \X Tokens) \cup {NoLease}]
        /\ leaseLive' \in [Jobs -> BOOLEAN]
        /\ due' \in [Jobs -> BOOLEAN]
    BY <1>12, <2>3, ReleaseType DEF Finish
  <2>5. QED
    BY <1>12, <2>2, <2>4, NextJobType DEF Finish
<1>13. ASSUME NEW j \in Jobs, Resolve(j)
       PROVE TypeOK'
  BY <1>13, JobStatusAfterType DEF Resolve, JobStatuses, OutboxStatuses, WorkersTyped
<1>14. ASSUME NEW j \in Jobs,
              Pause(j) \/ Lift(j) \/ BecomesDue(j) \/ LeaseExpires(j)
       PROVE TypeOK'
  BY <1>14 DEF Pause, Lift, BecomesDue, LeaseExpires, WorkersTyped
<1>15. ASSUME Disconnect
       PROVE TypeOK'
  BY <1>15 DEF Disconnect, JobStatuses, WorkersTyped
<1>16. ASSUME NEW w \in Workers, Crash(w)
       PROVE TypeOK'
  BY <1>16 DEF Crash, Steps, WorkersTyped, InAttempt
<1>17. CASE UNCHANGED vars
  BY <1>17 DEF vars, WorkersTyped
<1> HIDE DEF TypeOK
<1>18. QED
  BY <1>1, <1>2, <1>3, <1>4, <1>5, <1>6, <1>7, <1>8, <1>9, <1>10, <1>11,
     <1>12, <1>13, <1>14, <1>15, <1>16, <1>17 DEF Next, WorkerStep

(* Every column and every local variable keeps to its values, whatever the  *)
(* number of jobs, workers and attempts.                                    *)
THEOREM TypeCorrect == Spec => []TypeOK
<1>1. Init => TypeOK
  BY DEF Init, TypeOK, WorkersTyped, JobStatuses, OutboxStatuses,
         AttemptStatuses, Steps, InAttempt, AttemptNos
<1>2. TypeOK /\ [Next]_vars => TypeOK'
  BY TypeStep
<1>3. QED
  BY <1>1, <1>2, PTL DEF Spec

-----------------------------------------------------------------------------
(* The inductive invariant.                                                *)

(* A worker that forgets its job leaves every other worker alone in its    *)
(* attempt.                                                                *)
LEMMA ForgettingKeepsAttemptsOwn ==
  ASSUME IInv, NEW w \in Workers, NEW j, NextJob(w, j)
  PROVE  AttemptsAreOwn'
<1> SUFFICES ASSUME NEW u \in Workers, NEW v \in Workers, u # v,
                    pc'[u] \in InAttempt, pc'[v] \in InAttempt,
                    current'[u] = current'[v]
             PROVE  attemptNo'[u] # attemptNo'[v]
  BY DEF AttemptsAreOwn
<1>1. u # w /\ v # w
  BY DEF IInv, TypeOK, NextJob, InAttempt
<1>2. QED
  BY <1>1 DEF IInv, TypeOK, NextJob, AttemptsAreOwn

(* Forgetting a job closes no question about the others: what the database *)
(* keeps is what their workers remembered.                                 *)
LEMMA ForgettingKeepsWorkersRight ==
  ASSUME IInv, NEW w \in Workers, NEW j \in Jobs, NextJob(w, j),
         UNCHANGED attemptCount, UNCHANGED taken, UNCHANGED misread,
         \A v \in Workers : v # w /\ pc[v] # "loop" =>
           (HoldsLease(v, current[v])' =>
              HoldsLease(v, current[v]) /\ outbox'[current[v]] = outbox[current[v]])
  PROVE  WorkersAreRight'
<1> SUFFICES ASSUME NEW v \in Workers PROVE WorkerIsRight(v)'
  BY DEF WorkersAreRight
<1>1. CASE v = w
  BY <1>1 DEF IInv, TypeOK, NextJob, WorkerIsRight, InAttempt
<1>2. CASE v # w
  <2>1. WorkerIsRight(v)
    BY DEF IInv, WorkersAreRight
  <2>2. /\ pc'[v] = pc[v] /\ current'[v] = current[v]
        /\ attemptNo'[v] = attemptNo[v] /\ result'[v] = result[v]
        /\ held'[v] = held[v]
    BY <1>2 DEF IInv, TypeOK, NextJob
  <2>3. QED
    BY <1>2, <2>1, <2>2 DEF WorkerIsRight, InAttempt, InOrder, HoldsLease
<1>3. QED
  BY <1>1, <1>2

(* Steps that only move a worker or time leave the tables and the provider *)
(* in agreement.                                                           *)
LEMMA TablesAndProvidersUntouched ==
  ASSUME IInv, UNCHANGED jobVars, UNCHANGED outbox, UNCHANGED attempts,
         UNCHANGED providerVars
  PROVE  RowsAgree' /\ ProviderAgrees' /\ CompletedWasDelivered'
BY DEF IInv, jobVars, providerVars, RowsAgree, RowAgrees, ProviderAgrees,
       ProviderAgreesOn, InOrder, CompletedWasDelivered

(* A worker that forgets job j has no lease on it any more, so the leases   *)
(* that are left tell the truth about their outbox as before.               *)
LEMMA ForgettingKeepsLeasesClosed ==
  ASSUME IInv, NEW w \in Workers, NEW j \in Jobs, NextJob(w, j),
         pc[w] = "loop" \/ current[w] = j,
         \A i \in Jobs : outbox'[i] = "sending" => outbox[i] = "sending",
         \A i \in Jobs : jobStatus'[i] = "leased" =>
                           jobStatus[i] = "leased" /\ lease'[i] = lease[i]
  PROVE  LeasesStartClosed'
<1> SUFFICES ASSUME NEW v \in Workers, NEW i \in Jobs, HoldsLease(v, i)',
                    ~(pc'[v] \in InAttempt /\ current'[v] = i)
             PROVE  outbox[i] # "sending"
  BY DEF LeasesStartClosed
<1>1. jobStatus[i] = "leased" /\ lease[i] = <<v, held'[v][i]>>
  BY DEF HoldsLease
<1>2. held'[v][i] # NoToken
  BY <1>1 DEF IInv, TypeOK, RowsAgree, RowAgrees
<1>3. v # w \/ i # j
  BY <1>2 DEF IInv, TypeOK, NextJob
<1>4. HoldsLease(v, i)
  BY <1>1, <1>3 DEF IInv, TypeOK, NextJob, HoldsLease
<1>5. ~(pc[v] \in InAttempt /\ current[v] = i)
  BY <1>3 DEF IInv, TypeOK, NextJob, InAttempt
<1>6. QED
  BY <1>4, <1>5 DEF IInv, LeasesStartClosed

(* The heart of finish_message_attempt and hold_message_for_sms_allowance:  *)
(* closing the attempt under its exact lease keeps the invariant, when the  *)
(* result recorded is true and the job's new status fits it.                *)
LEMMA ClosingIsSound ==
  ASSUME IInv, TypeOK', NEW w \in Workers, NEW k \in Jobs, k = current[w],
         pc[w] \in InAttempt, HoldsLease(w, k),
         NEW res \in Results, NEW status,
         attempts' = [attempts EXCEPT ![k][attemptNo[w]] = res],
         outbox' = [outbox EXCEPT ![k] = res],
         Release(k, status), NextJob(w, k),
         UNCHANGED <<attemptCount, paused, providerVars>>,
         status \in {"completed", "reconciliation_required", "dead_letter", "retry"},
         res = "accepted" <=> status = "completed",
         res = "unknown" <=> status = "reconciliation_required",
         status = "dead_letter" => attemptCount[k] = MaxAttempts,
         res = "accepted" => attemptNo[w] \in taken[k],
         res = "failed" => attemptNo[w] \notin taken[k] \ misread[k]
  PROVE  IInv'
<1> USE DEF providerVars
<1>1. TypeOK
  BY DEF IInv
<1>2. /\ attemptNo[w] = attemptCount[k] /\ attemptNo[w] \in AttemptNos
      /\ outbox[k] = "sending" /\ jobStatus[k] = "leased"
  BY <1>1 DEF IInv, WorkersAreRight, WorkerIsRight, TypeOK, WorkersTyped, HoldsLease
<1>3. ASSUME NEW j \in Jobs PROVE RowAgrees(j)'
  <2>1. RowAgrees(j)
    BY DEF IInv, RowsAgree
  <2>2. CASE j = k
    BY <1>1, <1>2, <2>1, <2>2 DEF Release, RowAgrees, TypeOK, Results, AttemptNos
  <2>3. CASE j # k
    BY <1>1, <2>1, <2>3 DEF Release, RowAgrees, TypeOK
  <2>4. QED
    BY <2>2, <2>3
<1>4. WorkersAreRight'
  <2>1. ASSUME NEW v \in Workers, v # w, pc[v] # "loop", HoldsLease(v, current[v])'
        PROVE  HoldsLease(v, current[v]) /\ outbox'[current[v]] = outbox[current[v]]
    <3>1. current[v] \in Jobs
      BY <1>1, <2>1 DEF TypeOK, WorkersTyped
    <3>2. current[v] # k
      BY <1>1, <2>1 DEF Release, NextJob, HoldsLease, TypeOK
    <3>3. QED
      BY <1>1, <2>1, <3>1, <3>2 DEF Release, NextJob, HoldsLease, TypeOK
  <2>2. QED
    BY <2>1, ForgettingKeepsWorkersRight
<1>5. AttemptsAreOwn'
  BY ForgettingKeepsAttemptsOwn
<1>6. LeasesStartClosed'
  BY <1>1, ForgettingKeepsLeasesClosed DEF Release, TypeOK, Results
<1>7. ASSUME NEW j \in Jobs PROVE ProviderAgreesOn(j)'
  <2>1. ProviderAgreesOn(j)
    BY DEF IInv, ProviderAgrees
  <2>2. CASE j = k
    BY <1>1, <1>2, <2>1, <2>2
       DEF ProviderAgreesOn, InOrder, TypeOK, Results
  <2>3. CASE j # k
    BY <1>1, <2>1, <2>3 DEF ProviderAgreesOn, InOrder, TypeOK
  <2>4. QED
    BY <2>2, <2>3
<1>8. CompletedWasDelivered'
  BY <1>1 DEF IInv, CompletedWasDelivered, Release, TypeOK
<1>9. QED
  BY <1>3, <1>4, <1>5, <1>6, <1>7, <1>8 DEF IInv, RowsAgree, ProviderAgrees

(* A provider's answer is believed only as far as it goes: "accepted" means *)
(* the message arrived, "failed" that it did not, or that the answer was    *)
(* one of the misleading ones.                                              *)
LEMMA DeliveryResultIsTrue ==
  ASSUME NEW j \in Jobs, NEW response \in Responses, NEW reached \in BOOLEAN,
         response \in SurelyTaken => reached,
         response \in SurelyNotTaken => ~reached
  PROVE  /\ DeliveryResult(j, response) = "accepted" => reached
         /\ DeliveryResult(j, response) = "failed" /\ reached =>
              response \in Misleading(j)
BY DEF DeliveryResult, TwilioResult, SendGridResult, SurelyTaken, SurelyNotTaken,
       Misleading, AllResponses

(* What a worker's lease says about the job's row, before it has started    *)
(* the attempt: the outbox is neither open nor settled.                     *)
LEMMA LeasedRowIsUndecided ==
  ASSUME IInv, NEW w \in Workers, NEW j \in Jobs, HoldsLease(w, j)
  PROVE  /\ outbox[j] \notin {"accepted", "unknown"}
         /\ pc[w] = "loop" \/ current[w] # j \/ pc[w] \notin InAttempt =>
              outbox[j] # "sending"
BY DEF IInv, RowsAgree, RowAgrees, LeasesStartClosed, HoldsLease, InAttempt

(* Only one worker holds the lease of a job. *)
LEMMA LeaseIsExclusive ==
  ASSUME NEW v \in Workers, NEW w \in Workers, NEW j,
         HoldsLease(v, j), HoldsLease(w, j)
  PROVE  v = w
BY DEF HoldsLease

(* No step breaks the inductive invariant. *)
LEMMA InvStep ==
  ASSUME IInv, [Next]_vars
  PROVE  IInv'
<1> USE DEF jobVars, dbVars, workerVars, providerVars, GoTo
<1>0. TypeOK /\ TypeOK'
  BY TypeStep DEF IInv
<1>1. ASSUME NEW w \in Workers, NEW Q \in SUBSET Jobs, NEW S \in SUBSET Jobs,
             Claim(w, Q, S)
      PROVE  IInv'
  <2>1. \A j \in S : /\ FreshToken(j) \in Tokens
                     /\ \A v \in Workers : held[v][j] # FreshToken(j)
    BY <1>1, FreshTokenIsFresh DEF Claim, UsedTokens
  <2>2. /\ current[w] = NoJob
        /\ \A j \in Jobs : held[w][j] = NoToken
    BY <1>0, <1>1 DEF Claim, TypeOK, WorkersTyped
  <2>3. ASSUME NEW j \in Jobs PROVE RowAgrees(j)'
    <3>1. RowAgrees(j)
      BY DEF IInv, RowsAgree
    <3>2. CASE j \in Q
      <4>1. j \notin S /\ outbox[j] = "sending" /\ jobStatus[j] = "leased"
        BY <1>1, <3>2 DEF Claim, Claimable, Abandoned, Unsendable
      <4>2. QED
        BY <1>0, <1>1, <3>1, <3>2, <4>1 DEF Claim, RowAgrees, TypeOK
    <3>3. CASE j \in S \ Q
      <4>1. <<w, FreshToken(j)>> # NoLease
        BY <2>1, <3>3
      <4>2. outbox[j] \in {"none", "failed"}
        BY <1>0, <1>1, <3>3 DEF Claim, Claimable, Unsendable, TypeOK, OutboxStatuses
      <4>3. jobStatus'[j] = "leased" /\ lease'[j] # NoLease
        BY <1>1, <3>3, <4>1 DEF Claim
      <4>4. /\ attemptCount'[j] = attemptCount[j]
            /\ outbox'[j] = outbox[j]
            /\ \A n \in AttemptNos : attempts'[j][n] = attempts[j][n]
        BY <1>1, <3>3 DEF Claim
      <4>5. jobStatus[j] \in {"scheduled", "retry", "leased"}
        BY <1>1, <3>3 DEF Claim, Claimable
      <4>6. QED
        BY <3>1, <4>2, <4>3, <4>4, <4>5 DEF RowAgrees
    <3>4. CASE j \notin Q \cup S
      BY <1>0, <1>1, <3>1, <3>4 DEF Claim, RowAgrees, TypeOK
    <3>5. QED
      BY <3>2, <3>3, <3>4
  <2>4. ASSUME NEW v \in Workers PROVE WorkerIsRight(v)'
    <3>1. WorkerIsRight(v)
      BY DEF IInv, WorkersAreRight
    <3>2. CASE v = w
      BY <1>0, <1>1, <3>2 DEF Claim, WorkerIsRight, InAttempt
    <3>3. CASE v # w /\ pc[v] # "loop"
      <4>1. current[v] \in Jobs
        BY <1>0, <3>3 DEF TypeOK, WorkersTyped
      <4>2. held'[v] = held[v]
        BY <1>0, <1>1, <3>3 DEF Claim, TypeOK
      <4>3. HoldsLease(v, current[v])' =>
              HoldsLease(v, current[v]) /\ outbox'[current[v]] = outbox[current[v]]
        BY <1>0, <1>1, <2>1, <3>3, <4>1, <4>2 DEF Claim, HoldsLease
      <4>4. QED
        BY <1>1, <3>1, <4>2, <4>3 DEF Claim, WorkerIsRight, InOrder, HoldsLease
    <3>4. CASE v # w /\ pc[v] = "loop"
      BY <1>1, <3>4 DEF Claim, WorkerIsRight, InAttempt
    <3>5. QED
      BY <3>2, <3>3, <3>4
  <2>5. AttemptsAreOwn'
    BY <1>1 DEF IInv, Claim, AttemptsAreOwn
  <2>6. ASSUME NEW v \in Workers, NEW j \in Jobs, HoldsLease(v, j)',
               ~(pc'[v] \in InAttempt /\ current'[v] = j)
        PROVE  outbox'[j] # "sending"
    <3>1. CASE j \in S
      BY <1>1, <3>1 DEF Claim, Claimable, Unsendable
    <3>2. CASE j \in Q
      BY <1>1, <3>2 DEF Claim
    <3>3. CASE j \notin Q \cup S
      <4>1. HoldsLease(v, j)
        BY <1>0, <1>1, <2>2, <2>6, <3>3 DEF Claim, HoldsLease, TypeOK
      <4>2. QED
        BY <1>1, <2>6, <3>3, <4>1 DEF IInv, Claim, LeasesStartClosed
    <3>4. QED
      BY <3>1, <3>2, <3>3
  <2>7. ASSUME NEW j \in Jobs PROVE ProviderAgreesOn(j)'
    <3>1. ProviderAgreesOn(j)
      BY DEF IInv, ProviderAgrees
    <3>2. outbox'[j] = outbox[j] \/ outbox'[j] = "unknown"
      BY <1>1 DEF Claim
    <3>3. QED
      BY <1>1, <3>1, <3>2 DEF Claim, ProviderAgreesOn, InOrder
  <2>8. CompletedWasDelivered'
    BY <1>1 DEF IInv, Claim, CompletedWasDelivered
  <2>9. QED
    BY <1>0, <2>3, <2>4, <2>5, <2>6, <2>7, <2>8
       DEF IInv, RowsAgree, WorkersAreRight, LeasesStartClosed, ProviderAgrees
<1>2. ASSUME NEW w \in Workers, NEW k \in Jobs, Authorize(w, k)
      PROVE  IInv'
  <2>1. RowsAgree' /\ ProviderAgrees' /\ CompletedWasDelivered'
    BY <1>2, TablesAndProvidersUntouched DEF Authorize
  <2>2. ASSUME NEW v \in Workers PROVE WorkerIsRight(v)'
    <3>1. CASE v = w
      BY <1>0, <1>2, <3>1 DEF Authorize, WorkerIsRight, InAttempt, TypeOK
    <3>2. CASE v # w
      BY <1>0, <1>2, <3>2 DEF IInv, Authorize, WorkersAreRight, WorkerIsRight,
         HoldsLease, InOrder, TypeOK
    <3>3. QED
      BY <3>1, <3>2
  <2>3. AttemptsAreOwn'
    BY <1>0, <1>2 DEF IInv, Authorize, AttemptsAreOwn, InAttempt, TypeOK
  <2>4. LeasesStartClosed'
    BY <1>0, <1>2
       DEF IInv, Authorize, LeasesStartClosed, HoldsLease, InAttempt, TypeOK
  <2>5. QED
    BY <1>0, <2>1, <2>2, <2>3, <2>4 DEF IInv, WorkersAreRight
<1>3. ASSUME NEW w \in Workers, NEW k \in Jobs, Block(w, k)
      PROVE  IInv'
  <2>1. outbox[k] \in {"none", "failed"} /\ jobStatus[k] = "leased" /\ pc[w] = "loop"
    <3>1. HoldsLease(w, k) /\ pc[w] = "loop"
      BY <1>3 DEF Block, HoldsLiveLease
    <3>2. outbox[k] \notin {"accepted", "unknown", "sending"}
      BY <3>1, LeasedRowIsUndecided
    <3>3. outbox[k] \in OutboxStatuses
      BY <1>0 DEF TypeOK
    <3>4. QED
      BY <3>1, <3>2, <3>3 DEF OutboxStatuses, HoldsLease
  <2>2. ASSUME NEW j \in Jobs PROVE RowAgrees(j)'
    BY <1>0, <1>3, <2>1 DEF IInv, Block, Release, RowsAgree, RowAgrees, TypeOK
  <2>3. WorkersAreRight'
    <3>1. ASSUME NEW v \in Workers, v # w, HoldsLease(v, current[v])'
          PROVE  HoldsLease(v, current[v])
      BY <1>0, <1>3, <3>1 DEF Block, Release, NextJob, HoldsLease, TypeOK
    <3>2. QED
      BY <1>3, <3>1, ForgettingKeepsWorkersRight DEF Block
  <2>4. AttemptsAreOwn'
    BY <1>3, ForgettingKeepsAttemptsOwn DEF Block
  <2>5. LeasesStartClosed'
    BY <1>0, <1>3, ForgettingKeepsLeasesClosed DEF Block, Release, TypeOK
  <2>6. ProviderAgrees'
    BY <1>3 DEF IInv, Block, ProviderAgrees, ProviderAgreesOn, InOrder
  <2>7. CompletedWasDelivered'
    BY <1>0, <1>3 DEF IInv, Block, Release, CompletedWasDelivered, TypeOK
  <2>8. QED
    BY <1>0, <2>2, <2>3, <2>4, <2>5, <2>6, <2>7 DEF IInv, RowsAgree
<1>4. ASSUME NEW w \in Workers, NEW k \in Jobs, AuthorizeRaises(w, k)
      PROVE  IInv'
  <2>1. RowsAgree' /\ ProviderAgrees' /\ CompletedWasDelivered'
    BY <1>4, TablesAndProvidersUntouched DEF AuthorizeRaises
  <2>2. WorkersAreRight'
    <3>1. ASSUME NEW v \in Workers, v # w, HoldsLease(v, current[v])'
          PROVE  HoldsLease(v, current[v])
      BY <1>0, <1>4, <3>1 DEF AuthorizeRaises, NextJob, HoldsLease, TypeOK
    <3>2. QED
      BY <1>4, <3>1, ForgettingKeepsWorkersRight DEF AuthorizeRaises
  <2>3. AttemptsAreOwn'
    BY <1>4, ForgettingKeepsAttemptsOwn DEF AuthorizeRaises
  <2>4. LeasesStartClosed'
    BY <1>4, ForgettingKeepsLeasesClosed DEF AuthorizeRaises
  <2>5. QED
    BY <1>0, <2>1, <2>2, <2>3, <2>4 DEF IInv
<1>5. ASSUME NEW w \in Workers, Defer(w)
      PROVE  IInv'
  <2> DEFINE k == current[w]
  <2>1. /\ k \in Jobs
        /\ outbox[k] \in {"none", "failed"}
        /\ jobStatus[k] = "leased"
    <3>1. HoldsLease(w, k) /\ pc[w] = "defer" /\ k \in Jobs
      BY <1>0, <1>5 DEF Defer, HoldsLiveLease, TypeOK, WorkersTyped
    <3>2. outbox[k] \notin {"accepted", "unknown", "sending"}
      BY <3>1, LeasedRowIsUndecided DEF InAttempt
    <3>3. outbox[k] \in OutboxStatuses
      BY <1>0, <3>1 DEF TypeOK
    <3>4. QED
      BY <3>1, <3>2, <3>3 DEF OutboxStatuses, HoldsLease
  <2>2. ASSUME NEW j \in Jobs PROVE RowAgrees(j)'
    BY <1>0, <1>5, <2>1 DEF IInv, Defer, Release, RowsAgree, RowAgrees, TypeOK
  <2>3. WorkersAreRight'
    <3>1. ASSUME NEW v \in Workers, v # w, HoldsLease(v, current[v])'
          PROVE  HoldsLease(v, current[v])
      BY <1>0, <1>5, <2>1, <3>1 DEF Defer, Release, NextJob, HoldsLease, TypeOK
    <3>2. QED
      BY <1>5, <2>1, <3>1, ForgettingKeepsWorkersRight DEF Defer
  <2>4. AttemptsAreOwn'
    BY <1>5, ForgettingKeepsAttemptsOwn DEF Defer
  <2>5. LeasesStartClosed'
    BY <1>0, <1>5, <2>1, ForgettingKeepsLeasesClosed DEF Defer, Release, TypeOK
  <2>6. ProviderAgrees'
    BY <1>5 DEF IInv, Defer, ProviderAgrees, ProviderAgreesOn, InOrder
  <2>7. CompletedWasDelivered'
    BY <1>0, <1>5 DEF IInv, Defer, Release, CompletedWasDelivered, TypeOK
  <2>8. QED
    BY <1>0, <2>2, <2>3, <2>4, <2>5, <2>6, <2>7 DEF IInv, RowsAgree
<1>6. ASSUME NEW w \in Workers, StartAttempt(w)
      PROVE  IInv'
  <2> DEFINE k == current[w]
             m == attemptCount[k] + 1
  <2>1. /\ k \in Jobs /\ pc[w] = "payload" /\ HoldsLease(w, k)
        /\ m \in AttemptNos
        /\ outbox[k] \in {"none", "failed"}
        /\ jobStatus[k] = "leased"
    BY <1>0, <1>6 DEF StartAttempt, HoldsLiveLease, HoldsLease, TypeOK, WorkersTyped,
       AttemptNos, Unsendable, OutboxStatuses
  <2>2. ASSUME NEW j \in Jobs PROVE RowAgrees(j)'
    <3>1. RowAgrees(j)
      BY DEF IInv, RowsAgree
    <3>2. CASE j = k
      BY <1>0, <1>6, <2>1, <3>1, <3>2 DEF StartAttempt, RowAgrees, TypeOK, AttemptNos
    <3>3. CASE j # k
      BY <1>0, <1>6, <2>1, <3>1, <3>3 DEF StartAttempt, RowAgrees, TypeOK
    <3>4. QED
      BY <3>2, <3>3
  <2>3. ASSUME NEW v \in Workers PROVE WorkerIsRight(v)'
    <3>1. WorkerIsRight(v)
      BY DEF IInv, WorkersAreRight
    <3>2. CASE v = w
      <4>1. m \notin taken[k]
        BY <1>0, <2>1 DEF IInv, ProviderAgrees, ProviderAgreesOn, TypeOK
      <4>2. QED
        BY <1>0, <1>6, <2>1, <3>1, <3>2, <4>1
           DEF StartAttempt, WorkerIsRight, InAttempt, TypeOK, AttemptNos
    <3>3. CASE v # w
      <4>1. current[v] = k => ~HoldsLease(v, k)'
        BY <1>6, <2>1, <3>3 DEF StartAttempt, HoldsLease
      <4>2. pc'[v] # "loop" => current[v] \in Jobs
        BY <1>0, <1>6, <3>3 DEF StartAttempt, TypeOK, WorkersTyped
      <4>3. pc[v] \in InAttempt => attemptCount'[current[v]] >= attemptCount[current[v]]
        BY <1>0, <1>6, <2>1, <3>3, <4>2 DEF StartAttempt, TypeOK, InAttempt
      <4>4. QED
        BY <1>0, <1>6, <2>1, <3>1, <3>3, <4>1, <4>2, <4>3
           DEF StartAttempt, WorkerIsRight, InAttempt, HoldsLease, InOrder, TypeOK
    <3>4. QED
      BY <3>2, <3>3
  <2>4. ASSUME NEW u \in Workers, NEW v \in Workers, u # v,
               pc'[u] \in InAttempt, pc'[v] \in InAttempt, current'[u] = current'[v]
        PROVE  attemptNo'[u] # attemptNo'[v]
    <3>1. ASSUME NEW x \in Workers, x # w, pc[x] \in InAttempt, current[x] = k
          PROVE  attemptNo[x] # m
      BY <1>0, <2>1, <3>1 DEF IInv, WorkersAreRight, WorkerIsRight, TypeOK
    <3>2. QED
      BY <1>0, <1>6, <2>1, <2>4, <3>1 DEF IInv, StartAttempt, AttemptsAreOwn, TypeOK
  <2>5. ASSUME NEW v \in Workers, NEW j \in Jobs, HoldsLease(v, j)',
               ~(pc'[v] \in InAttempt /\ current'[v] = j)
        PROVE  outbox'[j] # "sending"
    <3>1. HoldsLease(v, j)
      BY <1>6, <2>5 DEF StartAttempt, HoldsLease
    <3>2. CASE v = w
      BY <1>0, <1>6, <2>1, <2>5, <3>1, <3>2
         DEF IInv, StartAttempt, LeasesStartClosed, InAttempt, TypeOK
    <3>3. CASE v # w
      <4>1. j # k
        BY <2>1, <3>1, <3>3, LeaseIsExclusive
      <4>2. QED
        BY <1>0, <1>6, <2>1, <2>5, <3>1, <3>3, <4>1
           DEF IInv, StartAttempt, LeasesStartClosed, TypeOK
    <3>4. QED
      BY <3>2, <3>3
  <2>6. ASSUME NEW j \in Jobs PROVE ProviderAgreesOn(j)'
    <3>1. ProviderAgreesOn(j) /\ RowAgrees(j)
      BY DEF IInv, ProviderAgrees, RowsAgree
    <3>2. CASE j = k
      <4>1. InOrder(k) = {}
        BY <2>1, <3>1, <3>2 DEF ProviderAgreesOn
      <4>2. QED
        BY <1>0, <1>6, <2>1, <3>1, <3>2, <4>1
           DEF StartAttempt, ProviderAgreesOn, InOrder, TypeOK
    <3>3. CASE j # k
      BY <1>0, <1>6, <2>1, <3>1, <3>3
         DEF StartAttempt, ProviderAgreesOn, InOrder, TypeOK
    <3>4. QED
      BY <3>2, <3>3
  <2>7. CompletedWasDelivered'
    BY <1>6 DEF IInv, StartAttempt, CompletedWasDelivered
  <2>8. QED
    BY <1>0, <2>2, <2>3, <2>4, <2>5, <2>6, <2>7
       DEF IInv, RowsAgree, WorkersAreRight, AttemptsAreOwn, LeasesStartClosed, ProviderAgrees
<1>7. ASSUME NEW w \in Workers, Abandon(w)
      PROVE  IInv'
  <2>1. current[w] \in Jobs
    BY <1>0, <1>7 DEF Abandon, TypeOK, WorkersTyped
  <2>2. RowsAgree' /\ ProviderAgrees' /\ CompletedWasDelivered'
    BY <1>7, TablesAndProvidersUntouched DEF Abandon
  <2>3. WorkersAreRight'
    <3>1. ASSUME NEW v \in Workers, v # w, HoldsLease(v, current[v])'
          PROVE  HoldsLease(v, current[v])
      BY <1>0, <1>7, <3>1 DEF Abandon, NextJob, HoldsLease, TypeOK
    <3>2. QED
      BY <1>7, <2>1, <3>1, ForgettingKeepsWorkersRight DEF Abandon
  <2>4. AttemptsAreOwn'
    BY <1>7, ForgettingKeepsAttemptsOwn DEF Abandon
  <2>5. LeasesStartClosed'
    BY <1>7, <2>1, ForgettingKeepsLeasesClosed DEF Abandon
  <2>6. QED
    BY <1>0, <2>2, <2>3, <2>4, <2>5 DEF IInv
<1>8. ASSUME NEW w \in Workers, PrepareFails(w) \/ HoldRaises(w)
      PROVE  IInv'
  <2>1. /\ pc[w] \in {"prepare", "hold"}
        /\ pc' = [pc EXCEPT ![w] = "finish"]
        /\ result' = [result EXCEPT ![w] = "failed"]
        /\ UNCHANGED <<dbVars, held, current, attemptNo, providerVars>>
    BY <1>8 DEF PrepareFails, HoldRaises
  <2>2. RowsAgree' /\ ProviderAgrees' /\ CompletedWasDelivered'
    BY <2>1, TablesAndProvidersUntouched
  <2>3. ASSUME NEW v \in Workers PROVE WorkerIsRight(v)'
    BY <1>0, <2>1 DEF IInv, WorkersAreRight, WorkerIsRight, HoldsLease, InAttempt,
       InOrder, TypeOK
  <2>4. \A v \in Workers : pc'[v] \in InAttempt <=> pc[v] \in InAttempt
    BY <1>0, <2>1 DEF InAttempt, TypeOK
  <2>5. AttemptsAreOwn' /\ LeasesStartClosed'
    BY <2>1, <2>4 DEF IInv, AttemptsAreOwn, LeasesStartClosed, HoldsLease
  <2>6. QED
    BY <1>0, <2>2, <2>3, <2>5 DEF IInv, WorkersAreRight
<1>9. ASSUME NEW w \in Workers, Prepare(w)
      PROVE  IInv'
  <2>1. /\ pc[w] = "prepare"
        /\ \/ pc' = [pc EXCEPT ![w] = "send"]
           \/ pc' = [pc EXCEPT ![w] = "hold"]
        /\ UNCHANGED <<dbVars, held, current, attemptNo, result, providerVars>>
    BY <1>9 DEF Prepare
  <2>2. RowsAgree' /\ ProviderAgrees' /\ CompletedWasDelivered'
    BY <2>1, TablesAndProvidersUntouched
  <2>3. ASSUME NEW v \in Workers PROVE WorkerIsRight(v)'
    BY <1>0, <2>1 DEF IInv, WorkersAreRight, WorkerIsRight, HoldsLease, InAttempt,
       InOrder, TypeOK
  <2>4. \A v \in Workers : pc'[v] \in InAttempt <=> pc[v] \in InAttempt
    BY <1>0, <2>1 DEF InAttempt, TypeOK
  <2>5. AttemptsAreOwn' /\ LeasesStartClosed'
    BY <2>1, <2>4 DEF IInv, AttemptsAreOwn, LeasesStartClosed, HoldsLease
  <2>6. QED
    BY <1>0, <2>2, <2>3, <2>5 DEF IInv, WorkersAreRight
<1>10. ASSUME NEW w \in Workers, Hold(w)
       PROVE  IInv'
  <2>1. current[w] \in Jobs /\ attemptNo[w] \notin taken[current[w]]
    BY <1>0, <1>10 DEF IInv, WorkersAreRight, WorkerIsRight, Hold, TypeOK, WorkersTyped,
       InAttempt
  <2>2. QED
    BY <1>0, <1>10, <2>1, ClosingIsSound DEF Hold, InAttempt, Results
<1>11. ASSUME NEW w \in Workers, NEW response \in Responses,
              NEW reached \in BOOLEAN, Send(w, response, reached)
       PROVE  IInv'
  <2> DEFINE k == current[w]
             n == attemptNo[w]
  <2>1. /\ k \in Jobs /\ n \in 1..attemptCount[k] /\ n \in AttemptNos
        /\ pc[w] = "send" /\ n \notin taken[k]
        /\ HoldsLease(w, k) => n = attemptCount[k] /\ outbox[k] = "sending"
    BY <1>0, <1>11 DEF IInv, WorkersAreRight, WorkerIsRight, Send, TypeOK, WorkersTyped,
       InAttempt
  <2>2. /\ taken'[k] = taken[k] \cup (IF reached THEN {n} ELSE {})
        /\ \A j \in Jobs : j # k => taken'[j] = taken[j] /\ late'[j] = late[j]
        /\ HoldsLease(w, k) => late'[k] = late[k]
        /\ ~HoldsLease(w, k) => late'[k] = late[k] \cup (IF reached THEN {n} ELSE {})
        /\ \A j \in Jobs : j # k => misread'[j] = misread[j]
        /\ misread'[k] = misread[k] \cup
             (IF reached /\ response \in Misleading(k) THEN {n} ELSE {})
    BY <1>0, <1>11, <2>1 DEF Send, TypeOK
  <2>3. RowsAgree'
    BY <1>11 DEF IInv, Send, RowsAgree, RowAgrees
  <2>4. ASSUME NEW v \in Workers PROVE WorkerIsRight(v)'
    <3>1. WorkerIsRight(v)
      BY DEF IInv, WorkersAreRight
    <3>2. CASE v = w
      <4>1. /\ pc'[v] = "finish" /\ current'[v] = k /\ attemptNo'[v] = n
            /\ result'[v] = DeliveryResult(k, response)
        BY <1>0, <1>11, <3>2 DEF Send, TypeOK
      <4>2. /\ result'[v] = "accepted" => n \in taken'[k]
            /\ result'[v] = "failed" => n \notin taken'[k] \ misread'[k]
        BY <1>11, <2>1, <2>2, <4>1, DeliveryResultIsTrue DEF Send
      <4>3. held'[v] = held[v] /\ HoldsLease(v, k)' = HoldsLease(v, k)
        BY <1>11 DEF Send, HoldsLease
      <4>4. held[v][k] # NoToken
        BY <2>1, <3>1, <3>2 DEF WorkerIsRight
      <4>5. QED
        BY <1>11, <2>1, <3>2, <4>1, <4>2, <4>3, <4>4
           DEF Send, WorkerIsRight, InAttempt, InOrder
    <3>3. CASE v # w
      <4>1. pc[v] \in InAttempt /\ current[v] = k => attemptNo[v] # n
        BY <2>1, <3>3 DEF IInv, AttemptsAreOwn, InAttempt
      <4>2. pc[v] \in InAttempt =>
              /\ attemptNo[v] \in taken'[current[v]] <=> attemptNo[v] \in taken[current[v]]
              /\ attemptNo[v] \in misread[current[v]] => attemptNo[v] \in misread'[current[v]]
        BY <1>0, <2>2, <4>1 DEF TypeOK, WorkersTyped, InAttempt
      <4>3. pc'[v] = pc[v] /\ result'[v] = result[v]
        BY <1>0, <1>11, <3>3 DEF Send, TypeOK
      <4>4. QED
        BY <1>11, <3>1, <4>2, <4>3
           DEF Send, WorkerIsRight, HoldsLease, InAttempt, InOrder
    <3>4. QED
      BY <3>2, <3>3
  <2>5. \A v \in Workers : pc'[v] \in InAttempt <=> pc[v] \in InAttempt
    BY <1>0, <1>11 DEF Send, InAttempt, TypeOK
  <2>6. AttemptsAreOwn' /\ LeasesStartClosed'
    BY <1>11, <2>5 DEF IInv, Send, AttemptsAreOwn, LeasesStartClosed, HoldsLease
  <2>7. ASSUME NEW j \in Jobs PROVE ProviderAgreesOn(j)'
    <3>1. ProviderAgreesOn(j)
      BY DEF IInv, ProviderAgrees
    <3>2. CASE j # k
      BY <1>11, <2>2, <3>1, <3>2 DEF Send, ProviderAgreesOn, InOrder
    <3>3. CASE j = k
      BY <1>11, <2>1, <2>2, <3>1, <3>3 DEF Send, ProviderAgreesOn, InOrder
    <3>4. QED
      BY <3>2, <3>3
  <2>8. CompletedWasDelivered'
    BY <1>11, <2>2 DEF IInv, Send, CompletedWasDelivered
  <2>9. QED
    BY <1>0, <2>3, <2>4, <2>6, <2>7, <2>8 DEF IInv, WorkersAreRight, ProviderAgrees
<1>12. ASSUME NEW w \in Workers, Finish(w)
       PROVE  IInv'
  <2> DEFINE k == current[w]
             status == JobStatusAfter(k, result[w])
  <2>1. /\ k \in Jobs
        /\ result[w] \in Results
        /\ result[w] = "accepted" => attemptNo[w] \in taken[k]
        /\ result[w] = "failed" => attemptNo[w] \notin taken[k] \ misread[k]
    BY <1>0, <1>12 DEF IInv, WorkersAreRight, WorkerIsRight, Finish, TypeOK, WorkersTyped
  <2>2. attemptCount[k] \in 0..MaxAttempts
    BY <1>0, <2>1 DEF TypeOK
  <2>3. /\ status \in {"completed", "reconciliation_required", "dead_letter", "retry"}
        /\ result[w] = "accepted" <=> status = "completed"
        /\ result[w] = "unknown" <=> status = "reconciliation_required"
        /\ status = "dead_letter" => attemptCount[k] = MaxAttempts
    BY <2>1, <2>2 DEF JobStatusAfter, AfterFailure, Results
  <2>4. QED
    BY <1>0, <1>12, <2>1, <2>3, ClosingIsSound DEF Finish, InAttempt
<1>13. ASSUME NEW k \in Jobs, Resolve(k)
       PROVE  IInv'
  <2> DEFINE evidence == IF taken[k] # {} THEN "accepted" ELSE "failed"
             status == JobStatusAfter(k, evidence)
  <2>1. /\ jobStatus[k] = "reconciliation_required" /\ outbox[k] = "unknown"
        /\ jobStatus' = [jobStatus EXCEPT ![k] = status]
        /\ outbox' = [outbox EXCEPT ![k] = evidence]
        /\ UNCHANGED <<attemptCount, lease, leaseLive, attempts, paused>>
        /\ UNCHANGED <<workerVars, providerVars>>
    BY <1>13 DEF Resolve
  <2>2. attemptCount[k] \in 0..MaxAttempts
    BY <1>0 DEF TypeOK
  <2>3. \/ evidence = "accepted" /\ status = "completed" /\ taken[k] # {}
        \/ /\ evidence = "failed" /\ taken[k] = {}
           /\ status = "retry" \/ (status = "dead_letter" /\ attemptCount[k] = MaxAttempts)
    BY <2>2 DEF JobStatusAfter, AfterFailure
  <2> HIDE DEF evidence, status
  <2>4. ASSUME NEW j \in Jobs PROVE RowAgrees(j)'
    BY <1>0, <2>1, <2>3 DEF IInv, RowsAgree, RowAgrees, TypeOK
  <2>5. ASSUME NEW v \in Workers PROVE WorkerIsRight(v)'
    <3>1. WorkerIsRight(v)
      BY DEF IInv, WorkersAreRight
    <3>2. HoldsLease(v, current[v])' =>
            HoldsLease(v, current[v]) /\ outbox'[current[v]] = outbox[current[v]]
      BY <1>0, <2>1, <2>3 DEF HoldsLease, TypeOK
    <3>3. QED
      BY <2>1, <3>1, <3>2 DEF WorkerIsRight, HoldsLease, InOrder
  <2>6. AttemptsAreOwn'
    BY <2>1 DEF IInv, AttemptsAreOwn
  <2>7. LeasesStartClosed'
    BY <1>0, <2>1, <2>3 DEF IInv, LeasesStartClosed, HoldsLease, TypeOK
  <2>8. ASSUME NEW j \in Jobs PROVE ProviderAgreesOn(j)'
    BY <1>0, <2>1, <2>3
       DEF IInv, ProviderAgrees, ProviderAgreesOn, InOrder, TypeOK
  <2>9. CompletedWasDelivered'
    BY <1>0, <2>1, <2>3 DEF IInv, CompletedWasDelivered, TypeOK
  <2>10. QED
    BY <1>0, <2>4, <2>5, <2>6, <2>7, <2>8, <2>9
       DEF IInv, RowsAgree, WorkersAreRight, ProviderAgrees
<1>14. ASSUME NEW k \in Jobs,
              Pause(k) \/ Lift(k) \/ BecomesDue(k) \/ LeaseExpires(k)
       PROVE  IInv'
  <2>1. /\ UNCHANGED <<jobStatus, attemptCount, lease, outbox, attempts>>
        /\ UNCHANGED <<workerVars, providerVars>>
        /\ \A j \in Jobs : leaseLive'[j] => leaseLive[j]
    BY <1>0, <1>14 DEF Pause, Lift, BecomesDue, LeaseExpires, TypeOK
  <2>2. RowsAgree'
    BY <2>1 DEF IInv, RowsAgree, RowAgrees
  <2>3. WorkersAreRight' /\ AttemptsAreOwn' /\ LeasesStartClosed'
    BY <2>1 DEF IInv, WorkersAreRight, WorkerIsRight, AttemptsAreOwn, LeasesStartClosed,
       HoldsLease, InOrder
  <2>4. ProviderAgrees' /\ CompletedWasDelivered'
    BY <2>1 DEF IInv, ProviderAgrees, ProviderAgreesOn, CompletedWasDelivered,
       InOrder
  <2>5. QED
    BY <1>0, <2>2, <2>3, <2>4 DEF IInv
<1>15. ASSUME Disconnect
       PROVE  IInv'
  <2>1. /\ \A j \in Jobs : jobStatus'[j] # jobStatus[j] =>
             jobStatus[j] \in {"scheduled", "retry"} /\ jobStatus'[j] = "cancelled"
        /\ UNCHANGED <<attemptCount, lease, leaseLive, outbox, attempts>>
        /\ UNCHANGED <<workerVars, providerVars>>
    BY <1>0, <1>15 DEF Disconnect, TypeOK
  <2>2. \A v \in Workers, j \in Jobs : HoldsLease(v, j)' <=> HoldsLease(v, j)
    BY <1>0, <2>1 DEF HoldsLease
  <2>3. ASSUME NEW j \in Jobs PROVE RowAgrees(j)'
    BY <1>0, <2>1 DEF IInv, RowsAgree, RowAgrees
  <2>4. ASSUME NEW v \in Workers PROVE WorkerIsRight(v)'
    <3>1. WorkerIsRight(v)
      BY DEF IInv, WorkersAreRight
    <3>2. pc[v] # "loop" => current[v] \in Jobs
      BY <1>0 DEF TypeOK, WorkersTyped
    <3>3. pc[v] # "loop" => (HoldsLease(v, current[v])' <=> HoldsLease(v, current[v]))
      BY <2>1, <2>2, <3>2 DEF HoldsLease
    <3>4. QED
      BY <2>1, <3>1, <3>3 DEF WorkerIsRight, InOrder, InAttempt
  <2>5. AttemptsAreOwn' /\ LeasesStartClosed'
    BY <2>1, <2>2 DEF IInv, AttemptsAreOwn, LeasesStartClosed
  <2>6. ProviderAgrees'
    BY <2>1 DEF IInv, ProviderAgrees, ProviderAgreesOn, InOrder
  <2>7. CompletedWasDelivered'
    BY <2>1 DEF IInv, CompletedWasDelivered
  <2>8. QED
    BY <1>0, <2>3, <2>4, <2>5, <2>6, <2>7 DEF IInv, RowsAgree, WorkersAreRight
<1>16. ASSUME NEW w \in Workers, Crash(w)
       PROVE  IInv'
  <2>1. RowsAgree' /\ ProviderAgrees' /\ CompletedWasDelivered'
    BY <1>16, TablesAndProvidersUntouched DEF Crash
  <2>2. ASSUME NEW v \in Workers PROVE WorkerIsRight(v)'
    <3>1. CASE v = w
      BY <1>0, <1>16, <3>1 DEF Crash, WorkerIsRight, InAttempt, TypeOK
    <3>2. CASE v # w
      BY <1>0, <1>16, <3>2 DEF IInv, Crash, WorkersAreRight, WorkerIsRight, HoldsLease,
         InOrder, TypeOK
    <3>3. QED
      BY <3>1, <3>2
  <2>3. AttemptsAreOwn'
    BY <1>0, <1>16 DEF IInv, Crash, AttemptsAreOwn, InAttempt, TypeOK
  <2>4. ASSUME NEW v \in Workers, NEW j \in Jobs, HoldsLease(v, j)',
               ~(pc'[v] \in InAttempt /\ current'[v] = j)
        PROVE  outbox'[j] # "sending"
    <3>1. v # w
      BY <1>0, <1>16, <2>4 DEF IInv, Crash, HoldsLease, RowsAgree, RowAgrees, TypeOK
    <3>2. QED
      BY <1>0, <1>16, <2>4, <3>1 DEF IInv, Crash, HoldsLease, LeasesStartClosed, TypeOK
  <2>5. QED
    BY <1>0, <2>1, <2>2, <2>3, <2>4 DEF IInv, WorkersAreRight, LeasesStartClosed
<1>17. CASE UNCHANGED vars
  BY <1>0, <1>17 DEF vars, IInv, RowsAgree, RowAgrees, WorkersAreRight, WorkerIsRight,
     AttemptsAreOwn, LeasesStartClosed, ProviderAgrees, ProviderAgreesOn,
     CompletedWasDelivered, HoldsLease, InOrder
<1>18. QED
  BY <1>1, <1>2, <1>3, <1>4, <1>5, <1>6, <1>7, <1>8, <1>9, <1>10, <1>11,
     <1>12, <1>13, <1>14, <1>15, <1>16, <1>17 DEF Next, WorkerStep

(* It holds before anything is sent. *)
LEMMA InitInv ==
  ASSUME Init
  PROVE  IInv
BY DEF Init, IInv, TypeOK, WorkersTyped, JobStatuses, OutboxStatuses,
       AttemptStatuses, Steps, InAttempt, AttemptNos, RowsAgree, RowAgrees,
       WorkersAreRight, WorkerIsRight, AttemptsAreOwn, LeasesStartClosed,
       HoldsLease, ProviderAgrees, ProviderAgreesOn, InOrder, CompletedWasDelivered

-----------------------------------------------------------------------------
(* The theorems.                                                           *)

(* The inductive invariant holds in every state the system reaches.         *)
THEOREM InvariantHolds == Spec => []IInv
<1>1. Init => IInv
  BY InitInv
<1>2. IInv /\ [Next]_vars => IInv'
  BY InvStep
<1>3. QED
  BY <1>1, <1>2, PTL DEF Spec

(* message_jobs, message_outbox and message_attempts never contradict each  *)
(* other, however workers, operators and disconnects interleave.            *)
THEOREM TablesAgree == Spec => []RowsAgree
<1>1. IInv => RowsAgree
  BY DEF IInv
<1>2. QED
  BY <1>1, InvariantHolds, PTL

(* The promise of the whole queue: no customer gets a message twice from    *)
(* workers that still had their lease when they called the provider and     *)
(* were answered in a form their adapter knows.                             *)
THEOREM NoDuplicateDelivery == Spec => []DeliveredOnceUnderLease
<1>1. IInv => DeliveredOnceUnderLease
  BY DEF IInv, ProviderAgrees, ProviderAgreesOn, DeliveredOnceUnderLease
<1>2. QED
  BY <1>1, InvariantHolds, PTL

(* A job the business sees as completed did reach the provider. *)
THEOREM CompletedMeansDelivered == Spec => []CompletedWasDelivered
<1>1. IInv => CompletedWasDelivered
  BY DEF IInv
<1>2. QED
  BY <1>1, InvariantHolds, PTL

(* A dead letter spent its whole budget, and nothing of it arrived in time  *)
(* with an answer its adapter knows.                                        *)
THEOREM DeadLetterMeansUndelivered == Spec => []DeadLetterNeverArrived
<1>1. IInv => DeadLetterNeverArrived
  BY DEF IInv, RowsAgree, RowAgrees, ProviderAgrees, ProviderAgreesOn,
         DeadLetterNeverArrived
<1>2. QED
  BY <1>1, InvariantHolds, PTL

(* is_delivery_paused is read again in the transaction that starts an       *)
(* attempt, so no step starts one of a paused job.                          *)
THEOREM PausesHold == Spec => PauseStopsNewAttempts
<1>1. TypeOK /\ [Next]_vars =>
        [\A j \in Jobs : j \in paused => attemptCount'[j] = attemptCount[j]]_vars
  <2> SUFFICES ASSUME TypeOK, Next, NEW j \in Jobs, j \in paused
               PROVE  attemptCount'[j] = attemptCount[j]
    OBVIOUS
  <2>1. CASE \E w \in Workers : StartAttempt(w)
    BY <2>1 DEF StartAttempt, TypeOK
  <2>2. CASE UNCHANGED attemptCount
    BY <2>2
  <2>3. (\E w \in Workers : StartAttempt(w)) \/ UNCHANGED attemptCount
    BY DEF Next, WorkerStep, Claim, Authorize, Block, AuthorizeRaises, Defer, Abandon,
       PrepareFails, Prepare, Hold, HoldRaises, Send, Finish, Resolve, Disconnect,
       Pause, Lift, BecomesDue, LeaseExpires, Crash, dbVars, jobVars
  <2>4. QED
    BY <2>1, <2>2, <2>3
<1>2. QED
  BY <1>1, TypeCorrect, PTL DEF Spec, PauseStopsNewAttempts

(* The exact-lease checks of the worker-facing functions fence a live lease *)
(* against everyone but its owner.                                          *)
THEOREM LeasesFence == Spec => FencedByLease
<1> DEFINE ByOwner(j) == \E w \in Workers :
             HoldsLease(w, j) /\ <<pc[w], held[w]>>' # <<pc[w], held[w]>>
           Fenced == \A j \in Jobs : leaseLive[j] /\ JobRow(j)' # JobRow(j) => ByOwner(j)
<1>1. IInv /\ [Next]_vars => [Fenced]_vars
  <2> SUFFICES ASSUME IInv, Next, NEW j \in Jobs, leaseLive[j], JobRow(j)' # JobRow(j)
               PROVE  ByOwner(j)
    OBVIOUS
  <2> USE DEF jobVars, dbVars, workerVars, providerVars, GoTo
  <2>0. TypeOK /\ RowAgrees(j)
    BY DEF IInv, RowsAgree
  <2>1. jobStatus[j] = "leased"
    BY <2>0 DEF RowAgrees
  <2>2. ASSUME NEW w \in Workers, NEW Q \in SUBSET Jobs, NEW S \in SUBSET Jobs,
               Claim(w, Q, S)
        PROVE  FALSE
    <3>1. j \notin Q \cup S
      BY <2>1, <2>2 DEF Claim, Claimable, Abandoned
    <3>2. QED
      BY <2>0, <2>2, <3>1 DEF Claim, JobRow, TypeOK
  <2>3. ASSUME NEW w \in Workers, NEW k \in Jobs, Block(w, k)
        PROVE  ByOwner(j)
    <3>1. j = k
      BY <2>0, <2>3 DEF Block, Release, JobRow, TypeOK
    <3>2. HoldsLease(w, j) /\ held'[w] # held[w]
      BY <2>0, <2>3, <3>1 DEF Block, HoldsLiveLease, NextJob, TypeOK
    <3>3. QED
      BY <3>2
  <2>4. ASSUME NEW w \in Workers, StartAttempt(w) \/ Defer(w) \/ Hold(w) \/ Finish(w)
        PROVE  ByOwner(j)
    <3>1. j = current[w]
      BY <2>0, <2>4 DEF StartAttempt, Defer, Hold, Finish, Release, JobRow, TypeOK
    <3>2. HoldsLease(w, j)
      BY <2>4, <3>1 DEF StartAttempt, Defer, Hold, Finish, HoldsLiveLease
    <3>3. pc'[w] # pc[w]
      BY <2>0, <2>4 DEF StartAttempt, Defer, Hold, Finish, NextJob, TypeOK
    <3>4. QED
      BY <3>2, <3>3
  <2>5. ASSUME NEW k \in Jobs, Resolve(k)
        PROVE  FALSE
    BY <2>0, <2>1, <2>5 DEF Resolve, JobRow, TypeOK
  <2>6. ASSUME Disconnect
        PROVE  FALSE
    BY <2>0, <2>1, <2>6 DEF Disconnect, JobRow, TypeOK
  <2>7. CASE UNCHANGED <<jobStatus, attemptCount, lease, outbox, attempts>>
    BY <2>7 DEF JobRow
  <2>8. \/ \E w \in Workers, Q, S \in SUBSET Jobs : Claim(w, Q, S)
        \/ \E w \in Workers, k \in Jobs : Block(w, k)
        \/ \E w \in Workers : StartAttempt(w) \/ Defer(w) \/ Hold(w) \/ Finish(w)
        \/ \E k \in Jobs : Resolve(k)
        \/ Disconnect
        \/ UNCHANGED <<jobStatus, attemptCount, lease, outbox, attempts>>
    BY DEF Next, WorkerStep, Authorize, AuthorizeRaises, Abandon, PrepareFails, Prepare,
       HoldRaises, Send, Pause, Lift, BecomesDue, LeaseExpires, Crash
  <2>9. QED
    BY <2>2, <2>3, <2>4, <2>5, <2>6, <2>7, <2>8
<1>2. QED
  BY <1>1, InvariantHolds, PTL DEF Spec, FencedByLease

(* The queue implements MessageLifecycle: seen through its status and its   *)
(* outbox, every job is put in flight at most once at a time and at most    *)
(* MaxAttempts times, a lost outcome is never retried without a decision,   *)
(* and what is sent, dead or cancelled stays so.                            *)
THEOREM ImplementsLifecycle == Spec => LivesTheLifecycle
<1> DEFINE P == [j \in Jobs |-> PhaseOf(j)]
<1>1. Init => Lifecycle!LifecycleInit
  BY DEF Init, Lifecycle!LifecycleInit, PhaseOf
<1>2. IInv /\ [Next]_vars => [Lifecycle!LifecycleNext]_(Lifecycle!lifecycleVars)
  <2> SUFFICES ASSUME IInv, [Next]_vars
               PROVE  \/ Lifecycle!LifecycleNext
                      \/ UNCHANGED P /\ UNCHANGED attemptCount
    BY DEF Lifecycle!lifecycleVars
  <2> USE DEF jobVars, dbVars, workerVars, providerVars, GoTo
  <2>0. TypeOK /\ \A j \in Jobs : RowAgrees(j)
    BY DEF IInv, RowsAgree
  <2>1. ASSUME NEW w \in Workers, NEW Q \in SUBSET Jobs, NEW S \in SUBSET Jobs,
               Claim(w, Q, S)
        PROVE  Lifecycle!LoseAll(Q)
    <3>1. \A j \in Q : PhaseOf(j) = "inflight"
      BY <2>1 DEF Claim, Abandoned, PhaseOf
    <3>2. ASSUME NEW j \in Q PROVE PhaseOf(j)' = "doubt"
      BY <2>1 DEF Claim, PhaseOf
    <3>3. ASSUME NEW j \in S \ Q PROVE PhaseOf(j)' = PhaseOf(j)
      BY <2>1 DEF Claim, Claimable, Unsendable, PhaseOf
    <3>4. ASSUME NEW j \in Jobs, j \notin Q \cup S PROVE PhaseOf(j)' = PhaseOf(j)
      BY <2>0, <2>1, <3>4 DEF Claim, PhaseOf, TypeOK
    <3>5. QED
      BY <2>1, <3>1, <3>2, <3>3, <3>4 DEF Claim, Lifecycle!LoseAll
  <2>2. ASSUME NEW w \in Workers, NEW k \in Jobs, Block(w, k)
        PROVE  Lifecycle!CancelAll({k})
    <3>1. PhaseOf(k) = "queued" /\ outbox[k] # "sending"
      BY <2>2, LeasedRowIsUndecided DEF Block, HoldsLiveLease, HoldsLease, PhaseOf
    <3>2. PhaseOf(k)' = "cancelled"
      BY <2>0, <2>2, <3>1 DEF Block, Release, PhaseOf, TypeOK
    <3>3. \A j \in Jobs : j # k => PhaseOf(j)' = PhaseOf(j)
      BY <2>0, <2>2 DEF Block, Release, PhaseOf, TypeOK
    <3>4. QED
      BY <2>2, <3>1, <3>2, <3>3 DEF Block, Lifecycle!CancelAll
  <2>3. ASSUME NEW w \in Workers, Defer(w)
        PROVE  UNCHANGED P /\ UNCHANGED attemptCount
    <3>1. current[w] \in Jobs /\ HoldsLease(w, current[w]) /\ pc[w] \notin InAttempt
      BY <2>0, <2>3 DEF Defer, HoldsLiveLease, InAttempt, TypeOK, WorkersTyped
    <3>2. outbox[current[w]] # "sending"
      BY <3>1, LeasedRowIsUndecided
    <3>3. \A j \in Jobs : PhaseOf(j)' = PhaseOf(j)
      BY <2>0, <2>3, <3>1, <3>2 DEF Defer, Release, HoldsLease, PhaseOf, TypeOK
    <3>4. QED
      BY <2>3, <3>3 DEF Defer
  <2>4. ASSUME NEW w \in Workers, StartAttempt(w)
        PROVE  Lifecycle!Launch(current[w])
    <3> DEFINE k == current[w]
    <3>1. k \in Jobs /\ jobStatus[k] = "leased" /\ outbox[k] # "sending"
      BY <2>0, <2>4 DEF StartAttempt, HoldsLiveLease, HoldsLease, Unsendable, TypeOK,
         WorkersTyped
    <3>2. PhaseOf(k) = "queued"
      BY <3>1 DEF PhaseOf
    <3>3. \A j \in Jobs : PhaseOf(j)' = IF j = k THEN "inflight" ELSE PhaseOf(j)
      BY <2>0, <2>4, <3>1 DEF StartAttempt, PhaseOf, TypeOK
    <3>4. QED
      BY <2>0, <2>4, <3>1, <3>2, <3>3
         DEF StartAttempt, Lifecycle!Launch, Lifecycle!Becomes, TypeOK
  <2>5. ASSUME NEW w \in Workers, pc[w] \in InAttempt, HoldsLease(w, current[w])
        PROVE  current[w] \in Jobs /\ PhaseOf(current[w]) = "inflight"
    BY <2>0, <2>5 DEF IInv, WorkersAreRight, WorkerIsRight, HoldsLease, InAttempt, PhaseOf,
       TypeOK, WorkersTyped
  <2>6. ASSUME NEW w \in Workers, Hold(w)
        PROVE  Lifecycle!Park(current[w])
    <3>1. current[w] \in Jobs /\ PhaseOf(current[w]) = "inflight"
      BY <2>5, <2>6 DEF Hold, InAttempt
    <3>2. \A j \in Jobs : PhaseOf(j)' = IF j = current[w] THEN "queued" ELSE PhaseOf(j)
      BY <2>0, <2>6 DEF Hold, Release, PhaseOf, TypeOK
    <3>3. QED
      BY <2>6, <3>1, <3>2 DEF Hold, Lifecycle!Park, Lifecycle!Becomes
  <2>7. ASSUME NEW w \in Workers, Finish(w), NEW k \in Jobs, k = current[w]
        PROVE  Lifecycle!LifecycleNext
    <3>1. PhaseOf(k) = "inflight"
      BY <2>5, <2>7 DEF Finish, InAttempt
    <3>2. /\ result[w] \in Results
          /\ jobStatus' = [jobStatus EXCEPT ![k] = JobStatusAfter(k, result[w])]
          /\ outbox' = [outbox EXCEPT ![k] = result[w]]
          /\ UNCHANGED attemptCount
      BY <2>0, <2>7 DEF Finish, Release, TypeOK, WorkersTyped
    <3>3. \A j \in Jobs : j # k => PhaseOf(j)' = PhaseOf(j)
      BY <2>0, <3>2 DEF PhaseOf, TypeOK
    <3>4. CASE result[w] = "accepted"
      <4>1. PhaseOf(k)' = "sent"
        BY <2>0, <3>1, <3>2, <3>4 DEF PhaseOf, JobStatusAfter, TypeOK
      <4>2. Lifecycle!Accept(k)
        BY <3>1, <3>2, <3>3, <4>1 DEF Lifecycle!Accept, Lifecycle!Becomes
      <4>3. QED
        BY <3>1, <4>2 DEF Lifecycle!LifecycleNext
    <3>5. CASE result[w] = "unknown"
      <4>1. PhaseOf(k)' = "doubt"
        BY <2>0, <3>1, <3>2, <3>5 DEF PhaseOf, JobStatusAfter, TypeOK
      <4>2. Lifecycle!LoseAll({k})
        BY <3>1, <3>2, <3>3, <4>1 DEF Lifecycle!LoseAll
      <4>3. QED
        BY <3>1, <4>2 DEF Lifecycle!LifecycleNext
    <3>6. CASE result[w] = "failed"
      <4>1. PhaseOf(k)' = Lifecycle!AfterRefusal(k)
        BY <2>0, <3>1, <3>2, <3>6
           DEF PhaseOf, JobStatusAfter, AfterFailure, Lifecycle!AfterRefusal, TypeOK
      <4>2. Lifecycle!Refuse(k)
        BY <3>1, <3>2, <3>3, <4>1 DEF Lifecycle!Refuse, Lifecycle!Becomes
      <4>3. QED
        BY <3>1, <4>2 DEF Lifecycle!LifecycleNext
    <3>7. QED
      BY <3>2, <3>4, <3>5, <3>6 DEF Results
  <2>8. ASSUME NEW k \in Jobs, Resolve(k)
        PROVE  Lifecycle!Settle(k)
    <3> DEFINE evidence == IF taken[k] # {} THEN "accepted" ELSE "failed"
    <3>1. PhaseOf(k) = "doubt"
      BY <2>8 DEF Resolve, PhaseOf
    <3>2. \A j \in Jobs : j # k => PhaseOf(j)' = PhaseOf(j)
      BY <2>0, <2>8 DEF Resolve, PhaseOf, TypeOK
    <3>3. PhaseOf(k)' \in {"sent", Lifecycle!AfterRefusal(k)}
      BY <2>0, <2>8
         DEF Resolve, PhaseOf, JobStatusAfter, AfterFailure, Lifecycle!AfterRefusal, TypeOK
    <3>4. QED
      BY <2>8, <3>1, <3>2, <3>3 DEF Resolve, Lifecycle!Settle, Lifecycle!Becomes
  <2>9. ASSUME Disconnect
        PROVE  Lifecycle!LifecycleNext
    <3> DEFINE S == {j \in Jobs : jobStatus[j] \in {"scheduled", "retry"}}
    <3>1. \A j \in S : PhaseOf(j) = "queued" /\ outbox[j] # "sending"
      BY <2>0 DEF RowAgrees, PhaseOf
    <3>2. ASSUME NEW j \in S PROVE PhaseOf(j)' = "cancelled"
      BY <2>0, <2>9, <3>1, <3>2 DEF Disconnect, PhaseOf, TypeOK
    <3>3. ASSUME NEW j \in Jobs, j \notin S PROVE PhaseOf(j)' = PhaseOf(j)
      BY <2>0, <2>9, <3>3 DEF Disconnect, PhaseOf, TypeOK
    <3>4. Lifecycle!CancelAll(S)
      BY <2>9, <3>1, <3>2, <3>3 DEF Disconnect, Lifecycle!CancelAll
    <3>5. QED
      BY <3>4 DEF Lifecycle!LifecycleNext
  <2>10. CASE UNCHANGED <<jobStatus, attemptCount, outbox>>
    BY <2>10 DEF PhaseOf
  <2>11. \/ \E w \in Workers, Q, S \in SUBSET Jobs : Claim(w, Q, S)
         \/ \E w \in Workers, k \in Jobs : Block(w, k)
         \/ \E w \in Workers : StartAttempt(w) \/ Defer(w) \/ Hold(w) \/ Finish(w)
         \/ \E k \in Jobs : Resolve(k)
         \/ Disconnect
         \/ UNCHANGED <<jobStatus, attemptCount, outbox>>
    BY DEF Next, WorkerStep, Authorize, AuthorizeRaises, Abandon, PrepareFails, Prepare,
       HoldRaises, Send, Pause, Lift, BecomesDue, LeaseExpires, Crash, vars
  <2>12. \A w \in Workers : StartAttempt(w) \/ Hold(w) \/ Finish(w) => current[w] \in Jobs
    BY <2>0 DEF StartAttempt, Hold, Finish, TypeOK, WorkersTyped
  <2>13. QED
    BY <2>1, <2>2, <2>3, <2>4, <2>6, <2>7, <2>8, <2>9, <2>10, <2>11, <2>12
       DEF Lifecycle!LifecycleNext
<1>3. QED
  BY <1>1, <1>2, InvariantHolds, PTL DEF Spec, LivesTheLifecycle, Lifecycle!LifecycleSpec

=============================================================================
