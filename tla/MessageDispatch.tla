-------------------------- MODULE MessageDispatch --------------------------
(***************************************************************************)
(* The durable delivery queue of Review Anchor: message_jobs, their outbox *)
(* row and attempts in PostgreSQL, the worker processes that lease jobs    *)
(* and call Twilio or SendGrid, and the operations principal that          *)
(* reconciles results nobody saw.                                          *)
(*                                                                         *)
(* One action is one database transaction, one call of a provider, or one  *)
(* thing the outside world does.  Between two actions of a worker anything *)
(* may happen: its lease runs out, another worker takes the job, it dies.  *)
(*                                                                         *)
(* Time is abstract: `due' says that run_at has passed and `leaseLive'     *)
(* that leased_until has not.  What evaluate_message_dispatch decides is a *)
(* free choice here; module ReviewCadence models how it decides.           *)
(***************************************************************************)
EXTENDS Naturals, FiniteSets

CONSTANTS
  Jobs,          \* message_jobs rows
  SmsJobs,       \* those whose channel is sms; the others are email
  Workers,       \* worker processes
  Tokens,        \* lease tokens (uuids); enough of them for a fresh one
  NoToken,       \* null
  NoJob,         \* a worker between two jobs
  NoLease,       \* lease_owner and lease_token both null
  MaxAttempts,   \* message_jobs.max_attempts
  BatchLimit,    \* p_limit of claim_message_jobs
  Responses      \* the ways a provider call may end in this environment

AllResponses ==
  {"network_failure", "accepted", "accepted_unreadable", "accepted_unexpected",
   "server_error", "server_error_unreadable", "rejected"}

ASSUME JobsAssumption == SmsJobs \subseteq Jobs /\ NoJob \notin Jobs
ASSUME LeaseAssumption ==
  NoToken \notin Tokens /\ NoLease \notin Workers \X Tokens
ASSUME BoundsAssumption ==
  MaxAttempts \in Nat \ {0} /\ BatchLimit \in Nat \ {0}
ASSUME ResponsesAssumption == Responses \subseteq AllResponses

VARIABLES
  \* the database
  jobStatus,     \* message_jobs.status
  attemptCount,  \* message_jobs.attempt_count
  due,           \* run_at <= now
  lease,         \* <<lease_owner, lease_token>>
  leaseLive,     \* leased_until > now
  outbox,        \* message_outbox.status, "none" when there is no row yet
  attempts,      \* message_attempts.status by attempt_number, "none" if absent
  paused,        \* the jobs a system or tenant pause covers
  \* a worker process: its memory, lost when it dies
  pc,            \* what it does next in runDeliveryCycle
  held,          \* held[w][j]: token of job j while j waits in w's batch
  current,       \* the job it works on
  attemptNo,     \* the attempt the payload call started for that job
  result,        \* the delivery result it is about to record
  \* the providers
  taken,         \* taken[j]: the attempts whose message the provider has
  late,          \* late[j]: those of them sent after their lease had moved on
  misread        \* misread[j]: those of them answered in a misleading way

jobVars == <<jobStatus, attemptCount, due, lease, leaseLive>>
dbVars == <<jobVars, outbox, attempts, paused>>
workerVars == <<pc, held, current, attemptNo, result>>
providerVars == <<taken, late, misread>>
vars == <<jobStatus, attemptCount, due, lease, leaseLive, outbox, attempts,
          paused, pc, held, current, attemptNo, result, taken, late, misread>>

JobStatuses == {"scheduled", "leased", "completed", "retry",
                "reconciliation_required", "dead_letter", "cancelled"}
OutboxStatuses == {"none", "sending", "accepted", "unknown", "failed"}
AttemptStatuses == {"none", "started", "accepted", "unknown", "failed"}
Results == {"accepted", "unknown", "failed"}
AttemptNos == 1..MaxAttempts

(* Where a worker can be: in the loop over its batch, or inside one job.   *)
Steps == {"loop", "defer", "payload", "prepare", "hold", "send", "finish"}
InAttempt == {"prepare", "hold", "send", "finish"}

-----------------------------------------------------------------------------
(* message_jobs starts with scheduled rows only; the outbox row is created *)
(* with the first attempt.                                                 *)

Init ==
  /\ jobStatus = [j \in Jobs |-> "scheduled"]
  /\ attemptCount = [j \in Jobs |-> 0]
  /\ due = [j \in Jobs |-> FALSE]
  /\ lease = [j \in Jobs |-> NoLease]
  /\ leaseLive = [j \in Jobs |-> FALSE]
  /\ outbox = [j \in Jobs |-> "none"]
  /\ attempts = [j \in Jobs |-> [n \in AttemptNos |-> "none"]]
  /\ paused = {}
  /\ pc = [w \in Workers |-> "loop"]
  /\ held = [w \in Workers |-> [j \in Jobs |-> NoToken]]
  /\ current = [w \in Workers |-> NoJob]
  /\ attemptNo = [w \in Workers |-> 0]
  /\ result = [w \in Workers |-> "none"]
  /\ taken = [j \in Jobs |-> {}]
  /\ late = [j \in Jobs |-> {}]
  /\ misread = [j \in Jobs |-> {}]

-----------------------------------------------------------------------------
(* The lease check every worker-facing function makes.                     *)

(* Slip: any worker may act while the job is leased. *)
SomeoneHoldsLiveLease(w, j) == jobStatus[j] = "leased" /\ leaseLive[j]

HoldsLease(w, j) == jobStatus[j] = "leased" /\ lease[j] = <<w, held[w][j]>>
HoldsLiveLease(w, j) == HoldsLease(w, j) /\ leaseLive[j]

(* gen_random_uuid: a token that no worker and no row still refers to. *)
UsedTokens(j) ==
  {held[w][j] : w \in Workers}
    \cup {t \in Tokens : \E w \in Workers : lease[j] = <<w, t>>}
HasFreshToken(j) == Tokens \ UsedTokens(j) # {}
FreshToken(j) == CHOOSE t \in Tokens : t \notin UsedTokens(j)

Unsendable == {"sending", "accepted", "unknown", "cancelled"}

(* Slip: a row is claimed again without a look at its outbox. *)
ClaimableWhileSending(j) ==
  /\ \/ jobStatus[j] \in {"scheduled", "retry"} /\ due[j]
     \/ jobStatus[j] = "leased" /\ ~leaseLive[j]
  /\ attemptCount[j] < MaxAttempts /\ j \notin paused

(* Slip: rows waiting for a retry are forgotten. *)
ClaimableFirstTime(j) ==
  /\ jobStatus[j] = "scheduled" /\ due[j]
  /\ attemptCount[j] < MaxAttempts
  /\ outbox[j] \notin Unsendable
  /\ j \notin paused

Claimable(j) ==
  /\ \/ jobStatus[j] \in {"scheduled", "retry"} /\ due[j]
     \/ jobStatus[j] = "leased" /\ ~leaseLive[j]
  /\ attemptCount[j] < MaxAttempts
  /\ outbox[j] \notin Unsendable
  /\ j \notin paused

(* Slip: the quarantine looks for results that are unknown already. *)
AbandonedUnknown(j) ==
  jobStatus[j] = "leased" /\ ~leaseLive[j] /\ outbox[j] = "unknown"

Abandoned(j) == jobStatus[j] = "leased" /\ ~leaseLive[j] /\ outbox[j] = "sending"

(* claim_message_jobs: first quarantine Q, leases that ran out while an    *)
(* attempt was sending; then lease S to the caller under fresh tokens.     *)
(* Rows another transaction has locked are skipped, so Q and S are any     *)
(* sets within the limit.                                                  *)
Claim(w, Q, S) ==
  /\ pc[w] = "loop"
  /\ \A j \in Jobs : held[w][j] = NoToken
  /\ Q \cup S # {}
  /\ Cardinality(Q) <= BatchLimit /\ Cardinality(S) <= BatchLimit
  /\ \A j \in Q : Abandoned(j)
  /\ \A j \in S : Claimable(j) /\ HasFreshToken(j)
  /\ jobStatus' = [j \in Jobs |->
       IF j \in Q THEN "reconciliation_required"
       ELSE IF j \in S THEN "leased" ELSE jobStatus[j]]
  /\ lease' = [j \in Jobs |->
       IF j \in Q THEN NoLease
       ELSE IF j \in S THEN <<w, FreshToken(j)>> ELSE lease[j]]
  /\ leaseLive' = [j \in Jobs |-> j \in S \/ (j \notin Q /\ leaseLive[j])]
  /\ outbox' = [j \in Jobs |-> IF j \in Q THEN "unknown" ELSE outbox[j]]
  /\ attempts' = [j \in Jobs |->
       [n \in AttemptNos |->
          IF j \in Q /\ attempts[j][n] = "started" THEN "unknown"
          ELSE attempts[j][n]]]
  /\ held' = [held EXCEPT ![w] =
       [j \in Jobs |-> IF j \in S THEN FreshToken(j) ELSE NoToken]]
  /\ UNCHANGED <<attemptCount, due, paused, pc, current, attemptNo, result>>
  /\ UNCHANGED providerVars

-----------------------------------------------------------------------------
(* runDeliveryCycle, one job of the batch after another.                   *)

(* On to the next job of the batch: whatever was known of j is forgotten.  *)
NextJob(w, j) ==
  /\ pc' = [pc EXCEPT ![w] = "loop"]
  /\ held' = [held EXCEPT ![w][j] = NoToken]
  /\ current' = [current EXCEPT ![w] = NoJob]
  /\ attemptNo' = [attemptNo EXCEPT ![w] = 0]
  /\ result' = [result EXCEPT ![w] = "none"]

(* The job row gives up its lease for the status given. *)
Release(j, status) ==
  /\ jobStatus' = [jobStatus EXCEPT ![j] = status]
  /\ lease' = [lease EXCEPT ![j] = NoLease]
  /\ leaseLive' = [leaseLive EXCEPT ![j] = FALSE]
  /\ due' = IF status = "retry" THEN [due EXCEPT ![j] = FALSE] ELSE due

GoTo(w, step) == pc' = [pc EXCEPT ![w] = step]

(* authorizeMessageDispatch, that is evaluate_message_dispatch: it raises  *)
(* without a live lease, cancels the job of a request that may not be sent *)
(* to, names a later time, or allows.                                      *)
Authorize(w, j) ==
  /\ pc[w] = "loop"
  /\ held[w][j] # NoToken
  /\ HoldsLiveLease(w, j)
  /\ current' = [current EXCEPT ![w] = j]
  /\ \/ j \notin paused /\ GoTo(w, "payload")
     \/ GoTo(w, "defer")
  /\ UNCHANGED <<dbVars, held, attemptNo, result, providerVars>>

Block(w, j) ==
  /\ pc[w] = "loop"
  /\ held[w][j] # NoToken
  /\ HoldsLiveLease(w, j)
  /\ Release(j, "cancelled")
  /\ NextJob(w, j)
  /\ UNCHANGED <<attemptCount, outbox, attempts, paused, providerVars>>

AuthorizeRaises(w, j) ==
  /\ pc[w] = "loop"
  /\ held[w][j] # NoToken
  /\ NextJob(w, j)
  /\ UNCHANGED <<dbVars, providerVars>>

(* defer_message_job *)
Defer(w) ==
  LET j == current[w] IN
  /\ pc[w] = "defer"
  /\ HoldsLiveLease(w, j)
  /\ Release(j, "retry")
  /\ NextJob(w, j)
  /\ UNCHANGED <<attemptCount, outbox, attempts, paused, providerVars>>

(* get_message_dispatch_payload: evaluate, ensure_message_outbox and       *)
(* start_message_attempt in one transaction.  The row ensure_message_outbox*)
(* inserts as `pending' is `sending' before anyone else can see it.  The   *)
(* branch that returns the attempt a lease already started is not taken:   *)
(* a worker asks once per lease.                                           *)
StartAttempt(w) ==
  LET j == current[w]
      n == attemptCount[j] + 1
  IN
  /\ pc[w] = "payload"
  /\ HoldsLiveLease(w, j)
  /\ outbox[j] \notin Unsendable
  /\ attemptCount[j] < MaxAttempts
  /\ j \notin paused
  /\ attemptCount' = [attemptCount EXCEPT ![j] = n]
  /\ outbox' = [outbox EXCEPT ![j] = "sending"]
  /\ attempts' = [attempts EXCEPT ![j][n] = "started"]
  /\ attemptNo' = [attemptNo EXCEPT ![w] = n]
  /\ GoTo(w, "prepare")
  /\ UNCHANGED <<jobStatus, due, lease, leaseLive, paused, held, current,
                 result, providerVars>>

(* A call that raised, was refused the second time it was evaluated, or    *)
(* whose answer was lost: the outer catch leaves the job to its lease.     *)
Abandon(w) ==
  /\ pc[w] \in {"defer", "payload", "prepare", "finish"}
  /\ NextJob(w, current[w])
  /\ UNCHANGED <<dbVars, providerVars>>

(* Anything thrown between the payload and the provider is a definite      *)
(* failure: no destination, no template, no provider, no reservation.      *)
PrepareFails(w) ==
  /\ pc[w] = "prepare"
  /\ result' = [result EXCEPT ![w] = "failed"]
  /\ GoTo(w, "finish")
  /\ UNCHANGED <<dbVars, held, current, attemptNo, providerVars>>

(* reserve_sms_segments asks for a live lease and answers yes or no; an    *)
(* email needs no reservation.                                             *)
Prepare(w) ==
  /\ pc[w] = "prepare"
  /\ \/ current[w] \notin SmsJobs /\ GoTo(w, "send")
     \/ /\ current[w] \in SmsJobs
        /\ HoldsLiveLease(w, current[w])
        /\ GoTo(w, "send") \/ GoTo(w, "hold")
  /\ UNCHANGED <<dbVars, held, current, attemptNo, result, providerVars>>

(* hold_message_for_sms_allowance: the attempt failed and the job will be  *)
(* tried again in another billing period, whatever attempts it has left.   *)
Hold(w) ==
  LET j == current[w] IN
  /\ pc[w] = "hold"
  /\ HoldsLease(w, j)
  /\ attempts[j][attemptNo[w]] = "started"
  /\ attempts' = [attempts EXCEPT ![j][attemptNo[w]] = "failed"]
  /\ outbox' = [outbox EXCEPT ![j] = "failed"]
  /\ Release(j, "retry")
  /\ NextJob(w, j)
  /\ UNCHANGED <<attemptCount, paused, providerVars>>

HoldRaises(w) ==
  /\ pc[w] = "hold"
  /\ result' = [result EXCEPT ![w] = "failed"]
  /\ GoTo(w, "finish")
  /\ UNCHANGED <<dbVars, held, current, attemptNo, providerVars>>

-----------------------------------------------------------------------------
(* The providers.  After a refusal they do not have the message, after a   *)
(* success of the expected form they do; after anything else they may.     *)
(* "accepted_unexpected" is a success the adapter does not know: a readable *)
(* body without a string sid from Twilio, a status other than 202 from     *)
(* SendGrid.                                                               *)

SurelyTaken == {"accepted", "accepted_unreadable"}
SurelyNotTaken == {"rejected"}

(* Slip: everything but an acceptance is a definite failure. *)
FailedUnlessAccepted(response) ==
  IF response \in SurelyTaken THEN "accepted" ELSE "failed"

(* Slip: whatever is not refused is accepted. *)
AcceptedUnlessRejected(response) ==
  CASE response = "rejected" -> "failed"
    [] response = "network_failure" -> "unknown"
    [] OTHER -> "accepted"

(* TwilioSmsProvider.send and SendGridEmailProvider.send: what a response  *)
(* is taken to mean.  Twilio's body is read before its status is looked at,*)
(* and whatever is neither the success expected nor a server error is a    *)
(* failure.                                                                *)
TwilioResult(response) ==
  CASE response = "accepted" -> "accepted"
    [] response \in {"network_failure", "accepted_unreadable", "server_error"}
         -> "unknown"
    [] OTHER -> "failed"

SendGridResult(response) ==
  CASE response \in SurelyTaken -> "accepted"
    [] response \in {"accepted_unexpected", "rejected"} -> "failed"
    [] OTHER -> "unknown"

DeliveryResult(j, response) ==
  IF j \in SmsJobs THEN TwilioResult(response) ELSE SendGridResult(response)

(* The answers of a provider that may have the message which its adapter   *)
(* takes for a definite failure.                                           *)
Misleading(j) ==
  IF j \in SmsJobs THEN {"server_error_unreadable", "accepted_unexpected"}
  ELSE {"accepted_unexpected"}

(* provider.send: nothing is asked of the database any more, so a worker   *)
(* that was slow sends although its lease has moved on.                    *)
Send(w, response, reached) ==
  LET j == current[w] IN
  /\ pc[w] = "send"
  /\ response \in SurelyTaken => reached
  /\ response \in SurelyNotTaken => ~reached
  /\ taken' = IF reached THEN [taken EXCEPT ![j] = @ \cup {attemptNo[w]}]
              ELSE taken
  /\ late' = IF reached /\ ~HoldsLease(w, j)
             THEN [late EXCEPT ![j] = @ \cup {attemptNo[w]}] ELSE late
  /\ misread' = IF reached /\ response \in Misleading(j)
                THEN [misread EXCEPT ![j] = @ \cup {attemptNo[w]}]
                ELSE misread
  /\ result' = [result EXCEPT ![w] = DeliveryResult(j, response)]
  /\ GoTo(w, "finish")
  /\ UNCHANGED <<dbVars, held, current, attemptNo>>

(* The job's status after a definite failure of its last attempt. *)
AfterFailure(j) == IF attemptCount[j] >= MaxAttempts THEN "dead_letter" ELSE "retry"

JobStatusAfter(j, res) ==
  CASE res = "accepted" -> "completed"
    [] res = "unknown" -> "reconciliation_required"
    [] OTHER -> AfterFailure(j)

(* finish_message_attempt: the exact lease is required, its expiry is not  *)
(* looked at.                                                              *)
Finish(w) ==
  LET j == current[w]
      n == attemptNo[w]
  IN
  /\ pc[w] = "finish"
  /\ HoldsLease(w, j)
  /\ attempts[j][n] = "started"
  /\ attempts' = [attempts EXCEPT ![j][n] = result[w]]
  /\ outbox' = [outbox EXCEPT ![j] = result[w]]
  /\ Release(j, JobStatusAfter(j, result[w]))
  /\ NextJob(w, j)
  /\ UNCHANGED <<attemptCount, paused, providerVars>>

-----------------------------------------------------------------------------
(* Operations, the clock, and death.                                       *)

(* resolve_unknown_message, by an operator who looked the message up at    *)
(* the provider: accepted if any attempt arrived, failed if none did.      *)
Resolve(j) ==
  LET evidence == IF taken[j] # {} THEN "accepted" ELSE "failed" IN
  /\ jobStatus[j] = "reconciliation_required"
  /\ outbox[j] = "unknown"
  /\ outbox' = [outbox EXCEPT ![j] = evidence]
  /\ jobStatus' = [jobStatus EXCEPT ![j] = JobStatusAfter(j, evidence)]
  /\ due' = IF jobStatus'[j] = "retry" THEN [due EXCEPT ![j] = FALSE] ELSE due
  /\ UNCHANGED <<attemptCount, lease, leaseLive, attempts, paused>>
  /\ UNCHANGED <<workerVars, providerVars>>

(* Slip: jobs under a lease are cancelled as well. *)
DisconnectLeased ==
  /\ jobStatus' = [j \in Jobs |->
       IF jobStatus[j] \in {"scheduled", "retry", "leased"} THEN "cancelled"
       ELSE jobStatus[j]]
  /\ jobStatus' # jobStatus
  /\ UNCHANGED <<attemptCount, due, lease, leaseLive, outbox, attempts, paused>>
  /\ UNCHANGED <<workerVars, providerVars>>

(* disconnect_google_connection: every job still queued is cancelled. *)
Disconnect ==
  /\ jobStatus' = [j \in Jobs |->
       IF jobStatus[j] \in {"scheduled", "retry"} THEN "cancelled"
       ELSE jobStatus[j]]
  /\ jobStatus' # jobStatus
  /\ UNCHANGED <<attemptCount, due, lease, leaseLive, outbox, attempts, paused>>
  /\ UNCHANGED <<workerVars, providerVars>>

(* A system or tenant pause is created, or the last one is lifted. *)
Pause(j) ==
  /\ j \notin paused
  /\ paused' = paused \cup {j}
  /\ UNCHANGED <<jobVars, outbox, attempts, workerVars, providerVars>>

Lift(j) ==
  /\ j \in paused
  /\ paused' = paused \ {j}
  /\ UNCHANGED <<jobVars, outbox, attempts, workerVars, providerVars>>

BecomesDue(j) ==
  /\ jobStatus[j] \in {"scheduled", "retry"}
  /\ ~due[j]
  /\ due' = [due EXCEPT ![j] = TRUE]
  /\ UNCHANGED <<jobStatus, attemptCount, lease, leaseLive, outbox, attempts, paused>>
  /\ UNCHANGED <<workerVars, providerVars>>

(* renew_message_job_lease would only put this off; the worker never calls *)
(* it.                                                                     *)
LeaseExpires(j) ==
  /\ leaseLive[j]
  /\ leaseLive' = [leaseLive EXCEPT ![j] = FALSE]
  /\ UNCHANGED <<jobStatus, attemptCount, due, lease, outbox, attempts, paused>>
  /\ UNCHANGED <<workerVars, providerVars>>

(* A worker dies and a new process, with a new worker id, takes its place. *)
Crash(w) ==
  /\ \E j \in Jobs : held[w][j] # NoToken
  /\ pc' = [pc EXCEPT ![w] = "loop"]
  /\ held' = [held EXCEPT ![w] = [j \in Jobs |-> NoToken]]
  /\ current' = [current EXCEPT ![w] = NoJob]
  /\ attemptNo' = [attemptNo EXCEPT ![w] = 0]
  /\ result' = [result EXCEPT ![w] = "none"]
  /\ UNCHANGED <<dbVars, providerVars>>

-----------------------------------------------------------------------------

WorkerStep(w) ==
  \/ \E j \in Jobs : Authorize(w, j) \/ Block(w, j) \/ AuthorizeRaises(w, j)
  \/ Defer(w) \/ StartAttempt(w) \/ Abandon(w)
  \/ PrepareFails(w) \/ Prepare(w) \/ Hold(w) \/ HoldRaises(w)
  \/ \E response \in Responses, reached \in BOOLEAN : Send(w, response, reached)
  \/ Finish(w)

Next ==
  \/ \E w \in Workers, Q, S \in SUBSET Jobs : Claim(w, Q, S)
  \/ \E w \in Workers : WorkerStep(w) \/ Crash(w)
  \/ \E j \in Jobs : Resolve(j) \/ Pause(j) \/ Lift(j)
                       \/ BecomesDue(j) \/ LeaseExpires(j)
  \/ Disconnect

Spec == Init /\ [][Next]_vars

(* Workers loop for ever, claims go to the oldest jobs first and time       *)
(* passes.  Nothing is assumed of crashes, pauses or the operators.         *)
LivelySpec ==
  /\ Spec
  /\ \A w \in Workers : WF_vars(WorkerStep(w))
  /\ \A j \in Jobs :
       /\ SF_vars(\E w \in Workers, Q, S \in SUBSET Jobs :
                    j \in Q \cup S /\ Claim(w, Q, S))
       /\ WF_vars(BecomesDue(j))
       /\ WF_vars(LeaseExpires(j))

(* A world that is kind often enough: pauses are lifted, and a job allowed  *)
(* again and again, with its lease still running, is one day put in flight. *)
KindWorld ==
  /\ \A j \in Jobs : WF_vars(Lift(j))
  /\ \A w \in Workers :
       /\ SF_vars(\E j \in Jobs : Authorize(w, j) /\ pc'[w] = "payload")
       /\ SF_vars(StartAttempt(w))

-----------------------------------------------------------------------------

(* A worker inside a job knows which one, and its attempt once it has one. *)
WorkersTyped ==
  \A w \in Workers :
    /\ pc[w] = "loop" <=> current[w] = NoJob
    /\ pc[w] \in InAttempt => attemptNo[w] \in AttemptNos
    /\ pc[w] = "finish" => result[w] \in Results

(* Every variable has the values its column or local variable may hold. *)
TypeOK ==
  /\ jobStatus \in [Jobs -> JobStatuses]
  /\ attemptCount \in [Jobs -> 0..MaxAttempts]
  /\ due \in [Jobs -> BOOLEAN]
  /\ lease \in [Jobs -> (Workers \X Tokens) \cup {NoLease}]
  /\ leaseLive \in [Jobs -> BOOLEAN]
  /\ outbox \in [Jobs -> OutboxStatuses]
  /\ attempts \in [Jobs -> [AttemptNos -> AttemptStatuses]]
  /\ paused \in SUBSET Jobs
  /\ pc \in [Workers -> Steps]
  /\ held \in [Workers -> [Jobs -> Tokens \cup {NoToken}]]
  /\ current \in [Workers -> Jobs \cup {NoJob}]
  /\ attemptNo \in [Workers -> 0..MaxAttempts]
  /\ result \in [Workers -> Results \cup {"none"}]
  /\ taken \in [Jobs -> SUBSET AttemptNos]
  /\ late \in [Jobs -> SUBSET AttemptNos]
  /\ misread \in [Jobs -> SUBSET AttemptNos]
  /\ WorkersTyped

(* The three tables never contradict each other: the outbox is in doubt,    *)
(* accepted or sending exactly when the job says so, only the newest        *)
(* attempt can be open, and only while the outbox is sending.               *)
RowAgrees(j) ==
  /\ outbox[j] = "accepted" <=> jobStatus[j] = "completed"
  /\ outbox[j] = "unknown" <=> jobStatus[j] = "reconciliation_required"
  /\ outbox[j] = "sending" => jobStatus[j] = "leased"
  /\ outbox[j] = "none" <=> attemptCount[j] = 0
  /\ lease[j] # NoLease <=> jobStatus[j] = "leased"
  /\ leaseLive[j] => jobStatus[j] = "leased"
  /\ jobStatus[j] = "dead_letter" =>
       outbox[j] = "failed" /\ attemptCount[j] = MaxAttempts
  /\ \A n \in AttemptNos :
       /\ attempts[j][n] = "none" <=> n > attemptCount[j]
       /\ attempts[j][n] = "started" <=>
            n = attemptCount[j] /\ outbox[j] = "sending"

RowsAgree == \A j \in Jobs : RowAgrees(j)

(* The attempts the provider took from a worker whose lease had not moved   *)
(* on, and answered as its adapter expects.                                 *)
InOrder(j) == taken[j] \ (late[j] \cup misread[j])

(* However leases, crashes, lost answers and retries interleave, the        *)
(* provider gets a message at most once: a duplicate needs a send that came *)
(* after its lease had moved on, or an answer the adapter misreads.         *)
DeliveredOnceUnderLease ==
  \A j \in Jobs : \A m, n \in InOrder(j) : m = n

(* A job marked completed has reached the provider, also after a doubt.     *)
CompletedWasDelivered ==
  \A j \in Jobs : jobStatus[j] = "completed" => taken[j] # {}

(* A dead letter used its whole budget, and no attempt of it arrived except *)
(* one that was sent too late or whose answer was misread.                  *)
DeadLetterNeverArrived ==
  \A j \in Jobs : jobStatus[j] = "dead_letter" =>
    attemptCount[j] = MaxAttempts /\ InOrder(j) = {}

JobRow(j) == <<jobStatus[j], attemptCount[j], lease[j], outbox[j], attempts[j]>>

(* While a lease is live, the job, its outbox and its attempts change only  *)
(* in a step of the one worker that has the exact lease: a worker that woke *)
(* up late, an operator or a disconnect cannot touch them.                  *)
FencedByLease ==
  [][\A j \in Jobs : leaseLive[j] /\ JobRow(j)' # JobRow(j) =>
       \E w \in Workers : HoldsLease(w, j)
         /\ <<pc[w], held[w]>>' # <<pc[w], held[w]>>]_vars

(* A pause created after a job was claimed and authorised still stops it:   *)
(* no attempt starts while the job is paused.                               *)
PauseStopsNewAttempts ==
  [][\A j \in Jobs : j \in paused => attemptCount'[j] = attemptCount[j]]_vars

(* What a worker remembers against what the tables say, from the moment it  *)
(* started an attempt: while it has the lease, that attempt is the newest   *)
(* and the outbox is sending; before it sends, the provider has not got the *)
(* attempt; and the result it is about to record is true, unless the answer *)
(* was a misleading one.                                                    *)
WorkerIsRight(w) ==
  LET j == current[w]
      n == attemptNo[w]
  IN
  /\ pc[w] # "loop" => held[w][j] # NoToken
  /\ pc[w] \in InAttempt =>
       /\ n \in 1..attemptCount[j]
       /\ HoldsLease(w, j) => n = attemptCount[j] /\ outbox[j] = "sending"
  /\ pc[w] \in InAttempt \ {"finish"} => n \notin taken[j]
  /\ pc[w] = "finish" =>
       /\ result[w] = "accepted" => n \in taken[j]
       /\ result[w] = "failed" => n \notin taken[j] \ misread[j]

WorkersAreRight == \A w \in Workers : WorkerIsRight(w)

(* No two workers are ever inside the same attempt. *)
AttemptsAreOwn ==
  \A v, w \in Workers :
    v # w /\ pc[v] \in InAttempt /\ pc[w] \in InAttempt
      /\ current[v] = current[w] => attemptNo[v] # attemptNo[w]

(* Only the step of StartAttempt leads from a lease to an open attempt. *)
LeasesStartClosed ==
  \A w \in Workers, j \in Jobs :
    HoldsLease(w, j) /\ ~(pc[w] \in InAttempt /\ current[w] = j) =>
      outbox[j] # "sending"

(* Where the provider stands: it has only attempts that were started, and   *)
(* one that was sent in time and answered as expected is the newest and not *)
(* recorded as a failure.                                                   *)
ProviderAgreesOn(j) ==
  /\ taken[j] \subseteq 1..attemptCount[j]
  /\ \A n \in InOrder(j) :
       n = attemptCount[j] /\ outbox[j] \in {"sending", "accepted", "unknown"}

ProviderAgrees == \A j \in Jobs : ProviderAgreesOn(j)

(* The inductive invariant. *)
IInv ==
  /\ TypeOK
  /\ RowsAgree
  /\ WorkersAreRight
  /\ AttemptsAreOwn
  /\ LeasesStartClosed
  /\ ProviderAgrees
  /\ CompletedWasDelivered

(* Refinement: seen through its status and its outbox, each job lives the   *)
(* life MessageLifecycle promises.                                          *)
PhaseOf(j) ==
  CASE jobStatus[j] = "completed" -> "sent"
    [] jobStatus[j] = "dead_letter" -> "dead"
    [] jobStatus[j] = "cancelled" -> "cancelled"
    [] jobStatus[j] = "reconciliation_required" -> "doubt"
    [] OTHER -> IF outbox[j] = "sending" THEN "inflight" ELSE "queued"

Lifecycle == INSTANCE MessageLifecycle
  WITH Messages <- Jobs, phase <- [j \in Jobs |-> PhaseOf(j)],
       tries <- attemptCount

LivesTheLifecycle == Lifecycle!LifecycleSpec

(* An attempt in flight is always decided, if only by being quarantined     *)
(* after its worker died.                                                   *)
SendingIsDecided ==
  \A j \in Jobs : outbox[j] = "sending" ~> outbox[j] # "sending"

(* An SMS held on its last attempt: no claim takes it (RetryHasBudget).     *)
Stranded(j) ==
  j \in SmsJobs /\ jobStatus[j] = "retry" /\ attemptCount[j] = MaxAttempts

(* In a kind world every job is settled, waits for an operator, or is an    *)
(* SMS stranded by a hold; an email always gets its answer.                 *)
EventuallySettled ==
  KindWorld => \A j \in Jobs : <>(Stranded(j) \/ jobStatus[j] \in
    {"completed", "reconciliation_required", "dead_letter", "cancelled"})

(* docs/architecture.md: "Definite failures back off or dead-letter at the  *)
(* attempt limit."  A job waiting to be retried has an attempt left.        *)
RetryHasBudget ==
  \A j \in Jobs : jobStatus[j] = "retry" => attemptCount[j] < MaxAttempts

(* docs/architecture.md: "Unknown provider results ... are never blindly    *)
(* retried."  A worker whose message the provider has never records its     *)
(* attempt as a definite failure, the only result that is retried.          *)
TakenIsNeverFailed ==
  \A w \in Workers : pc[w] = "finish" /\ result[w] = "failed" =>
    attemptNo[w] \notin taken[current[w]]

=============================================================================
