-------------------------- MODULE TokenRevocation ---------------------------
(***************************************************************************)
(* The tokens of disconnected Google connections, queued until Google has  *)
(* revoked them (migration 003, runGoogleTokenRevocationCycle): a worker   *)
(* leases a batch, calls Google for one token after the other, and records *)
(* each answer.  A record that the database refuses ends the process.      *)
(***************************************************************************)
EXTENDS Naturals, FiniteSets

CONSTANTS
  Revokers,          \* worker processes
  Retired,           \* the refresh tokens of connections that may be disconnected
  MaxRevocations,    \* oauth_token_revocations.max_attempts
  RevocationLimit,   \* p_limit of the claim
  NoRevoker, NoToken

Nobody == "nobody"   \* a lease token whose process has ended

ASSUME RevocationAssumption ==
  /\ MaxRevocations \in Nat \ {0} /\ RevocationLimit \in Nat \ {0}
  /\ NoRevoker \notin Revokers \cup {Nobody} /\ NoToken \notin Retired

VARIABLES
  \* oauth_token_revocations
  queue,         \* status, "none" before the disconnect, "deleted" at the end
  tries,         \* attempt_count
  ready,         \* tokens with next_attempt_at <= now
  lapsed,        \* tokens with expires_at <= now: seven days have passed
  leasedTo,      \* whose lease_token it is
  running,       \* tokens with leased_until > now
  \* Google
  valid,         \* tokens Google still honours
  \* a worker
  batch,         \* the tokens it has claimed and not yet recorded
  inHand,        \* the token whose answer it is about to record
  revoked        \* that answer

rows == <<queue, tries, ready, lapsed, leasedTo, running>>
process == <<batch, inHand, revoked>>
revocationVars == <<queue, tries, ready, lapsed, leasedTo, running, valid,
                    batch, inHand, revoked>>

RevocationInit ==
  /\ queue = [t \in Retired |-> "none"]
  /\ tries = [t \in Retired |-> 0]
  /\ ready = {}
  /\ lapsed = {}
  /\ leasedTo = [t \in Retired |-> NoRevoker]
  /\ running = {}
  /\ valid = Retired
  /\ batch = [v \in Revokers |-> {}]
  /\ inHand = [v \in Revokers |-> NoToken]
  /\ revoked = [v \in Revokers |-> FALSE]

-----------------------------------------------------------------------------

(* disconnect_google_connection, in the transaction that deletes the secret; *)
(* a connection that is disabled already queues nothing.                     *)
QueueRevocation(t) ==
  /\ queue[t] = "none"
  /\ queue' = [queue EXCEPT ![t] = "pending"]
  /\ ready' = ready \cup {t}
  /\ UNCHANGED <<tries, lapsed, leasedTo, running, valid, process>>

Overdue == {t \in Retired : queue[t] = "leased" /\ t \notin running}

(* Slip: a token whose worker died is not looked at again. *)
ClaimableOnce ==
  {t \in Retired \ lapsed : queue[t] = "pending" /\ t \in ready /\ tries[t] = 0}

ClaimableTokens ==
  {t \in Retired \ lapsed :
     /\ t \in Overdue \/ (queue[t] = "pending" /\ t \in ready)
     /\ tries[t] < MaxRevocations}

(* The leases that ran out go back to the queue; then a batch is leased.   *)
ClaimRevocations(v, S) ==
  /\ batch[v] = {} /\ inHand[v] = NoToken
  /\ S \subseteq ClaimableTokens
  /\ Cardinality(S) <= RevocationLimit
  /\ S \cup Overdue # {}
  /\ queue' = [t \in Retired |-> IF t \in S THEN "leased"
                                 ELSE IF t \in Overdue THEN "pending" ELSE queue[t]]
  /\ leasedTo' = [t \in Retired |-> IF t \in S THEN v
                                    ELSE IF t \in Overdue THEN NoRevoker ELSE leasedTo[t]]
  /\ running' = running \cup S
  /\ ready' = ready \cup Overdue
  /\ tries' = [t \in Retired |-> IF t \in S THEN tries[t] + 1 ELSE tries[t]]
  /\ batch' = [batch EXCEPT ![v] = S]
  /\ UNCHANGED <<lapsed, valid, inHand, revoked>>

Answers == {"ok", "bad_request", "error"}

(* Slip: whatever Google answers is taken for a revocation. *)
AnyAnswerRevokes(answer) == TRUE

(* revokeToken: a token Google does not know is as good as revoked.  An    *)
(* error is also one of the network, or of the decryption before the call. *)
CountsAsRevoked(answer) == answer \in {"ok", "bad_request"}

RevokeToken(v, t, answer, reached) ==
  /\ t \in batch[v] /\ inHand[v] = NoToken
  /\ answer = "ok" => reached
  /\ answer = "bad_request" => t \notin valid
  /\ valid' = IF reached THEN valid \ {t} ELSE valid
  /\ inHand' = [inHand EXCEPT ![v] = t]
  /\ revoked' = [revoked EXCEPT ![v] = CountsAsRevoked(answer)]
  /\ UNCHANGED <<rows, batch>>

(* The lease token is new to every claim. *)

HoldsRevocationLease(v, t) ==
  queue[t] = "leased" /\ leasedTo[t] = v /\ t \in running

AfterFailedRevocation(t) == IF tries[t] >= MaxRevocations THEN "dead" ELSE "pending"

(* finish_google_token_revocation *)
FinishRevocation(v) ==
  LET t == inHand[v] IN
  /\ t # NoToken
  /\ HoldsRevocationLease(v, t)
  /\ queue' = [queue EXCEPT ![t] =
                 IF revoked[v] THEN "deleted" ELSE AfterFailedRevocation(t)]
  /\ leasedTo' = [leasedTo EXCEPT ![t] = NoRevoker]
  /\ running' = running \ {t}
  /\ ready' = ready \ {t}
  /\ batch' = [batch EXCEPT ![v] = @ \ {t}]
  /\ inHand' = [inHand EXCEPT ![v] = NoToken]
  /\ revoked' = [revoked EXCEPT ![v] = FALSE]
  /\ UNCHANGED <<tries, lapsed, valid>>

(* The process ends with its batch; the leases run on, held by nobody. *)
ProcessEnds(v) ==
  /\ leasedTo' = [t \in Retired |-> IF leasedTo[t] = v THEN Nobody ELSE leasedTo[t]]
  /\ batch' = [batch EXCEPT ![v] = {}]
  /\ inHand' = [inHand EXCEPT ![v] = NoToken]
  /\ revoked' = [revoked EXCEPT ![v] = FALSE]
  /\ UNCHANGED <<queue, tries, ready, lapsed, running, valid>>

(* Nothing catches what finish_google_token_revocation raises. *)
FinishRaises(v) ==
  /\ inHand[v] # NoToken
  /\ ~HoldsRevocationLease(v, inHand[v])
  /\ ProcessEnds(v)

RevokerCrash(v) ==
  /\ batch[v] # {}
  /\ ProcessEnds(v)

(* Time. *)
RevocationLeaseExpires(t) ==
  /\ t \in running
  /\ running' = running \ {t}
  /\ UNCHANGED <<queue, tries, ready, lapsed, leasedTo, valid, process>>

RevocationBecomesReady(t) ==
  /\ queue[t] = "pending" /\ t \notin ready
  /\ ready' = ready \cup {t}
  /\ UNCHANGED <<queue, tries, lapsed, leasedTo, running, valid, process>>

RevocationLapses(t) ==
  /\ queue[t] \in {"pending", "leased"} /\ t \notin lapsed
  /\ lapsed' = lapsed \cup {t}
  /\ UNCHANGED <<queue, tries, ready, leasedTo, running, valid, process>>

-----------------------------------------------------------------------------

RevokerStep(v) ==
  \/ \E t \in Retired, answer \in Answers, reached \in BOOLEAN :
       RevokeToken(v, t, answer, reached)
  \/ FinishRevocation(v)
  \/ FinishRaises(v)

RevocationNext ==
  \/ \E t \in Retired : QueueRevocation(t)
  \/ \E v \in Revokers, S \in SUBSET Retired : ClaimRevocations(v, S)
  \/ \E v \in Revokers : RevokerStep(v) \/ RevokerCrash(v)
  \/ \E t \in Retired : RevocationLeaseExpires(t) \/ RevocationBecomesReady(t)
                           \/ RevocationLapses(t)

RevocationSpec == RevocationInit /\ [][RevocationNext]_revocationVars

(* Workers loop, time passes, and the claim takes the oldest rows first. *)
RevocationFairness ==
  /\ \A v \in Revokers : WF_revocationVars(RevokerStep(v))
  /\ \A t \in Retired :
       /\ SF_revocationVars(\E v \in Revokers, S \in SUBSET Retired :
                              t \in S \cup Overdue /\ ClaimRevocations(v, S))
       /\ WF_revocationVars(RevocationLeaseExpires(t))
       /\ WF_revocationVars(RevocationBecomesReady(t))

FairRevocationSpec == RevocationSpec /\ RevocationFairness

-----------------------------------------------------------------------------

(* A row is leased exactly while somebody's token is on it, and a dead row  *)
(* has used all of its attempts.                                            *)
RevocationTypeOK ==
  /\ queue \in [Retired -> {"none", "pending", "leased", "dead", "deleted"}]
  /\ tries \in [Retired -> 0..MaxRevocations]
  /\ leasedTo \in [Retired -> Revokers \cup {NoRevoker, Nobody}]
  /\ ready \subseteq Retired /\ lapsed \subseteq Retired
  /\ running \subseteq Retired /\ valid \subseteq Retired
  /\ batch \in [Revokers -> SUBSET Retired]
  /\ revoked \in [Revokers -> BOOLEAN]
  /\ inHand \in [Revokers -> Retired \cup {NoToken}]
  /\ \A t \in Retired :
       /\ leasedTo[t] # NoRevoker <=> queue[t] = "leased"
       /\ queue[t] = "dead" => tries[t] = MaxRevocations

(* docs/pilot-runbook.md: "token revocation/deletion completes".  A token   *)
(* leaves the queue only after Google has revoked it, whichever worker      *)
(* asked, however often, and whatever became of the answers.                *)
DeletedIsRevoked == \A t \in Retired : queue[t] = "deleted" => t \notin valid

(* A row that is tried by one worker is not touched by another: its status  *)
(* and its count change only in the step of the process that leased it.     *)
RevocationsAreFenced ==
  [][\A t \in running : <<queue[t], tries[t]>>' # <<queue[t], tries[t]>> =>
       \E v \in Revokers : leasedTo[t] = v /\ inHand[v] = t]_revocationVars

(* A process died on the last attempt, or the seven days are over: the row  *)
(* stays pending and no claim takes it.                                     *)
LeftBehind(t) ==
  queue[t] = "pending" /\ (tries[t] = MaxRevocations \/ t \in lapsed)

(* Every queued token is revoked, given up after all its attempts, or left  *)
(* behind in one of those two ways; no lease keeps it for ever.             *)
RevocationIsDecided ==
  \A t \in Retired : queue[t] \in {"pending", "leased"} ~>
    queue[t] \in {"dead", "deleted"} \/ LeftBehind(t)

(* The inductive invariant of GoogleProofs. *)

(* A lease that runs is on a row that is leased. *)
RunningIsLeased == \A t \in running : queue[t] = "leased"

(* An answer that counts as a revocation is of a token Google has revoked. *)
AnswersAreTrue ==
  \A v \in Revokers : inHand[v] # NoToken /\ revoked[v] => inHand[v] \notin valid

RevocationInv ==
  /\ RevocationTypeOK
  /\ RunningIsLeased
  /\ AnswersAreTrue
  /\ DeletedIsRevoked

=============================================================================
