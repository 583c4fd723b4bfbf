--------------------------- MODULE ReviewCadence ----------------------------
(***************************************************************************)
(* How a review request is paced: the messages of each request of one      *)
(* business and channel, what evaluate_message_dispatch decides about the  *)
(* next of them, the trigger that enqueues a follow-up, opt-outs and the   *)
(* loss of the Google profile (migration 003).                             *)
(*                                                                         *)
(* MessageDispatch looks after leases and attempts; here a job is queued   *)
(* while it is scheduled, retried or leased, and run_at is left out, so a  *)
(* job may be looked at earlier than the code would.  The transaction of   *)
(* get_message_dispatch_payload and that of disconnect_google_connection   *)
(* take two steps each, so that other transactions run in between.         *)
(***************************************************************************)
EXTENDS Integers, FiniteSets, FiniteSetsExt

CONSTANTS
  Requests, Locations, Destinations,
  LocationOf,     \* LocationOf[r], DestinationOf[r]: where a request belongs
  DestinationOf,
  MaxMessages,    \* MaxMessages[r]: review_requests.max_messages
  HourlyLimit,    \* location_messaging_policies.hourly_limit
  FrequencyMax,   \* .destination_frequency_max
  Hour, Gap, Window,  \* one hour, .minimum_gap, .destination_frequency_window
  Closed,         \* the times outside the sending window of the policy
  PayloadLife,    \* how long the encrypted payload may be used
  Horizon,        \* bound: the last instant
  LockWait,       \* bound: how long a statement may have waited for its locks
  NoLocation      \* no disconnect in progress

ASSUME PlacesAssumption ==
  /\ LocationOf \in [Requests -> Locations] /\ NoLocation \notin Locations
  /\ DestinationOf \in [Requests -> Destinations]
ASSUME LimitsAssumption ==
  /\ MaxMessages \in [Requests -> 1..3]
  /\ {HourlyLimit, FrequencyMax, Hour, Gap, Window} \subseteq Nat \ {0}
  /\ {PayloadLife, Horizon, LockWait} \subseteq Nat
  /\ Closed \subseteq 0..Horizon

VARIABLES
  now,
  request,        \* review_requests.status, "none" when there is no row
  sentCount,      \* review_requests.sent_count
  nextSend,       \* review_requests.next_send_at, 0 when null
  expires,        \* message_dispatch_payloads.expires_at, copied along
  jobOf,          \* jobOf[r][s]: the message_jobs row of sequence_number s
  attemptAt,      \* message_outbox.last_attempt_at of that job
  completedAt,    \* message_jobs.completed_at
  suppressed,     \* destinations with a channel_suppressions row not lifted
  connected,      \* locations with a usable Google profile
  disconnecting,  \* the location whose disconnect is in progress
  doomed,         \* the requests whose job that transaction has updated
  doubted         \* jobs whose outcome was unknown at one time

requestVars == <<request, sentCount, nextSend, expires>>
jobVars == <<jobOf, attemptAt, completedAt, doubted>>
worldVars == <<suppressed, connected, disconnecting, doomed>>
vars == <<now, request, sentCount, nextSend, expires, jobOf, attemptAt,
          completedAt, suppressed, connected, disconnecting, doomed, doubted>>

Sequences == 1..Max({MaxMessages[r] : r \in Requests})
Messages == Requests \X Sequences
JobStates == {"none", "queued", "deciding", "sending", "unknown", "completed",
              "dead_letter", "cancelled"}
OpenStates == {"queued", "deciding", "sending", "unknown"}
Live == {"scheduled", "active"}

Init ==
  /\ now = 0
  /\ request = [r \in Requests |-> "none"]
  /\ sentCount = [r \in Requests |-> 0]
  /\ nextSend = [r \in Requests |-> 0]
  /\ expires = [r \in Requests |-> 0]
  /\ jobOf = [r \in Requests |-> [s \in Sequences |-> "none"]]
  /\ attemptAt = [r \in Requests |-> [s \in Sequences |-> 0]]
  /\ completedAt = [r \in Requests |-> [s \in Sequences |-> 0]]
  /\ suppressed = {}
  /\ connected = Locations
  /\ disconnecting = NoLocation
  /\ doomed = {}
  /\ doubted = {}

(* next_permitted_send_at: the first instant from t on inside the window. *)
NextPermitted(t) == Min({u \in t..(t + Horizon + 1) : u \notin Closed})

Becomes(r, s, status) == jobOf' = [jobOf EXCEPT ![r][s] = status]

-----------------------------------------------------------------------------
(* create_manual_completed_job.  A second call for the same completed job  *)
(* finds the first one's request and changes nothing.                      *)
Create(r) ==
  /\ request[r] = "none"
  /\ \/ /\ LocationOf[r] \in connected
        /\ request' = [request EXCEPT ![r] = "scheduled"]
        /\ nextSend' = [nextSend EXCEPT ![r] = NextPermitted(now)]
        /\ expires' = [expires EXCEPT ![r] = now + PayloadLife]
        /\ Becomes(r, 1, "queued")
     \/ /\ LocationOf[r] \notin connected
        /\ request' = [request EXCEPT ![r] = "blocked"]
        /\ UNCHANGED <<nextSend, expires, jobOf>>
  /\ UNCHANGED <<now, sentCount, attemptAt, completedAt, doubted, worldVars>>

-----------------------------------------------------------------------------
(* evaluate_message_dispatch reads what is committed; the time it goes by   *)
(* is that of its statement, which may have waited for locks since.         *)

Began == {t \in 0..now : t + LockWait >= now}

(* The messages the rate limits count. *)
Counted(m) == jobOf[m[1]][m[2]] \in {"sending", "completed"}
AttemptAt(m) == attemptAt[m[1]][m[2]]

RecentTo(r, t) ==
  {m \in Messages : m[1] # r /\ DestinationOf[m[1]] = DestinationOf[r]
                      /\ Counted(m) /\ AttemptAt(m) >= t - Window}

RecentAt(l, t) ==
  {m \in Messages : LocationOf[m[1]] = l /\ Counted(m) /\ AttemptAt(m) >= t - Hour}

DecidingAt(l) == {m \in Messages : LocationOf[m[1]] = l /\ jobOf[m[1]][m[2]] = "deciding"}

(* Slip: the rate limits are decided without a lock. *)
RateLockIgnored(r) == r \in Requests

(* pg_advisory_xact_lock on the business, location and channel. *)
RateLockFree(r) == DecidingAt(LocationOf[r]) = {}

Sendable(r, t) ==
  /\ request[r] \in Live
  /\ sentCount[r] < MaxMessages[r]
  /\ DestinationOf[r] \notin suppressed
  /\ t < expires[r]
  /\ LocationOf[r] \in connected

UnderFrequencyCap(r, t) == Cardinality(RecentTo(r, t)) < FrequencyMax

(* Slip: a job that is due is never too soon. *)
NeverTooSoon(r, t) == r \notin Requests

(* Reasons to look again later. *)
TooSoon(r, t) ==
  \/ \E s \in Sequences : jobOf[r][s] = "completed" /\ completedAt[r][s] + Gap > t
  \/ nextSend[r] > t

Allowed(r, t) ==
  /\ Sendable(r, t)
  /\ UnderFrequencyCap(r, t)
  /\ Cardinality(RecentAt(LocationOf[r], t)) < HourlyLimit
  /\ ~TooSoon(r, t)
  /\ t \notin Closed

(* cancel_blocked_message_job: the request is stopped with the job. *)
Block(r, s) ==
  /\ jobOf[r][s] = "queued" /\ r \notin doomed
  /\ \E t \in Began : ~Sendable(r, t) \/ (RateLockFree(r) /\ ~UnderFrequencyCap(r, t))
  /\ Becomes(r, s, "cancelled")
  /\ request' = [request EXCEPT ![r] = IF @ \in Live THEN "blocked" ELSE @]
  /\ nextSend' = [nextSend EXCEPT ![r] = IF request[r] \in Live THEN 0 ELSE @]
  /\ UNCHANGED <<now, sentCount, expires, attemptAt, completedAt, doubted, worldVars>>

(* get_message_dispatch_payload, up to the decision.  From here until it   *)
(* commits it has the job and request rows and the advisory lock.  The     *)
(* attempt bears the time its statement began.                             *)
BeginAttempt(r, s) ==
  /\ jobOf[r][s] = "queued" /\ r \notin doomed
  /\ RateLockFree(r)
  /\ Becomes(r, s, "deciding")
  /\ \E t \in Began : Allowed(r, t) /\ attemptAt' = [attemptAt EXCEPT ![r][s] = t]
  /\ UNCHANGED <<now, requestVars, completedAt, doubted, worldVars>>

CommitAttempt(r, s) ==
  /\ jobOf[r][s] = "deciding"
  /\ Becomes(r, s, "sending")
  /\ UNCHANGED <<now, requestVars, attemptAt, completedAt, doubted, worldVars>>

(* The payload or the Google destination is gone by the time it is read,   *)
(* or the worker's connection dies.                                        *)
AbortAttempt(r, s) ==
  /\ jobOf[r][s] = "deciding"
  /\ Becomes(r, s, "queued")
  /\ UNCHANGED <<now, requestVars, attemptAt, completedAt, doubted, worldVars>>

-----------------------------------------------------------------------------
(* advance_review_request_after_delivery: the trigger on a job that        *)
(* becomes completed counts the message and enqueues the next one, unless  *)
(* the request has stopped or the payload would not live to see it.        *)
FollowUpAt == NextPermitted(now + Gap)

HasFollowUp(r) ==
  /\ request[r] \in Live
  /\ sentCount[r] + 1 < MaxMessages[r]
  /\ expires[r] > FollowUpAt

Complete(r, s) ==
  /\ completedAt' = [completedAt EXCEPT ![r][s] = now]
  /\ sentCount' = [sentCount EXCEPT ![r] = Min({MaxMessages[r], @ + 1})]
  /\ request' = [request EXCEPT ![r] = IF @ = "scheduled" THEN "active" ELSE @]
  /\ nextSend' = [nextSend EXCEPT ![r] = IF HasFollowUp(r) THEN FollowUpAt ELSE 0]
  /\ jobOf' = [jobOf EXCEPT ![r] = [t \in Sequences |->
       IF t = s THEN "completed"
       ELSE IF t = s + 1 /\ HasFollowUp(r) THEN "queued" ELSE @[t]]]
  /\ UNCHANGED expires

(* finish_message_attempt: accepted, or a definite failure that is retried *)
(* while the job has attempts left.                                        *)
Finish(r, s) ==
  /\ jobOf[r][s] = "sending"
  /\ \/ Complete(r, s)
     \/ /\ \E status \in {"queued", "dead_letter"} : Becomes(r, s, status)
        /\ UNCHANGED <<requestVars, completedAt>>
  /\ UNCHANGED <<now, attemptAt, doubted, worldVars>>

(* An unknown result, or a lease that ran out while it was sending. *)
LoseOutcome(r, s) ==
  /\ jobOf[r][s] = "sending"
  /\ Becomes(r, s, "unknown")
  /\ doubted' = doubted \cup {<<r, s>>}
  /\ UNCHANGED <<now, requestVars, attemptAt, completedAt, worldVars>>

(* Slip: a decision made twice is applied twice. *)
ResolveTwice(r, s) ==
  /\ jobOf[r][s] \in {"unknown", "completed"}
  /\ Complete(r, s)
  /\ UNCHANGED <<now, attemptAt, doubted, worldVars>>

(* resolve_unknown_message *)
Resolve(r, s) ==
  /\ jobOf[r][s] = "unknown"
  /\ \/ Complete(r, s)
     \/ /\ \E status \in {"queued", "dead_letter"} : Becomes(r, s, status)
        /\ UNCHANGED <<requestVars, completedAt>>
  /\ UNCHANGED <<now, attemptAt, doubted, worldVars>>

-----------------------------------------------------------------------------
(* record_message_suppression_webhook: STOP and START, in the order they   *)
(* arrive; their lock is not the one the evaluation takes.                 *)

Suppress(d) ==
  /\ d \notin suppressed
  /\ suppressed' = suppressed \cup {d}
  /\ UNCHANGED <<now, requestVars, jobVars, connected, disconnecting, doomed>>

LiftSuppression(d) ==
  /\ d \in suppressed
  /\ suppressed' = suppressed \ {d}
  /\ UNCHANGED <<now, requestVars, jobVars, connected, disconnecting, doomed>>

(* disconnect_google_connection first cancels the jobs it sees scheduled   *)
(* or waiting for a retry; those a worker has leased are left alone.       *)
BeginDisconnect(l) ==
  /\ disconnecting = NoLocation
  /\ l \in connected
  /\ disconnecting' = l
  /\ \E D \in SUBSET {r \in Requests : LocationOf[r] = l
                        /\ \E s \in Sequences : jobOf[r][s] = "queued"} : doomed' = D
  /\ UNCHANGED <<now, requestVars, jobVars, suppressed, connected>>

(* Slip: requests that have already sent a message are not blocked. *)
CommitDisconnectScheduled(l) ==
  /\ disconnecting = l
  /\ DecidingAt(l) = {}
  /\ connected' = connected \ {l}
  /\ jobOf' = [r \in Requests |-> [s \in Sequences |->
       IF r \in doomed /\ jobOf[r][s] = "queued" THEN "cancelled" ELSE jobOf[r][s]]]
  /\ request' = [r \in Requests |->
       IF LocationOf[r] = l /\ request[r] = "scheduled" THEN "blocked" ELSE request[r]]
  /\ disconnecting' = NoLocation
  /\ doomed' = {}
  /\ UNCHANGED <<now, sentCount, nextSend, expires, attemptAt, completedAt,
                 doubted, suppressed>>

(* Then it blocks the requests, once nobody else has their rows. *)
CommitDisconnect(l) ==
  /\ disconnecting = l
  /\ DecidingAt(l) = {}
  /\ connected' = connected \ {l}
  /\ jobOf' = [r \in Requests |-> [s \in Sequences |->
       IF r \in doomed /\ jobOf[r][s] = "queued" THEN "cancelled" ELSE jobOf[r][s]]]
  /\ request' = [r \in Requests |->
       IF LocationOf[r] = l /\ request[r] \in Live THEN "blocked" ELSE request[r]]
  /\ nextSend' = [r \in Requests |->
       IF LocationOf[r] = l /\ request[r] \in Live THEN 0 ELSE nextSend[r]]
  /\ disconnecting' = NoLocation
  /\ doomed' = {}
  /\ UNCHANGED <<now, sentCount, expires, attemptAt, completedAt, doubted, suppressed>>

(* save_google_connection_for_actor: a new connection revives no request. *)
Reconnect(l) ==
  /\ l \notin connected
  /\ connected' = connected \cup {l}
  /\ UNCHANGED <<now, requestVars, jobVars, suppressed, disconnecting, doomed>>

Tick ==
  /\ now < Horizon
  /\ now' = now + 1
  /\ UNCHANGED <<requestVars, jobVars, worldVars>>

Next ==
  \/ \E r \in Requests :
       \/ Create(r)
       \/ \E s \in Sequences :
            \/ Block(r, s) \/ BeginAttempt(r, s)
            \/ CommitAttempt(r, s) \/ AbortAttempt(r, s)
            \/ Finish(r, s) \/ LoseOutcome(r, s) \/ Resolve(r, s)
  \/ \E d \in Destinations : Suppress(d) \/ LiftSuppression(d)
  \/ \E l \in Locations :
       BeginDisconnect(l) \/ CommitDisconnect(l) \/ Reconnect(l)
  \/ Tick

Spec == Init /\ [][Next]_vars

-----------------------------------------------------------------------------

(* Every column has the values it may hold. *)
TypeOK ==
  /\ now \in 0..Horizon
  /\ request \in [Requests -> {"none", "scheduled", "active", "blocked"}]
  /\ sentCount \in [Requests -> 0..3]
  /\ nextSend \in [Requests -> Nat]
  /\ expires \in [Requests -> Nat]
  /\ jobOf \in [Requests -> [Sequences -> JobStates]]
  /\ attemptAt \in [Requests -> [Sequences -> 0..Horizon]]
  /\ completedAt \in [Requests -> [Sequences -> 0..Horizon]]
  /\ suppressed \subseteq Destinations
  /\ connected \subseteq Locations
  /\ disconnecting \in Locations \cup {NoLocation}
  /\ doomed \subseteq Requests
  /\ doubted \subseteq Messages

(* A request sends its messages one after another and counts each once,    *)
(* through late reconciliations, disconnects and retries: sent_count       *)
(* messages are completed, and at most the next one exists beside them.    *)
OneMessageAtATime ==
  \A r \in Requests, s \in Sequences :
    /\ s <= sentCount[r] <=> jobOf[r][s] = "completed"
    /\ s > sentCount[r] + 1 => jobOf[r][s] = "none"

(* A request that is live with messages left to send has one that will be   *)
(* looked at: only an attempt that died, or a payload too old for the next  *)
(* message, leaves a live request with nothing to do.                       *)
LiveRequestsHaveWork ==
  \A r \in Requests : request[r] \in Live /\ sentCount[r] < MaxMessages[r] =>
    LET s == sentCount[r] + 1 IN
    \/ jobOf[r][s] \in OpenStates \cup {"dead_letter"}
    \/ /\ jobOf[r][s] = "none"
       /\ expires[r] <= NextPermitted(completedAt[r][sentCount[r]] + Gap)

(* The rate limits do not count a doubt, whatever it turns into. *)
Surely(m) == Counted(m) /\ m \notin doubted

(* The other requests the customer of m has heard from, in the window that  *)
(* ended with m.                                                            *)
HeardBefore(m) ==
  {r \in Requests \ {m[1]} :
     /\ DestinationOf[r] = DestinationOf[m[1]]
     /\ \E s \in Sequences : Surely(<<r, s>>)
          /\ attemptAt[r][s] \in (AttemptAt(m) - Window)..AttemptAt(m)}

(* "Serialize the final rate-limit decision through outbox creation."  No   *)
(* customer hears from more requests within the frequency window than the   *)
(* policy allows, though attempts may bear their times out of order.        *)
DestinationCapKept ==
  \A m \in Messages : Surely(m) => Cardinality(HeardBefore(m)) < FrequencyMax

(* A follow-up is never sent sooner than the minimum gap after the message  *)
(* before it was delivered, also when that was established later.           *)
GapKept ==
  \A m \in Messages : Counted(m) /\ m[2] > 1 =>
    AttemptAt(m) >= completedAt[m[1]][m[2] - 1] + Gap

=============================================================================
