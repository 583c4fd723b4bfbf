---------------------------- MODULE SmsAllowance ----------------------------
(***************************************************************************)
(* The metering of SMS over the delivery queue: MessageDispatch together   *)
(* with sms_usage_reservations and the billing account they are counted    *)
(* against (migration 004).                                                *)
(*                                                                         *)
(* A worker reserves the segments of a message before it calls Twilio; a   *)
(* trigger on message_outbox settles the reservation when the outbox row   *)
(* does.  The jobs are those of one business.  reserve_sms_segments locks  *)
(* the account before it adds up what is committed, so it is one step.     *)
(***************************************************************************)
EXTENDS MessageDispatch

CONSTANTS
  Segments,      \* Segments[j]: billable segments of the rendered SMS of job j
  Allowance,     \* sms_base_allowance; no code marks a bundle paid
  LastPeriod     \* bound: the billing periods are 1..LastPeriod

ASSUME SegmentsAssumption == Segments \in [SmsJobs -> 1..20]
ASSUME AllowanceAssumption == Allowance \in Nat \ {0} /\ LastPeriod \in Nat \ {0}

VARIABLES
  period,        \* <<current_period_start, current_period_end>> of the account
  billed,        \* subscription_status is pilot or active
  reservation    \* reservation[j][n]: status and period of attempt n's row

accountVars == <<period, billed>>
meterVars == <<vars, period, billed, reservation>>

Periods == 1..LastPeriod
ReservationStatuses == {"reserved", "accepted", "unknown", "released"}
NoReservation == [status |-> "none", period |-> 0]

MeterInit ==
  /\ Init
  /\ period = 1
  /\ billed \in BOOLEAN
  /\ reservation = [j \in SmsJobs |-> [n \in AttemptNos |-> NoReservation]]

-----------------------------------------------------------------------------
(* reserve_sms_segments *)

(* What counts toward the safety limit: all but what was released. *)
Counted == {"reserved", "accepted", "unknown"}

CountedIn(p) ==
  {r \in SmsJobs \X AttemptNos :
     LET row == reservation[r[1]][r[2]] IN row.period = p /\ row.status \in Counted}

(* The segments of these, one by one: message r of n segments has <<r, 1>>  *)
(* to <<r, n>>.                                                             *)
Committed(p) == Cardinality({u \in CountedIn(p) \X (1..20) : u[2] <= Segments[u[1][1]]})

MayReserve(j) == billed /\ Committed(period) + Segments[j] <= Allowance

(* The row of the attempt the worker has started for the job. *)
Reserve(w, j) ==
  reservation' = [reservation EXCEPT ![j][attemptNo[w]] =
                    [status |-> "reserved", period |-> period]]

(* The answer decides whether the worker sends or holds the message; an    *)
(* email is not metered.                                                   *)
MeteredPrepare(w) ==
  LET j == current[w] IN
  /\ Prepare(w)
  /\ \/ j \notin SmsJobs /\ UNCHANGED reservation
     \/ j \in SmsJobs /\ MayReserve(j) /\ pc'[w] = "send" /\ Reserve(w, j)
     \/ j \in SmsJobs /\ ~MayReserve(j) /\ pc'[w] = "hold" /\ UNCHANGED reservation
  /\ UNCHANGED accountVars

(* The reservation was committed and the answer lost: the worker takes it  *)
(* for a failure of its own.                                               *)
ReservationAnswerLost(w) ==
  LET j == current[w] IN
  /\ PrepareFails(w)
  /\ j \in SmsJobs
  /\ HoldsLiveLease(w, j)
  /\ MayReserve(j)
  /\ Reserve(w, j)
  /\ UNCHANGED accountVars

-----------------------------------------------------------------------------
(* sync_sms_reservation_from_outbox: the trigger runs in the transaction   *)
(* that changes the status of an outbox row.                               *)

(* Slip: an unknown outcome releases the segments. *)
SettlementReleasesUnknown(status) ==
  IF status = "accepted" THEN "accepted" ELSE "released"

Settlement(status) ==
  CASE status = "accepted" -> "accepted"
    [] status = "unknown" -> "unknown"
    [] status = "failed" -> "released"

(* Slip: a reservation in doubt is never settled. *)
SettledOnce(row, status) ==
  IF row.status = "reserved" THEN [row EXCEPT !.status = Settlement(status)] ELSE row

Settled(row, status) ==
  IF row.status \in {"reserved", "unknown"}
  THEN [row EXCEPT !.status = Settlement(status)] ELSE row

SyncReservations ==
  reservation' = [j \in SmsJobs |->
    IF outbox'[j] # outbox[j] /\ outbox'[j] \in {"accepted", "unknown", "failed"}
    THEN [n \in AttemptNos |-> Settled(reservation[j][n], outbox'[j])]
    ELSE reservation[j]]

(* Every other step of the queue, with the trigger it fires. *)
UnmeteredStep(w) ==
  \/ \E j \in Jobs : Authorize(w, j) \/ Block(w, j) \/ AuthorizeRaises(w, j)
  \/ Defer(w) \/ StartAttempt(w) \/ Abandon(w)
  \/ PrepareFails(w) \/ Hold(w) \/ HoldRaises(w)
  \/ \E response \in Responses, reached \in BOOLEAN : Send(w, response, reached)
  \/ Finish(w) \/ Crash(w)

DispatchStep(W) ==
  \/ \E w \in W, Q, S \in SUBSET Jobs : Claim(w, Q, S)
  \/ \E w \in W : UnmeteredStep(w)
  \/ \E j \in Jobs : Resolve(j) \/ BecomesDue(j) \/ LeaseExpires(j)

Dispatch(W) == DispatchStep(W) /\ SyncReservations /\ UNCHANGED accountVars

(* roll_pilot_billing_periods, or the period of a newer Stripe event. *)
RollPeriod ==
  /\ period < LastPeriod
  /\ period' = period + 1
  /\ UNCHANGED <<vars, billed, reservation>>

(* apply_stripe_billing_event: the subscription lapses or comes back. *)
BillingChanges ==
  /\ billed' = ~billed
  /\ UNCHANGED <<vars, period, reservation>>

(* The queue with the workers W alive. *)
MeterStep(W) ==
  \/ \E w \in W : MeteredPrepare(w) \/ ReservationAnswerLost(w)
  \/ Dispatch(W)
  \/ RollPeriod
  \/ BillingChanges

MeterNext == MeterStep(Workers)

MeterSpec == MeterInit /\ [][MeterNext]_meterVars

-----------------------------------------------------------------------------

(* Every column has the values it may hold. *)
MeterTypeOK ==
  /\ TypeOK
  /\ period \in Periods
  /\ billed \in BOOLEAN
  /\ reservation \in [SmsJobs -> [AttemptNos ->
       [status : ReservationStatuses, period : Periods] \cup {NoReservation}]]

(* Whatever fails, retries, is reconciled late or crosses the end of a      *)
(* period, no period is ever committed beyond its allowance.                *)
WithinAllowance == \A p \in Periods : Committed(p) <= Allowance

(* The reservations of a message follow its outbox: only the newest attempt *)
(* can be charged, it is charged as the outbox says, and no reservation     *)
(* outlives the attempt it was made for.                                    *)
ReservationsFollowOutbox ==
  \A j \in SmsJobs, n \in AttemptNos :
    LET status == reservation[j][n].status IN
    /\ n > attemptCount[j] => status = "none"
    /\ n < attemptCount[j] => status \in {"none", "released"}
    /\ n = attemptCount[j] =>
         /\ status = "reserved" => outbox[j] = "sending"
         /\ status = "unknown" => outbox[j] = "unknown"
         /\ status = "accepted" => outbox[j] = "accepted"
         /\ status = "released" => outbox[j] = "failed"

(* docs/product-commercial-rules.md: "Accepted and ambiguous provider       *)
(* outcomes count toward the safety limit".  An SMS the provider has is     *)
(* charged to the business, unless it was sent too late or its answer was   *)
(* misread as a failure.                                                    *)
DeliveredIsCharged ==
  \A j \in SmsJobs : \A n \in InOrder(j) : reservation[j][n].status \in Counted

=============================================================================
