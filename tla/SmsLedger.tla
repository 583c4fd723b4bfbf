----------------------------- MODULE SmsLedger ------------------------------
(***************************************************************************)
(* One business's SMS ledger for one billing period, statement by          *)
(* statement: the transactions of reserve_sms_segments and of the trigger  *)
(* that settles a reservation and records usage alerts (migration 004),    *)
(* under PostgreSQL's READ COMMITTED.  SmsAllowance takes each of them for *)
(* one step; here they overlap.  A transaction sees what is committed and  *)
(* what it wrote itself.                                                   *)
(***************************************************************************)
EXTENDS Naturals, FiniteSets

CONSTANTS
  Attempts,      \* SMS attempts of the business in this period
  LedgerSegments,      \* LedgerSegments[a]: billable segments of attempt a
  LedgerAllowance,     \* sms_base_allowance
  Nobody,        \* the account row is not locked
  Sessions       \* database sessions that may be in a transaction at once

ASSUME LedgerSegmentsAssumption == LedgerSegments \in [Attempts -> 1..20]
ASSUME LimitsAssumption ==
  LedgerAllowance \in Nat \ {0} /\ Sessions \in Nat \ {0} /\ Nobody \notin Attempts

VARIABLES
  row,           \* committed status of the attempt's reservation
  txn,           \* what the transaction about the attempt has done so far
  accountLock,   \* whose transaction has the billing_accounts row FOR UPDATE
  alerts,        \* committed sms_usage_alerts thresholds
  noticed        \* noticed[a]: thresholds inserted by a's open transaction

ledgerVars == <<row, txn, accountLock, alerts, noticed>>

Thresholds == {75, 90, 100}
Outcomes == {"accepted", "unknown", "released"}
TxnSteps == {"idle", "locked", "inserted"} \cup Outcomes

LedgerInit ==
  /\ row = [a \in Attempts |-> "none"]
  /\ txn = [a \in Attempts |-> "idle"]
  /\ accountLock = Nobody
  /\ alerts = {}
  /\ noticed = [a \in Attempts |-> {}]

(* The segments of the attempts in S, one by one. *)
SegmentsOf(S) == Cardinality({u \in S \X (1..20) : u[2] <= LedgerSegments[u[1]]})

CommittedSegments == SegmentsOf({a \in Attempts : row[a] \in {"reserved", "accepted", "unknown"}})

Open == {a \in Attempts : txn[a] # "idle"}
MayBegin(a) == txn[a] = "idle" /\ Cardinality(Open) < Sessions

-----------------------------------------------------------------------------
(* reserve_sms_segments: lock the account, add up, insert.                 *)

(* Slip: the account is read without FOR UPDATE. *)
ReadAccount(a) ==
  /\ MayBegin(a)
  /\ row[a] = "none"
  /\ accountLock' = a
  /\ txn' = [txn EXCEPT ![a] = "locked"]
  /\ UNCHANGED <<row, alerts, noticed>>

LockAccount(a) ==
  /\ MayBegin(a)
  /\ row[a] = "none"
  /\ accountLock = Nobody
  /\ accountLock' = a
  /\ txn' = [txn EXCEPT ![a] = "locked"]
  /\ UNCHANGED <<row, alerts, noticed>>

InsertReservation(a) ==
  /\ txn[a] = "locked"
  /\ CommittedSegments + LedgerSegments[a] <= LedgerAllowance
  /\ txn' = [txn EXCEPT ![a] = "inserted"]
  /\ UNCHANGED <<row, accountLock, alerts, noticed>>

CommitReservation(a) ==
  /\ txn[a] = "inserted"
  /\ row' = [row EXCEPT ![a] = "reserved"]
  /\ txn' = [txn EXCEPT ![a] = "idle"]
  /\ accountLock' = Nobody
  /\ UNCHANGED <<alerts, noticed>>

-----------------------------------------------------------------------------
(* finish_message_attempt and its kind, as far as the ledger goes: the     *)
(* outbox row changes, sync_sms_reservation_from_outbox updates the        *)
(* reservation and record_sms_usage_alerts adds up what was used.  The     *)
(* account is read without a lock.                                         *)

Used(a, outcome) ==
  SegmentsOf({b \in Attempts : b # a /\ row[b] \in {"accepted", "unknown"}}
               \cup (IF outcome \in {"accepted", "unknown"} THEN {a} ELSE {}))

Reached(used) == {t \in Thresholds : used * 100 >= LedgerAllowance * t}

Settle(a, outcome) ==
  /\ MayBegin(a)
  /\ row[a] = "reserved" \/ (row[a] = "unknown" /\ outcome # "unknown")
  /\ txn' = [txn EXCEPT ![a] = outcome]
  /\ noticed' = [noticed EXCEPT ![a] =
       IF outcome = "released" THEN {} ELSE Reached(Used(a, outcome))]
  /\ UNCHANGED <<row, accountLock, alerts>>

CommitSettlement(a) ==
  /\ txn[a] \in Outcomes
  /\ row' = [row EXCEPT ![a] = txn[a]]
  /\ txn' = [txn EXCEPT ![a] = "idle"]
  /\ alerts' = alerts \cup noticed[a]
  /\ noticed' = [noticed EXCEPT ![a] = {}]
  /\ UNCHANGED accountLock

(* The account has too little left, an error, or a connection that died.   *)
Rollback(a) ==
  /\ txn[a] # "idle"
  /\ txn' = [txn EXCEPT ![a] = "idle"]
  /\ noticed' = [noticed EXCEPT ![a] = {}]
  /\ accountLock' = IF accountLock = a THEN Nobody ELSE accountLock
  /\ UNCHANGED <<row, alerts>>

LedgerNext ==
  \E a \in Attempts :
    \/ LockAccount(a) \/ InsertReservation(a) \/ CommitReservation(a)
    \/ \E outcome \in Outcomes : Settle(a, outcome)
    \/ CommitSettlement(a) \/ Rollback(a)

LedgerSpec == LedgerInit /\ [][LedgerNext]_ledgerVars

-----------------------------------------------------------------------------

(* Every column and every transaction is in one of its states. *)
LedgerTypeOK ==
  /\ row \in [Attempts -> {"none", "reserved"} \cup Outcomes]
  /\ txn \in [Attempts -> TxnSteps]
  /\ accountLock \in Attempts \cup {Nobody}
  /\ alerts \subseteq Thresholds
  /\ noticed \in [Attempts -> SUBSET Thresholds]

(* However the transactions of the workers overlap, what is committed never *)
(* passes the allowance.                                                    *)
NeverOvercommitted == CommittedSegments <= LedgerAllowance

(* docs/security-launch-checklist.md: "Accounts receive alerts at 75%, 90%  *)
(* and 100%".  A threshold the committed usage has reached is recorded.     *)
AlertsAreComplete ==
  Reached(SegmentsOf({a \in Attempts : row[a] \in {"accepted", "unknown"}})) \subseteq alerts

=============================================================================
