----------------------------- MODULE SmsProofs ------------------------------
(* What the metering of SMS promises, for any jobs, workers, segments and   *)
(* allowance: the ledger statement by statement, and the reservations over  *)
(* the delivery queue.                                                      *)
EXTENDS SmsAllowance, SmsLedger, MessageDispatchProofs, FiniteSetTheorems

-----------------------------------------------------------------------------
(* Adding up segments.  A sum is the number of units of a set: <<x, 1>> to  *)
(* <<x, n>> for each x of n segments.                                       *)

Units(S, segments) == {u \in S \X (1..20) : u[2] <= segments[u[1]]}

(* What is added up is finite. *)
LEMMA UnitsAreFinite ==
  ASSUME NEW S, IsFiniteSet(S), NEW segments
  PROVE  IsFiniteSet(Units(S, segments)) /\ Cardinality(Units(S, segments)) \in Nat
<1>1. IsFiniteSet(S \X (1..20))
  <2>1. 1 \in Int /\ 20 \in Int
    OBVIOUS
  <2>2. IsFiniteSet(1..20)
    BY <2>1, FS_Interval, Zenon
  <2> QED
    BY <2>2, FS_Product
<1>2. Units(S, segments) \in SUBSET (S \X (1..20))
  BY DEF Units
<1>3. IsFiniteSet(Units(S, segments))
  BY <1>1, <1>2, FS_Subset
<1> QED
  BY <1>3, FS_CardinalityType

(* One message adds up to its segments. *)
LEMMA UnitsOfOne ==
  ASSUME NEW x, NEW segments, segments[x] \in 1..20
  PROVE  /\ IsFiniteSet(Units({x}, segments))
         /\ Cardinality(Units({x}, segments)) = segments[x]
<1> DEFINE n == segments[x]
           f == [k \in 1..n |-> <<x, k>>]
<1>1. f \in Bijection(1..n, Units({x}, segments))
  <2>1. ASSUME NEW u \in Units({x}, segments) PROVE u[2] \in 1..n /\ u = <<x, u[2]>>
    BY DEF Units
  <2>2. f \in [1..n -> Units({x}, segments)]
    BY DEF Units
  <2>3. f \in Injection(1..n, Units({x}, segments))
    BY <2>2 DEF Injection, IsInjective
  <2>4. f \in Surjection(1..n, Units({x}, segments))
    BY <2>1, <2>2 DEF Surjection
  <2> QED
    BY <2>3, <2>4 DEF Bijection
<1>2. IsFiniteSet(1..n) /\ Cardinality(1..n) = n
  <2>1. n \in Int /\ 1 \in Int
    OBVIOUS
  <2>2. IsFiniteSet(1..n) /\ Cardinality(1..n) = IF 1 > n THEN 0 ELSE n - 1 + 1
    BY <2>1, FS_Interval, Zenon
  <2> QED
    BY <2>2
<1>3. ExistsBijection(1..n, Units({x}, segments))
  BY <1>1 DEF ExistsBijection
<1> QED
  BY <1>2, <1>3, FS_Bijection

(* Less is added up over fewer. *)
LEMMA FewerUnits ==
  ASSUME NEW S, NEW T, IsFiniteSet(T), S \subseteq T, NEW segments
  PROVE  IsFiniteSet(S) /\ Cardinality(Units(S, segments)) <= Cardinality(Units(T, segments))
<1>1. Units(S, segments) \in SUBSET Units(T, segments)
  BY DEF Units
<1>2. IsFiniteSet(Units(T, segments))
  BY UnitsAreFinite
<1>3. IsFiniteSet(S) 
  BY FS_Subset
<1> QED
  BY <1>1, <1>2, <1>3, FS_Subset

(* One more message adds no more than its segments. *)
LEMMA OneMoreMessage ==
  ASSUME NEW S, NEW T, IsFiniteSet(S), NEW x, T \subseteq S \cup {x},
         NEW segments, segments[x] \in 1..20
  PROVE  /\ IsFiniteSet(T)
         /\ Cardinality(Units(T, segments)) <= Cardinality(Units(S, segments)) + segments[x]
<1>1. IsFiniteSet(S \cup {x})
  BY FS_AddElement
<1>2. Units(S \cup {x}, segments) = Units(S, segments) \cup Units({x}, segments)
  BY DEF Units
<1>3. /\ IsFiniteSet(Units(S, segments)) /\ Cardinality(Units(S, segments)) \in Nat
      /\ IsFiniteSet(Units({x}, segments)) /\ Cardinality(Units({x}, segments)) = segments[x]
  BY UnitsAreFinite, UnitsOfOne
<1>4. /\ IsFiniteSet(Units(S, segments) \cap Units({x}, segments))
      /\ Cardinality(Units(S, segments) \cap Units({x}, segments)) \in Nat
  BY <1>3, FS_Intersection, FS_CardinalityType
<1>5. Cardinality(Units(S \cup {x}, segments)) <= Cardinality(Units(S, segments)) + segments[x]
  <2> DEFINE A == Units(S, segments)
             B == Units({x}, segments)
  <2>1. Cardinality(A \cup B) = Cardinality(A) + Cardinality(B) - Cardinality(A \cap B)
    BY <1>3, FS_Union
  <2> HIDE DEF A, B
  <2>2. Cardinality(A \cup B) <= Cardinality(A) + Cardinality(B)
    BY <2>1, <1>3, <1>4 DEF A, B
  <2> QED
    BY <1>2, <1>3, <2>2 DEF A, B
<1>6. /\ IsFiniteSet(T) /\ Cardinality(Units(T, segments)) \in Nat
      /\ Cardinality(Units(S \cup {x}, segments)) \in Nat
      /\ Cardinality(Units(T, segments)) <= Cardinality(Units(S \cup {x}, segments))
  BY <1>1, FewerUnits, UnitsAreFinite
<1> QED
  BY <1>3, <1>5, <1>6

-----------------------------------------------------------------------------
(* The ledger, statement by statement *)

Standing == {a \in Attempts : row[a] \in {"reserved", "accepted", "unknown"}}

(* Who reserves has the account row to itself, and its attempt is new.      *)
ReserversHaveTheLock ==
  \A a \in Attempts : txn[a] \in {"locked", "inserted"} => accountLock = a /\ row[a] = "none"

(* What a transaction has inserted still fits when it commits.              *)
InsertedFits ==
  \A a \in Attempts : txn[a] = "inserted" =>
    CommittedSegments + LedgerSegments[a] <= LedgerAllowance

SettlersHaveARow ==
  \A a \in Attempts : txn[a] \in Outcomes => row[a] \in {"reserved", "unknown"}

LedgerInv ==
  /\ LedgerTypeOK /\ IsFiniteSet(Standing)
  /\ ReserversHaveTheLock /\ InsertedFits /\ SettlersHaveARow /\ NeverOvercommitted

LEMMA CommittedIsUnits == CommittedSegments = Cardinality(Units(Standing, LedgerSegments))
BY DEF CommittedSegments, SegmentsOf, Units, Standing

(* Without a new reservation nothing more is committed. *)
LEMMA NothingMoreStands ==
  ASSUME LedgerInv, Standing' \subseteq Standing
  PROVE  /\ IsFiniteSet(Standing') /\ NeverOvercommitted'
         /\ \A a \in Attempts : CommittedSegments + LedgerSegments[a] <= LedgerAllowance
              => CommittedSegments' + LedgerSegments[a] <= LedgerAllowance
<1>1. /\ IsFiniteSet(Standing')
      /\ Cardinality(Units(Standing', LedgerSegments)) <= Cardinality(Units(Standing, LedgerSegments))
  BY FewerUnits DEF LedgerInv
<1>2. CommittedSegments' = Cardinality(Units(Standing', LedgerSegments))
  BY DEF CommittedSegments, SegmentsOf, Units, Standing
<1>3. CommittedSegments' <= CommittedSegments /\ CommittedSegments' \in Nat /\ CommittedSegments \in Nat
  BY <1>1, <1>2, CommittedIsUnits, UnitsAreFinite DEF LedgerInv
<1> QED
  BY <1>1, <1>3, LedgerSegmentsAssumption, LimitsAssumption DEF LedgerInv, NeverOvercommitted

LEMMA LedgerStep ==
  ASSUME LedgerInv, [LedgerNext]_ledgerVars
  PROVE  LedgerInv'
<1> USE LedgerSegmentsAssumption, LimitsAssumption DEF TxnSteps, Outcomes, Thresholds
<1>1. LedgerTypeOK'
  <2>1. CASE UNCHANGED ledgerVars
    BY <2>1 DEF LedgerInv, LedgerTypeOK, ledgerVars
  <2>2. ASSUME NEW a \in Attempts,
               LockAccount(a) \/ InsertReservation(a) \/ CommitReservation(a)
        PROVE  LedgerTypeOK'
    <3>1. /\ row' \in [Attempts -> {"none", "reserved"} \cup Outcomes]
          /\ txn' \in [Attempts -> TxnSteps]
      BY <2>2 DEF LedgerInv, LedgerTypeOK, LockAccount, InsertReservation, CommitReservation
    <3>2. accountLock' \in Attempts \cup {Nobody} /\ alerts' = alerts /\ noticed' = noticed
      BY <2>2 DEF LedgerInv, LedgerTypeOK, LockAccount, InsertReservation, CommitReservation
    <3> QED
      BY <3>1, <3>2 DEF LedgerInv, LedgerTypeOK
  <2>3. ASSUME NEW a \in Attempts, NEW outcome \in Outcomes, Settle(a, outcome)
        PROVE  LedgerTypeOK'
    BY <2>3 DEF LedgerInv, LedgerTypeOK, Settle, Reached
  <2>4. ASSUME NEW a \in Attempts, CommitSettlement(a) \/ Rollback(a)
        PROVE  LedgerTypeOK'
    <3>1. /\ row' \in [Attempts -> {"none", "reserved"} \cup Outcomes]
          /\ txn' \in [Attempts -> TxnSteps]
      BY <2>4 DEF LedgerInv, LedgerTypeOK, CommitSettlement, Rollback
    <3>2. accountLock' \in Attempts \cup {Nobody}
      BY <2>4 DEF LedgerInv, LedgerTypeOK, CommitSettlement, Rollback
    <3>3. noticed' \in [Attempts -> SUBSET Thresholds]
      BY <2>4 DEF LedgerInv, LedgerTypeOK, CommitSettlement, Rollback
    <3>4. alerts' \subseteq Thresholds
      <4>1. noticed[a] \subseteq Thresholds /\ alerts \subseteq Thresholds
        BY DEF LedgerInv, LedgerTypeOK
      <4> QED
        BY <2>4, <4>1 DEF CommitSettlement, Rollback
    <3> QED
      BY <3>1, <3>2, <3>3, <3>4 DEF LedgerTypeOK
  <2> QED
    BY <2>1, <2>2, <2>3, <2>4 DEF LedgerNext
<1>2. ASSUME NEW a \in Attempts, CommitReservation(a)
      PROVE  LedgerInv'
  <2>1. Standing' = Standing \cup {a}
    BY <1>2 DEF LedgerInv, LedgerTypeOK, CommitReservation, Standing
  <2>2. /\ IsFiniteSet(Standing')
        /\ Cardinality(Units(Standing', LedgerSegments))
             <= Cardinality(Units(Standing, LedgerSegments)) + LedgerSegments[a]
    BY <2>1, OneMoreMessage DEF LedgerInv
  <2>3. CommittedSegments' = Cardinality(Units(Standing', LedgerSegments))
    BY DEF CommittedSegments, SegmentsOf, Units, Standing
  <2>4. CommittedSegments' <= CommittedSegments + LedgerSegments[a]
    BY <2>2, <2>3, CommittedIsUnits
  <2>5. CommittedSegments \in Nat /\ CommittedSegments' \in Nat
    BY <2>2, <2>3, CommittedIsUnits, UnitsAreFinite DEF LedgerInv
  <2>6. CommittedSegments + LedgerSegments[a] <= LedgerAllowance
    BY <1>2 DEF LedgerInv, InsertedFits, CommitReservation
  <2>7. NeverOvercommitted'
    BY <2>4, <2>5, <2>6 DEF NeverOvercommitted
  <2>8. \A b \in Attempts : txn'[b] \notin {"locked", "inserted"}
    BY <1>2 DEF LedgerInv, LedgerTypeOK, ReserversHaveTheLock, CommitReservation
  <2>9. SettlersHaveARow'
    BY <1>2 DEF LedgerInv, LedgerTypeOK, SettlersHaveARow, CommitReservation
  <2> QED
    BY <1>1, <2>2, <2>7, <2>8, <2>9 DEF LedgerInv, ReserversHaveTheLock, InsertedFits
<1>3. ASSUME NEW a \in Attempts,
             \/ LockAccount(a) \/ InsertReservation(a)
             \/ \E outcome \in Outcomes : Settle(a, outcome)
             \/ CommitSettlement(a) \/ Rollback(a)
      PROVE  LedgerInv'
  <2>1. Standing' \subseteq Standing
    BY <1>3 DEF LedgerInv, LedgerTypeOK, SettlersHaveARow, Standing, LockAccount,
       InsertReservation, Settle, CommitSettlement, Rollback
  <2>2. /\ IsFiniteSet(Standing') /\ NeverOvercommitted'
        /\ \A b \in Attempts : CommittedSegments + LedgerSegments[b] <= LedgerAllowance
             => CommittedSegments' + LedgerSegments[b] <= LedgerAllowance
    BY <2>1, NothingMoreStands
  <2>3. ReserversHaveTheLock' /\ SettlersHaveARow'
    BY <1>3 DEF LedgerInv, LedgerTypeOK, ReserversHaveTheLock, SettlersHaveARow, LockAccount,
       InsertReservation, Settle, MayBegin, CommitSettlement, Rollback
  <2>4. ASSUME NEW b \in Attempts, txn'[b] = "inserted"
        PROVE  CommittedSegments + LedgerSegments[b] <= LedgerAllowance
    BY <1>3, <2>4 DEF LedgerInv, LedgerTypeOK, InsertedFits, LockAccount,
       InsertReservation, Settle, CommitSettlement, Rollback
  <2> QED
    BY <1>1, <2>2, <2>3, <2>4 DEF LedgerInv, InsertedFits
<1>4. CASE UNCHANGED ledgerVars
  BY <1>1, <1>4, NothingMoreStands DEF ledgerVars, LedgerInv, LedgerTypeOK, Standing,
     ReserversHaveTheLock, InsertedFits, SettlersHaveARow
<1> QED
  BY <1>2, <1>3, <1>4 DEF LedgerNext

(* However the transactions of any number of workers overlap, what is       *)
(* committed in a period stays within the allowance: reserve_sms_segments   *)
(* adds up and inserts under the lock of the account row.                   *)
THEOREM LedgerStaysWithinTheAllowance == LedgerSpec => []NeverOvercommitted
<1>1. LedgerInit => LedgerInv
  <2> SUFFICES ASSUME LedgerInit PROVE LedgerInv
    OBVIOUS
  <2>1. Standing = {}
    BY DEF LedgerInit, Standing
  <2>2. IsFiniteSet(Standing) /\ Units(Standing, LedgerSegments) = {}
    BY <2>1, FS_EmptySet DEF Units
  <2>3. CommittedSegments = 0
    BY <2>2, CommittedIsUnits, FS_EmptySet
  <2> QED
    BY <2>2, <2>3, LimitsAssumption DEF LedgerInit, LedgerInv, LedgerTypeOK, NeverOvercommitted,
       ReserversHaveTheLock, InsertedFits, SettlersHaveARow, TxnSteps, Outcomes
<1>2. LedgerInv /\ [LedgerNext]_ledgerVars => LedgerInv'
  BY LedgerStep
<1>3. LedgerInv => NeverOvercommitted
  BY DEF LedgerInv
<1> QED
  BY <1>1, <1>2, <1>3, PTL DEF LedgerSpec

-----------------------------------------------------------------------------
(* The meter is a dispatch *)

LEMMA MeterStepIsAStep ==
  ASSUME MeterNext
  PROVE  [Next]_vars
<1>1. ASSUME NEW w \in Workers, MeteredPrepare(w) \/ ReservationAnswerLost(w)
      PROVE  Next
  BY <1>1 DEF MeteredPrepare, ReservationAnswerLost, Next, WorkerStep
<1>2. ASSUME DispatchStep(Workers)
      PROVE  Next
  BY <1>2 DEF DispatchStep, UnmeteredStep, Next, WorkerStep
<1>3. CASE RollPeriod \/ BillingChanges
  BY <1>3 DEF RollPeriod, BillingChanges
<1> QED
  BY <1>1, <1>2, <1>3 DEF MeterNext, MeterStep, Dispatch

(* Metering only takes choices away: what is true of the delivery queue,    *)
(* with any answer of reserve_sms_segments, is true of it with the answers  *)
(* the ledger gives.                                                        *)
THEOREM MeteredDispatchIsDispatch == MeterSpec => Spec
<1>1. MeterInit => Init
  BY DEF MeterInit
<1>2. [MeterNext]_meterVars => [Next]_vars
  BY MeterStepIsAStep DEF meterVars
<1> QED
  BY <1>1, <1>2, PTL DEF MeterSpec, Spec

-----------------------------------------------------------------------------
(* What a step of the queue does to an outbox row *)

Kept(j) == outbox'[j] = outbox[j] /\ attemptCount'[j] = attemptCount[j]

Decided(j) ==
  /\ outbox[j] \in {"sending", "unknown"} /\ outbox'[j] \in {"accepted", "unknown", "failed"}
  /\ outbox'[j] # outbox[j] /\ attemptCount'[j] = attemptCount[j]

Launched(j) ==
  /\ outbox[j] \in {"none", "failed"} /\ outbox'[j] = "sending"
  /\ attemptCount'[j] = attemptCount[j] + 1

LEMMA OutboxMoves ==
  ASSUME IInv, Next, NEW j \in Jobs
  PROVE  Kept(j) \/ Decided(j) \/ Launched(j)
<1> USE DEF jobVars, dbVars, workerVars, providerVars
<1>1. TypeOK /\ WorkersTyped
  BY DEF IInv, TypeOK
<1>2. ASSUME NEW w \in Workers, NEW Q \in SUBSET Jobs, NEW S \in SUBSET Jobs, Claim(w, Q, S)
      PROVE  Kept(j) \/ Decided(j)
  BY <1>1, <1>2 DEF Claim, Abandoned, Kept, Decided
<1>3. ASSUME NEW w \in Workers, StartAttempt(w)
      PROVE  Kept(j) \/ Launched(j)
  <2>1. current[w] \in Jobs
    BY <1>1, <1>3 DEF StartAttempt, WorkersTyped, TypeOK
  <2>2. CASE j = current[w]
    BY <1>1, <1>3, <2>2 DEF StartAttempt, Unsendable, OutboxStatuses, TypeOK, Launched
  <2>3. CASE j # current[w]
    BY <1>1, <1>3, <2>1, <2>3 DEF StartAttempt, TypeOK, Kept
  <2> QED
    BY <2>2, <2>3
<1>4. ASSUME NEW w \in Workers, Hold(w) \/ Finish(w)
      PROVE  Kept(j) \/ Decided(j)
  <2>1. /\ current[w] \in Jobs /\ pc[w] \in InAttempt /\ HoldsLease(w, current[w])
        /\ Finish(w) => result[w] \in Results
    BY <1>1, <1>4 DEF Hold, Finish, InAttempt, WorkersTyped, TypeOK
  <2>2. outbox[current[w]] = "sending"
    BY <2>1 DEF IInv, WorkersAreRight, WorkerIsRight
  <2>3. attemptCount' = attemptCount
    BY <1>4 DEF Hold, Finish
  <2>4. \E res \in Results : outbox' = [outbox EXCEPT ![current[w]] = res]
    BY <1>4, <2>1 DEF Hold, Finish, Results
  <2> QED
    BY <1>1, <2>1, <2>2, <2>3, <2>4 DEF Results, Kept, Decided, TypeOK
<1>5. ASSUME NEW k \in Jobs, Resolve(k)
      PROVE  Kept(j) \/ Decided(j)
  BY <1>1, <1>5 DEF Resolve, Kept, Decided, TypeOK
<1>6. CASE UNCHANGED <<outbox, attemptCount>>
  BY <1>6 DEF Kept
<1>7. \/ \E w \in Workers, Q, S \in SUBSET Jobs : Claim(w, Q, S)
      \/ \E w \in Workers : StartAttempt(w) \/ Hold(w) \/ Finish(w)
      \/ \E k \in Jobs : Resolve(k)
      \/ UNCHANGED <<outbox, attemptCount>>
  BY DEF Next, WorkerStep, Authorize, Block, AuthorizeRaises, Defer, Abandon, PrepareFails,
     Prepare, HoldRaises, Send, Disconnect, Pause, Lift, BecomesDue, LeaseExpires, Crash
<1> QED
  BY <1>2, <1>3, <1>4, <1>5, <1>6, <1>7

-----------------------------------------------------------------------------
(* The reservations *)

ReservationRows == [status : ReservationStatuses, period : Periods] \cup {NoReservation}

(* A worker that is about to send an SMS has its segments reserved, ...     *)
SendersReserved ==
  \A w \in Workers : pc[w] = "send" /\ current[w] \in SmsJobs =>
    reservation[current[w]][attemptNo[w]].status # "none"

(* ... and so has what the provider got.                                    *)
TakenAreReserved ==
  \A j \in SmsJobs : \A n \in taken[j] : reservation[j][n].status # "none"

Adds == \A p \in Periods : IsFiniteSet(CountedIn(p)) /\ Committed(p) <= Allowance

MeterInv ==
  /\ IInv /\ MeterTypeOK /\ Adds /\ ReservationsFollowOutbox
  /\ SendersReserved /\ TakenAreReserved

SegmentsOfAttempt == [r \in SmsJobs \X AttemptNos |-> Segments[r[1]]]

LEMMA CommittedCounts ==
  ASSUME NEW p
  PROVE  Committed(p) = Cardinality(Units(CountedIn(p), SegmentsOfAttempt))
BY DEF Committed, Units, CountedIn, SegmentsOfAttempt

(* Where nothing is reserved, nothing more is committed. *)
LEMMA NothingMoreIsCounted ==
  ASSUME Adds, NEW p \in Periods, CountedIn(p)' \subseteq CountedIn(p)
  PROVE  IsFiniteSet(CountedIn(p)') /\ Committed(p)' <= Allowance
<1>1. IsFiniteSet(CountedIn(p)) /\ Committed(p) <= Allowance
  BY DEF Adds
<1>2. /\ IsFiniteSet(CountedIn(p)')
      /\ Cardinality(Units(CountedIn(p)', SegmentsOfAttempt))
           <= Cardinality(Units(CountedIn(p), SegmentsOfAttempt))
  BY <1>1, FewerUnits
<1>3. Committed(p)' = Cardinality(Units(CountedIn(p)', SegmentsOfAttempt))
  BY DEF Committed, Units, CountedIn, SegmentsOfAttempt
<1>4. Committed(p) \in Nat /\ Committed(p)' \in Nat
  BY <1>1, <1>2, <1>3, CommittedCounts, UnitsAreFinite
<1> QED
  BY <1>1, <1>2, <1>3, <1>4, CommittedCounts, AllowanceAssumption

(* reserve_sms_segments says yes: the segments fit, and the row is of the   *)
(* newest attempt, whose outbox is sending.                                 *)
LEMMA ReservingKeeps ==
  ASSUME MeterInv, NEW w \in Workers, NEW j, j = current[w], j \in SmsJobs, pc[w] = "prepare",
         HoldsLiveLease(w, j), MayReserve(j), Reserve(w, j),
         UNCHANGED <<period, outbox, attemptCount>>
  PROVE  /\ reservation' \in [SmsJobs -> [AttemptNos -> ReservationRows]]
         /\ Adds' /\ ReservationsFollowOutbox'
         /\ reservation'[j][attemptNo[w]].status # "none"
         /\ \A k \in SmsJobs, n \in AttemptNos :
              reservation[k][n].status # "none" => reservation'[k][n].status # "none"
<1> DEFINE n == attemptNo[w]
           new == [status |-> "reserved", period |-> period]
<1>1. /\ n \in AttemptNos /\ j \in Jobs /\ n = attemptCount[j] /\ outbox[j] = "sending"
      /\ reservation \in [SmsJobs -> [AttemptNos -> ReservationRows]] /\ period \in Periods
  BY JobsAssumption DEF MeterInv, MeterTypeOK, ReservationRows, IInv, TypeOK, WorkersTyped, InAttempt, WorkersAreRight,
     WorkerIsRight, HoldsLiveLease
<1>2. new \in ReservationRows
  BY <1>1 DEF ReservationRows, ReservationStatuses
<1>3. reservation' = [reservation EXCEPT ![j] = [reservation[j] EXCEPT ![n] = new]]
  BY <1>1 DEF Reserve
<1> HIDE DEF new
<1>4. reservation' \in [SmsJobs -> [AttemptNos -> ReservationRows]]
  BY <1>1, <1>2, <1>3
<1>5. ASSUME NEW k \in SmsJobs, NEW m \in AttemptNos
      PROVE  reservation'[k][m] = IF k = j /\ m = n THEN new ELSE reservation[k][m]
  BY <1>1, <1>3
<1>6. new.status = "reserved" /\ new.period = period
  BY DEF new
<1>7. ASSUME NEW p \in Periods
      PROVE  IsFiniteSet(CountedIn(p)') /\ Committed(p)' <= Allowance
  <2>1. CASE p # period
    <3>1. CountedIn(p)' \subseteq CountedIn(p)
      BY <1>5, <1>6, <2>1 DEF CountedIn
    <3> QED
      BY <3>1, NothingMoreIsCounted DEF MeterInv
  <2>2. CASE p = period
    <3>1. CountedIn(p)' \subseteq CountedIn(p) \cup {<<j, n>>}
      BY <1>5 DEF CountedIn
    <3>2. SegmentsOfAttempt[<<j, n>>] = Segments[j] /\ Segments[j] \in 1..20
      BY <1>1, SegmentsAssumption DEF SegmentsOfAttempt
    <3>3. IsFiniteSet(CountedIn(p))
      BY DEF MeterInv, Adds
    <3>4. /\ IsFiniteSet(CountedIn(p)')
          /\ Cardinality(Units(CountedIn(p)', SegmentsOfAttempt))
               <= Cardinality(Units(CountedIn(p), SegmentsOfAttempt)) + SegmentsOfAttempt[<<j, n>>]
      BY <3>1, <3>2, <3>3, OneMoreMessage
    <3>5. Committed(p)' = Cardinality(Units(CountedIn(p)', SegmentsOfAttempt))
      BY DEF Committed, Units, CountedIn, SegmentsOfAttempt
    <3>6. Committed(p) \in Nat /\ Committed(p)' \in Nat
      BY <3>3, <3>4, <3>5, CommittedCounts, UnitsAreFinite
    <3>7. Committed(p) + Segments[j] <= Allowance
      BY <2>2 DEF MayReserve
    <3> QED
      BY <3>2, <3>4, <3>5, <3>6, <3>7, CommittedCounts, AllowanceAssumption
  <2> QED
    BY <2>1, <2>2
<1>8. ReservationsFollowOutbox'
  <2> SUFFICES ASSUME NEW k \in SmsJobs, NEW m \in AttemptNos
               PROVE  LET status == reservation'[k][m].status IN
                 /\ m > attemptCount[k] => status = "none"
                 /\ m < attemptCount[k] => status \in {"none", "released"}
                 /\ m = attemptCount[k] =>
                      /\ status = "reserved" => outbox[k] = "sending"
                      /\ status = "unknown" => outbox[k] = "unknown"
                      /\ status = "accepted" => outbox[k] = "accepted"
                      /\ status = "released" => outbox[k] = "failed"
    BY DEF ReservationsFollowOutbox
  <2>1. CASE k = j /\ m = n
    <3>1. reservation'[k][m].status = "reserved"
      BY <1>5, <1>6, <2>1
    <3> QED
      BY <1>1, <2>1, <3>1 DEF AttemptNos
  <2>2. CASE ~(k = j /\ m = n)
    <3>1. reservation'[k][m] = reservation[k][m]
      BY <1>5, <2>2
    <3> QED
      BY <3>1 DEF MeterInv, ReservationsFollowOutbox
  <2> QED
    BY <2>1, <2>2
<1> QED
  BY <1>1, <1>4, <1>5, <1>6, <1>7, <1>8 DEF Adds, Periods

LEMMA SettlementType ==
  ASSUME NEW kept \in ReservationRows, NEW status \in {"accepted", "unknown", "failed"}
  PROVE  /\ Settled(kept, status) \in ReservationRows
         /\ Settled(kept, status).period = kept.period
         /\ Settled(kept, status).status =
              IF kept.status \in {"reserved", "unknown"} THEN Settlement(status) ELSE kept.status
BY DEF Settled, Settlement, ReservationRows, ReservationStatuses, NoReservation

(* The trigger settles what the outbox decides, so that the rows follow it, *)
(* and takes no more segments.                                              *)
LEMMA SettlingKeeps ==
  ASSUME MeterInv, Next, SyncReservations, UNCHANGED period
  PROVE  /\ reservation' \in [SmsJobs -> [AttemptNos -> ReservationRows]]
         /\ Adds' /\ ReservationsFollowOutbox'
         /\ \A j \in SmsJobs, n \in AttemptNos :
              reservation[j][n].status # "none" <=> reservation'[j][n].status # "none"
<1>1. reservation \in [SmsJobs -> [AttemptNos -> ReservationRows]]
  BY DEF MeterInv, MeterTypeOK, ReservationRows
<1>2. ASSUME NEW j \in SmsJobs
      PROVE  /\ Kept(j) \/ Launched(j) => reservation'[j] = reservation[j]
             /\ Decided(j) => reservation'[j] =
                  [n \in AttemptNos |-> Settled(reservation[j][n], outbox'[j])]
  BY <1>1 DEF SyncReservations, Kept, Launched, Decided
<1>3. ASSUME NEW j \in SmsJobs
      PROVE  Kept(j) \/ Decided(j) \/ Launched(j)
  BY OutboxMoves, JobsAssumption DEF MeterInv
<1>4. ASSUME NEW j \in SmsJobs, NEW n \in AttemptNos
      PROVE  /\ reservation'[j][n] \in ReservationRows
             /\ reservation'[j][n].period = reservation[j][n].period
             /\ reservation'[j][n].status =
                  IF Decided(j) /\ reservation[j][n].status \in {"reserved", "unknown"}
                  THEN Settlement(outbox'[j]) ELSE reservation[j][n].status
  <2>1. reservation[j][n] \in ReservationRows
    BY <1>1
  <2>2. CASE Decided(j)
    <3>1. outbox'[j] \in {"accepted", "unknown", "failed"}
      BY <2>2 DEF Decided
    <3>2. reservation'[j][n] = Settled(reservation[j][n], outbox'[j])
      BY <1>2, <2>2
    <3> QED
      BY <2>1, <2>2, <3>1, <3>2, SettlementType
  <2>3. CASE ~Decided(j)
    BY <1>2, <1>3, <2>1, <2>3
  <2> QED
    BY <2>2, <2>3
<1>5. reservation' \in [SmsJobs -> [AttemptNos -> ReservationRows]]
  <2>1. reservation' = [j \in SmsJobs |-> reservation'[j]]
    BY DEF SyncReservations
  <2>2. ASSUME NEW j \in SmsJobs PROVE reservation'[j] = [n \in AttemptNos |-> reservation'[j][n]]
    BY <1>1, <1>2, <1>3
  <2> QED
    BY <1>4, <2>1, <2>2
<1>6. ASSUME NEW p \in Periods
      PROVE  IsFiniteSet(CountedIn(p)') /\ Committed(p)' <= Allowance
  <2>1. ASSUME NEW j \in SmsJobs, NEW n \in AttemptNos, reservation'[j][n].status \in Counted
        PROVE  reservation[j][n].status \in Counted
    BY <1>4, <2>1 DEF Counted
  <2>2. CountedIn(p)' \subseteq CountedIn(p)
    BY <1>4, <2>1 DEF CountedIn
  <2> QED
    BY <2>2, NothingMoreIsCounted DEF MeterInv
<1>7. ReservationsFollowOutbox'
  <2> SUFFICES ASSUME NEW j \in SmsJobs, NEW n \in AttemptNos
               PROVE  LET status == reservation'[j][n].status IN
                 /\ n > attemptCount'[j] => status = "none"
                 /\ n < attemptCount'[j] => status \in {"none", "released"}
                 /\ n = attemptCount'[j] =>
                      /\ status = "reserved" => outbox'[j] = "sending"
                      /\ status = "unknown" => outbox'[j] = "unknown"
                      /\ status = "accepted" => outbox'[j] = "accepted"
                      /\ status = "released" => outbox'[j] = "failed"
    BY DEF ReservationsFollowOutbox
  <2> DEFINE old == reservation[j][n].status
             new == reservation'[j][n].status
  <2>1. /\ n > attemptCount[j] => old = "none"
        /\ n < attemptCount[j] => old \in {"none", "released"}
        /\ n = attemptCount[j] =>
             /\ old = "reserved" => outbox[j] = "sending"
             /\ old = "unknown" => outbox[j] = "unknown"
             /\ old = "accepted" => outbox[j] = "accepted"
             /\ old = "released" => outbox[j] = "failed"
    BY DEF MeterInv, ReservationsFollowOutbox
  <2>2. old \in {"none", "reserved", "accepted", "unknown", "released"}
    BY <1>1 DEF ReservationRows, ReservationStatuses, NoReservation
  <2>3. n \in Nat /\ attemptCount[j] \in Nat
    BY JobsAssumption DEF MeterInv, IInv, TypeOK, AttemptNos
  <2>4. new = IF Decided(j) /\ old \in {"reserved", "unknown"} THEN Settlement(outbox'[j]) ELSE old
    BY <1>4
  <2> HIDE DEF old, new
  <2>5. CASE Kept(j)
    <3>1. new = old
      BY <2>4, <2>5 DEF Kept, Decided
    <3> QED
      BY <2>1, <2>5, <3>1 DEF Kept, new
  <2>6. CASE Launched(j)
    <3>1. new = old
      BY <2>4, <2>6 DEF Launched, Decided
    <3>2. n <= attemptCount[j] => old \in {"none", "released"}
      BY <2>1, <2>2, <2>3, <2>6 DEF Launched
    <3> QED
      BY <2>1, <2>3, <2>6, <3>1, <3>2 DEF Launched, new
  <2>7. CASE Decided(j)
    BY <2>1, <2>2, <2>3, <2>4, <2>7 DEF Decided, Settlement, new
  <2> QED
    BY <1>3, <2>5, <2>6, <2>7
<1>8. ASSUME NEW j \in SmsJobs, NEW n \in AttemptNos
      PROVE  reservation[j][n].status # "none" <=> reservation'[j][n].status # "none"
  BY <1>4 DEF Settlement, Decided
<1> QED
  BY <1>5, <1>6, <1>7, <1>8 DEF Adds, Periods

(* A worker sends an SMS only after it has reserved, and no step takes a    *)
(* reservation back.                                                        *)
LEMMA SendingIsReserved ==
  ASSUME MeterInv, MeterNext,
         \A j \in SmsJobs, n \in AttemptNos :
           reservation[j][n].status # "none" => reservation'[j][n].status # "none",
         \A w \in Workers : MeteredPrepare(w) /\ pc'[w] = "send" /\ current[w] \in SmsJobs =>
           reservation'[current[w]][attemptNo[w]].status # "none"
  PROVE  SendersReserved' /\ TakenAreReserved'
<1> USE DEF jobVars, dbVars, workerVars, providerVars, GoTo, NextJob
<1>1. TypeOK /\ WorkersTyped
  BY DEF MeterInv, IInv, TypeOK
<1>2. ASSUME NEW w \in Workers, pc'[w] = "send"
      PROVE  /\ current'[w] = current[w] /\ attemptNo'[w] = attemptNo[w]
             /\ pc[w] = "send" \/ MeteredPrepare(w)
  <2>1. ASSUME NEW v \in Workers, MeteredPrepare(v)
        PROVE  /\ current' = current /\ attemptNo' = attemptNo
               /\ v = w \/ pc'[w] = pc[w]
    BY <1>1, <2>1 DEF MeteredPrepare, Prepare, TypeOK
  <2>2. ASSUME NEW v \in Workers, ReservationAnswerLost(v)
        PROVE  current' = current /\ attemptNo' = attemptNo /\ pc[w] = "send"
    BY <1>1, <1>2, <2>2 DEF ReservationAnswerLost, PrepareFails, TypeOK
  <2>3. ASSUME NEW v \in Workers, UnmeteredStep(v) 
        PROVE  current'[w] = current[w] /\ attemptNo'[w] = attemptNo[w] /\ pc[w] = "send"
    BY <1>1, <1>2, <2>3 DEF UnmeteredStep, Authorize, Block, AuthorizeRaises, Defer, StartAttempt,
       Abandon, PrepareFails, Hold, HoldRaises, Send, Finish, Crash, TypeOK
  <2>4. ASSUME \/ \E v \in Workers, Q, S \in SUBSET Jobs : Claim(v, Q, S)
               \/ \E j \in Jobs : Resolve(j) \/ BecomesDue(j) \/ LeaseExpires(j)
               \/ RollPeriod \/ BillingChanges
        PROVE  UNCHANGED <<pc, current, attemptNo>>
    BY <2>4 DEF Claim, Resolve, BecomesDue, LeaseExpires, RollPeriod, BillingChanges, vars
  <2> QED
    BY <1>2, <2>1, <2>2, <2>3, <2>4 DEF MeterNext, MeterStep, Dispatch, DispatchStep
<1>3. ASSUME NEW j \in Jobs, NEW n \in taken'[j], n \notin taken[j]
      PROVE  \E w \in Workers : pc[w] = "send" /\ j = current[w] /\ n = attemptNo[w]
  <2>1. ASSUME NEW v \in Workers, NEW response \in Responses, NEW reached \in BOOLEAN,
               Send(v, response, reached)
        PROVE  pc[v] = "send" /\ j = current[v] /\ n = attemptNo[v]
    BY <1>1, <1>3, <2>1 DEF Send, TypeOK
  <2>2. \/ \E v \in Workers, response \in Responses, reached \in BOOLEAN : Send(v, response, reached)
        \/ UNCHANGED taken
    BY DEF MeterNext, MeterStep, Dispatch, DispatchStep, UnmeteredStep, MeteredPrepare, Prepare,
       ReservationAnswerLost, Authorize, Block, AuthorizeRaises, Defer, StartAttempt, Abandon,
       PrepareFails, Hold, HoldRaises, Finish, Crash, Claim, Resolve, BecomesDue, LeaseExpires,
       RollPeriod, BillingChanges, vars
  <2> QED
    BY <1>3, <2>1, <2>2
<1>4. ASSUME NEW w \in Workers, pc[w] = "send"
      PROVE  attemptNo[w] \in AttemptNos
  BY <1>1, <1>4 DEF WorkersTyped, InAttempt
<1>5. SendersReserved'
  <2> SUFFICES ASSUME NEW w \in Workers, pc'[w] = "send", current'[w] \in SmsJobs
               PROVE  reservation'[current[w]][attemptNo[w]].status # "none"
    BY <1>2 DEF SendersReserved
  <2>1. CASE pc[w] = "send"
    BY <1>2, <1>4, <2>1 DEF MeterInv, SendersReserved
  <2> QED
    BY <1>2, <2>1
<1>6. TakenAreReserved'
  <2> SUFFICES ASSUME NEW j \in SmsJobs, NEW n \in taken'[j]
               PROVE  reservation'[j][n].status # "none"
    BY DEF TakenAreReserved
  <2>1. CASE n \in taken[j]
    <3>1. n \in AttemptNos
      BY <1>1, <2>1, JobsAssumption DEF TypeOK
    <3> QED
      BY <2>1, <3>1 DEF MeterInv, TakenAreReserved
  <2>2. CASE n \notin taken[j]
    BY <1>3, <1>4, <2>2, JobsAssumption DEF MeterInv, SendersReserved
  <2> QED
    BY <2>1, <2>2
<1> QED
  BY <1>5, <1>6

(* No step of the metered queue breaks the invariant. *)
LEMMA MeterKeeps ==
  ASSUME MeterInv, [MeterNext]_meterVars
  PROVE  MeterInv'
<1> DEFINE Rows == reservation' \in [SmsJobs -> [AttemptNos -> ReservationRows]]
           RowsStay == \A k \in SmsJobs, n \in AttemptNos :
             reservation[k][n].status # "none" => reservation'[k][n].status # "none"
           Reserves == \A w \in Workers :
             MeteredPrepare(w) /\ pc'[w] = "send" /\ current[w] \in SmsJobs =>
               reservation'[current[w]][attemptNo[w]].status # "none"
           Good == Rows /\ Adds' /\ ReservationsFollowOutbox'
<1>1. IInv' /\ TypeOK'
  <2>1. [Next]_vars
    BY MeterStepIsAStep DEF meterVars
  <2>2. IInv'
    BY <2>1, InvStep DEF MeterInv
  <2> QED
    BY <2>2 DEF IInv
<1>2. /\ reservation \in [SmsJobs -> [AttemptNos -> ReservationRows]]
      /\ period \in Periods /\ billed \in BOOLEAN
  BY DEF MeterInv, MeterTypeOK, ReservationRows
<1>3. ASSUME UNCHANGED <<reservation, outbox, attemptCount>>
      PROVE  Good /\ RowsStay
  <2>1. Adds'
    BY <1>3 DEF MeterInv, Adds, Committed, CountedIn, Periods
  <2>2. ReservationsFollowOutbox'
    BY <1>3 DEF MeterInv, ReservationsFollowOutbox
  <2> QED
    BY <1>2, <1>3, <2>1, <2>2
<1>4. ASSUME NEW w \in Workers, MeteredPrepare(w) \/ ReservationAnswerLost(w)
      PROVE  Good /\ RowsStay /\ Reserves
  <2>1. /\ pc[w] = "prepare" /\ UNCHANGED <<period, billed, outbox, attemptCount>>
        /\ UNCHANGED <<current, attemptNo>>
    BY <1>4 DEF MeteredPrepare, ReservationAnswerLost, Prepare, PrepareFails, dbVars, jobVars,
       accountVars
  <2>2. CASE UNCHANGED reservation
    <3>1. ASSUME NEW v \in Workers, MeteredPrepare(v), pc'[v] = "send", current[v] \in SmsJobs
          PROVE  MayReserve(current[v]) /\ Reserve(v, current[v]) /\ HoldsLiveLease(v, current[v])
                 /\ pc[v] = "prepare"
      BY <3>1 DEF MeteredPrepare, Prepare
    <3>2. Reserves
      BY <2>1, <3>1, ReservingKeeps
    <3> QED
      BY <1>3, <2>1, <2>2, <3>2
  <2>3. CASE ~UNCHANGED reservation
    <3>1. /\ current[w] \in SmsJobs /\ HoldsLiveLease(w, current[w])
          /\ MayReserve(current[w]) /\ Reserve(w, current[w])
      BY <1>4, <2>3 DEF MeteredPrepare, ReservationAnswerLost, Prepare
    <3>2. Good /\ RowsStay
      BY <2>1, <3>1, ReservingKeeps
    <3>3. ASSUME NEW v \in Workers, MeteredPrepare(v), pc'[v] = "send", current[v] \in SmsJobs
          PROVE  MayReserve(current[v]) /\ Reserve(v, current[v]) /\ HoldsLiveLease(v, current[v])
                 /\ pc[v] = "prepare"
      BY <3>3 DEF MeteredPrepare, Prepare
    <3>4. Reserves
      BY <2>1, <3>3, ReservingKeeps
    <3> QED
      BY <3>2, <3>4
  <2> QED
    BY <2>2, <2>3
<1>5. ASSUME Dispatch(Workers)
      PROVE  Good /\ RowsStay
  <2>1. Next
    BY <1>5 DEF Dispatch, DispatchStep, UnmeteredStep, Next, WorkerStep
  <2> QED
    BY <1>5, <2>1, SettlingKeeps DEF Dispatch, accountVars
<1>6. ASSUME RollPeriod \/ BillingChanges
      PROVE  Good /\ RowsStay
  BY <1>3, <1>6 DEF RollPeriod, BillingChanges, vars
<1>7. Good /\ (MeterNext => RowsStay /\ Reserves)
  <2>1. CASE \E w \in Workers : MeteredPrepare(w) \/ ReservationAnswerLost(w)
    BY <1>4, <2>1
  <2>2. CASE ~\E w \in Workers : MeteredPrepare(w) \/ ReservationAnswerLost(w)
    <3>1. Reserves
      BY <2>2
    <3> QED
      BY <1>3, <1>5, <1>6, <2>2, <3>1 DEF MeterNext, MeterStep, meterVars, vars
  <2> QED
    BY <2>1, <2>2
<1>8. period' \in Periods /\ billed' \in BOOLEAN
  <2>1. CASE RollPeriod
    BY <1>2, <2>1, AllowanceAssumption DEF RollPeriod, Periods
  <2>2. CASE BillingChanges
    BY <1>2, <2>2 DEF BillingChanges
  <2>3. RollPeriod \/ BillingChanges \/ UNCHANGED <<period, billed>>
    BY DEF MeterNext, MeterStep, MeteredPrepare, ReservationAnswerLost, Dispatch, accountVars,
       meterVars
  <2> QED
    BY <1>2, <2>1, <2>2, <2>3
<1>9. SendersReserved' /\ TakenAreReserved'
  <2>1. CASE MeterNext
    BY <1>7, <2>1, SendingIsReserved
  <2>2. CASE UNCHANGED meterVars
    BY <2>2 DEF MeterInv, SendersReserved, TakenAreReserved, meterVars, vars
  <2> QED
    BY <2>1, <2>2
<1> QED
  BY <1>1, <1>7, <1>8, <1>9 DEF MeterInv, MeterTypeOK, ReservationRows, Periods

-----------------------------------------------------------------------------
(* The theorems of the meter. *)

(* The inductive invariant holds in every state the metered queue reaches.  *)
THEOREM MeterInvariant == MeterSpec => []MeterInv
<1>1. MeterInit => MeterInv
  <2> SUFFICES ASSUME MeterInit PROVE MeterInv
    OBVIOUS
  <2>1. IInv
    BY InitInv DEF MeterInit
  <2>2. ASSUME NEW p \in Periods PROVE CountedIn(p) = {}
    BY <2>2 DEF MeterInit, CountedIn, NoReservation, Counted
  <2>3. ASSUME NEW p \in Periods PROVE IsFiniteSet(CountedIn(p)) /\ Committed(p) <= Allowance
    <3>1. CountedIn(p) = {} /\ Units(CountedIn(p), SegmentsOfAttempt) = {}
      BY <2>2 DEF Units
    <3>2. IsFiniteSet(CountedIn(p)) /\ Committed(p) = 0
      BY <3>1, CommittedCounts, FS_EmptySet
    <3> QED
      BY <3>2, AllowanceAssumption
  <2>4. MeterTypeOK
    BY <2>1, AllowanceAssumption DEF MeterInit, MeterTypeOK, IInv, Periods
  <2>5. ReservationsFollowOutbox /\ SendersReserved /\ TakenAreReserved
    BY JobsAssumption DEF MeterInit, Init, NoReservation, ReservationsFollowOutbox, SendersReserved,
       TakenAreReserved, AttemptNos
  <2> QED
    BY <2>1, <2>3, <2>4, <2>5 DEF MeterInv, Adds
<1>2. MeterInv /\ [MeterNext]_meterVars => MeterInv'
  BY MeterKeeps
<1> QED
  BY <1>1, <1>2, PTL DEF MeterSpec

(* Whatever fails, is retried, is reconciled late or crosses the end of a   *)
(* period, no period is ever committed beyond its allowance.                *)
THEOREM AllowanceIsKept == MeterSpec => []WithinAllowance
<1>1. MeterInv => WithinAllowance
  BY DEF MeterInv, Adds, WithinAllowance
<1> QED
  BY <1>1, MeterInvariant, PTL

(* The trigger keeps the reservations of a message in step with its outbox, *)
(* so only its newest attempt can be charged.                               *)
THEOREM ReservationsFollow == MeterSpec => []ReservationsFollowOutbox
<1>1. MeterInv => ReservationsFollowOutbox
  BY DEF MeterInv
<1> QED
  BY <1>1, MeterInvariant, PTL

(* What the provider has got in time and answered as expected is charged:   *)
(* it was reserved before it was sent, and what is in doubt or accepted is  *)
(* never released.                                                          *)
THEOREM DeliveryIsCharged == MeterSpec => []DeliveredIsCharged
<1>1. MeterInv => DeliveredIsCharged
  <2> SUFFICES ASSUME MeterInv, NEW j \in SmsJobs, NEW n \in InOrder(j)
               PROVE  reservation[j][n].status \in Counted
    BY DEF DeliveredIsCharged
  <2>1. n = attemptCount[j] /\ outbox[j] \in {"sending", "accepted", "unknown"}
    BY JobsAssumption DEF MeterInv, IInv, ProviderAgrees, ProviderAgreesOn
  <2>2. n \in AttemptNos
    BY JobsAssumption DEF MeterInv, IInv, TypeOK, InOrder
  <2>3. reservation[j][n].status \in ReservationStatuses \cup {"none"}
    BY <2>2 DEF MeterInv, MeterTypeOK, NoReservation
  <2>4. reservation[j][n].status \notin {"none", "released"}
    BY <2>1, <2>2 DEF MeterInv, TakenAreReserved, ReservationsFollowOutbox, InOrder
  <2> QED
    BY <2>3, <2>4 DEF ReservationStatuses, Counted
<1> QED
  BY <1>1, MeterInvariant, PTL

(* The promises of the queue, of the metered queue. *)
THEOREM MeteredDeliversOnce ==
  MeterSpec => []DeliveredOnceUnderLease /\ FencedByLease
BY MeteredDispatchIsDispatch, NoDuplicateDelivery, LeasesFence, PTL

=============================================================================
