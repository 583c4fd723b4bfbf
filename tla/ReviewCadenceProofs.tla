------------------------ MODULE ReviewCadenceProofs -------------------------
(* How review requests are paced, for any requests, places, policies and    *)
(* length of time.                                                          *)
EXTENDS ReviewCadence, FiniteSetTheorems, WellFoundedInduction, TLAPS

-----------------------------------------------------------------------------
(* The inductive invariant: what keeps the two promises to the business.   *)

Status(m) == jobOf[m[1]][m[2]]

(* A request without a row has no jobs, and none beyond its last message. *)
JobsAreOfRequests ==
  \A r \in Requests, s \in Sequences : jobOf[r][s] # "none" =>
    request[r] # "none" /\ s <= MaxMessages[r]

(* The gap is kept from the decision on, whatever comes of the attempt. *)
GapSinceDecision ==
  \A r \in Requests, s \in Sequences :
    /\ jobOf[r][s] \in {"deciding", "sending", "unknown", "completed"}
    /\ s > 1
    => attemptAt[r][s] >= completedAt[r][s - 1] + Gap

(* A disconnect cancels jobs of its own location only. *)
DoomedAreThere == \A r \in doomed : LocationOf[r] = disconnecting

ProgressInv ==
  /\ TypeOK
  /\ JobsAreOfRequests
  /\ OneMessageAtATime
  /\ GapSinceDecision
  /\ DoomedAreThere
  /\ LiveRequestsHaveWork

(* The other requests the customer of r has heard from since t. *)
HeardSince(r, t) ==
  {q \in Requests \ {r} :
     /\ DestinationOf[q] = DestinationOf[r]
     /\ \E s \in Sequences : Surely(<<q, s>>) /\ attemptAt[q][s] >= t - Window}

Known == {r \in Requests : request[r] # "none"}

(* An outcome that is unknown is a doubt for good. *)
UnknownIsDoubted == \A m \in Messages : Status(m) = "unknown" => m \in doubted

(* The advisory lock of a location is held by one decision. *)
OneDecision ==
  \A m, n \in Messages :
    /\ Status(m) = "deciding" /\ Status(n) = "deciding"
    /\ LocationOf[m[1]] = LocationOf[n[1]]
    => m = n

(* What the evaluation found is still so when the decision commits. *)
DecisionStands ==
  \A m \in Messages : Status(m) = "deciding" =>
    Cardinality(HeardSince(m[1], AttemptAt(m))) < FrequencyMax

CapInv ==
  /\ IsFiniteSet(Known)
  /\ UnknownIsDoubted
  /\ OneDecision
  /\ DecisionStands
  /\ DestinationCapKept

-----------------------------------------------------------------------------
(* Facts about the numbers of messages and about times. *)

(* A set of numbers that is not empty has a least one. *)
LEMMA LeastNumber ==
  ASSUME NEW S \in SUBSET Nat, S # {}
  PROVE  Min(S) \in S /\ \A y \in S : Min(S) <= y
<1> DEFINE R == {p \in Nat \X Nat : p[1] < p[2]}
<1>1. IsWellFoundedOn(R, Nat)
  BY NatLessThanWellFounded, Zenon DEF OpToRel
<1>2. PICK x \in S : \A y \in S : ~(<<y, x>> \in R)
  <2> HIDE DEF R
  <2> QED BY <1>1, WFMin
<1>3. \A i, j \in Nat : i < j => <<i, j>> \in R
  OBVIOUS
<1>4. ASSUME NEW y \in S PROVE x <= y
  <2> HIDE DEF R
  <2>1. ~(y < x)
    BY <1>2, <1>3
  <2> QED
    BY <2>1
<1> QED
  BY <1>2, <1>4 DEF Min

(* The lesser of two numbers. *)
LEMMA LesserOfTwo ==
  ASSUME NEW a \in Nat, NEW b \in Nat
  PROVE  /\ Min({a, b}) \in Nat
         /\ b <= a => Min({a, b}) = b
         /\ Min({a, b}) <= a
<1>1. /\ Min({a, b}) \in {a, b}
      /\ \A y \in {a, b} : Min({a, b}) <= y
  BY LeastNumber
<1> QED
  BY <1>1

(* The window opens again, after the last closed instant if not before. *)
LEMMA PermittedIsATime ==
  ASSUME NEW t \in Nat
  PROVE  NextPermitted(t) \in Nat
<1>1. t + Horizon + 1 \in {u \in t..(t + Horizon + 1) : u \notin Closed}
  BY LimitsAssumption
<1> DEFINE U == {u \in t..(t + Horizon + 1) : u \notin Closed}
<1>2. U \in SUBSET Nat
  BY LimitsAssumption
<1>3. Min(U) \in U
  <2> HIDE DEF U
  <2> QED BY <1>1, <1>2, LeastNumber DEF U
<1> QED
  BY <1>2, <1>3 DEF NextPermitted

(* The messages of a request have the numbers from one to its last. *)
LEMMA SequencesAre ==
  ASSUME NEW r \in Requests
  PROVE  /\ Sequences \subseteq 1..3
         /\ MaxMessages[r] \in Sequences
         /\ \A s \in Sequences : \A i \in 1..s : i \in Sequences
         /\ IsFiniteSet(Sequences)
<1> DEFINE M == {MaxMessages[q] : q \in Requests}
<1>1. /\ \A j \in M : j \in {1, 2, 3}
      /\ MaxMessages[r] \in M
  BY LimitsAssumption
<1>2. \E k \in M : \A j \in M : k >= j
  <2> HIDE DEF M
  <2>1. CASE 3 \in M
    BY <1>1, <2>1
  <2>2. CASE 3 \notin M /\ 2 \in M
    BY <1>1, <2>2
  <2>3. CASE 3 \notin M /\ 2 \notin M
    <3>1. \A j \in M : j = 1
      BY <1>1, <2>3
    <3>2. 1 \in M
      BY <1>1, <3>1
    <3> QED
      BY <3>1, <3>2
  <2> QED
    BY <2>1, <2>2, <2>3
<1>3. Max(M) \in M /\ \A j \in M : Max(M) >= j
  <2> HIDE DEF M
  <2> QED BY <1>2 DEF Max
<1>4. Sequences = 1..Max(M)
  BY DEF Sequences
<1>5. Max(M) \in 1..3 /\ MaxMessages[r] \in 1..Max(M)
  <2> HIDE DEF M
  <2>1. /\ Max(M) \in {1, 2, 3}
        /\ MaxMessages[r] \in {1, 2, 3}
        /\ Max(M) >= MaxMessages[r]
    BY <1>1, <1>3
  <2> QED BY <2>1
<1>6. IsFiniteSet(1..Max(M))
  <2> HIDE DEF M
  <2>1. 1 \in Int /\ Max(M) \in Int
    BY <1>5
  <2> QED BY <2>1, FS_Interval, Zenon
<1> HIDE DEF M
<1>7. Sequences \subseteq 1..3 /\ \A s \in Sequences : \A i \in 1..s : i \in Sequences
  BY <1>4, <1>5
<1> QED
  BY <1>4, <1>5, <1>6, <1>7

(* A statement bears a time that has been. *)
LEMMA BeganIsPast ==
  ASSUME TypeOK, NEW t \in Began
  PROVE  t \in 0..now /\ t \in 0..Horizon /\ t \in Nat
BY LimitsAssumption DEF TypeOK, Began

-----------------------------------------------------------------------------
(* Every column keeps its type. *)

LEMMA JobBecomes ==
  ASSUME TypeOK, NEW r \in Requests, NEW s \in Sequences, NEW status \in JobStates,
         Becomes(r, s, status)
  PROVE  /\ jobOf' \in [Requests -> [Sequences -> JobStates]]
         /\ \A q \in Requests, u \in Sequences :
              jobOf'[q][u] = IF q = r /\ u = s THEN status ELSE jobOf[q][u]
BY DEF TypeOK, Becomes

(* What the completion of a message writes. *)
LEMMA CompletionWrites ==
  ASSUME TypeOK, NEW r \in Requests, NEW s \in Sequences, Complete(r, s)
  PROVE  /\ jobOf' \in [Requests -> [Sequences -> JobStates]]
         /\ completedAt' \in [Requests -> [Sequences -> 0..Horizon]]
         /\ sentCount' \in [Requests -> 0..3]
         /\ request' \in [Requests -> {"none", "scheduled", "active", "blocked"}]
         /\ nextSend' \in [Requests -> Nat]
         /\ \A q \in Requests, u \in Sequences :
              /\ jobOf'[q][u] = IF q = r /\ u = s THEN "completed"
                                ELSE IF q = r /\ u = s + 1 /\ HasFollowUp(r) THEN "queued"
                                ELSE jobOf[q][u]
              /\ completedAt'[q][u] = IF q = r /\ u = s THEN now ELSE completedAt[q][u]
         /\ \A q \in Requests :
              /\ q # r => sentCount'[q] = sentCount[q] /\ request'[q] = request[q]
              /\ request'[q] = "none" <=> request[q] = "none"
              /\ request'[q] \in Live <=> request[q] \in Live
         /\ sentCount'[r] = Min({MaxMessages[r], sentCount[r] + 1})
<1>1. jobOf' \in [Requests -> [Sequences -> JobStates]]
  BY DEF TypeOK, Complete, JobStates
<1>2. completedAt' \in [Requests -> [Sequences -> 0..Horizon]]
  BY DEF TypeOK, Complete
<1>3. MaxMessages[r] \in 1..3 /\ sentCount[r] \in 0..3
  BY LimitsAssumption DEF TypeOK
<1>4. Min({MaxMessages[r], sentCount[r] + 1}) \in 0..3
  <2>1. /\ Min({MaxMessages[r], sentCount[r] + 1}) \in Nat
        /\ Min({MaxMessages[r], sentCount[r] + 1}) <= MaxMessages[r]
    BY <1>3, LesserOfTwo
  <2> QED
    BY <1>3, <2>1
<1>5. sentCount' \in [Requests -> 0..3]
  BY <1>4 DEF TypeOK, Complete
<1>6. request' \in [Requests -> {"none", "scheduled", "active", "blocked"}]
  BY DEF TypeOK, Complete
<1>7. nextSend' \in [Requests -> Nat]
  <2>1. now + Gap \in Nat
    BY LimitsAssumption DEF TypeOK
  <2>2. FollowUpAt \in Nat
    BY <2>1, PermittedIsATime DEF FollowUpAt
  <2> QED
    BY <2>2 DEF TypeOK, Complete
<1>8. \A q \in Requests, u \in Sequences :
        /\ jobOf'[q][u] = IF q = r /\ u = s THEN "completed"
                          ELSE IF q = r /\ u = s + 1 /\ HasFollowUp(r) THEN "queued"
                          ELSE jobOf[q][u]
        /\ completedAt'[q][u] = IF q = r /\ u = s THEN now ELSE completedAt[q][u]
  BY DEF TypeOK, Complete
<1>9. \A q \in Requests :
        /\ q # r => sentCount'[q] = sentCount[q] /\ request'[q] = request[q]
        /\ request'[q] = "none" <=> request[q] = "none"
        /\ request'[q] \in Live <=> request[q] \in Live
  BY DEF TypeOK, Complete, Live
<1>10. sentCount'[r] = Min({MaxMessages[r], sentCount[r] + 1})
  BY DEF TypeOK, Complete
<1> QED
  BY <1>1, <1>2, <1>5, <1>6, <1>7, <1>8, <1>9, <1>10

LEMMA TypeKept ==
  ASSUME TypeOK, [Next]_vars
  PROVE  TypeOK'
<1>1. ASSUME NEW r \in Requests, Create(r) PROVE TypeOK'
  <2>1. now + PayloadLife \in Nat /\ now \in Nat
    BY LimitsAssumption DEF TypeOK
  <2>2. NextPermitted(now) \in Nat
    BY <2>1, PermittedIsATime
  <2>3. 1 \in Sequences
    BY SequencesAre
  <2>4. jobOf' \in [Requests -> [Sequences -> JobStates]]
    BY <1>1, <2>3, JobBecomes DEF Create, JobStates, TypeOK
  <2>5. /\ request' \in [Requests -> {"none", "scheduled", "active", "blocked"}]
        /\ nextSend' \in [Requests -> Nat]
        /\ expires' \in [Requests -> Nat]
    BY <1>1, <2>1, <2>2 DEF Create, TypeOK
  <2> QED
    BY <1>1, <2>4, <2>5 DEF Create, TypeOK, worldVars
<1>2. ASSUME NEW r \in Requests, NEW s \in Sequences,
             Block(r, s) \/ BeginAttempt(r, s) \/ CommitAttempt(r, s)
               \/ AbortAttempt(r, s) \/ LoseOutcome(r, s)
      PROVE  TypeOK'
  <2>1. CASE Block(r, s)
    <3>1. jobOf' \in [Requests -> [Sequences -> JobStates]]
      BY <2>1, JobBecomes DEF Block, JobStates
    <3>2. /\ request' \in [Requests -> {"none", "scheduled", "active", "blocked"}]
          /\ nextSend' \in [Requests -> Nat]
      BY <2>1 DEF Block, TypeOK
    <3> QED
      BY <2>1, <3>1, <3>2 DEF Block, TypeOK, worldVars
  <2>2. CASE BeginAttempt(r, s)
    <3>1. jobOf' \in [Requests -> [Sequences -> JobStates]]
      BY <2>2, JobBecomes DEF BeginAttempt, JobStates
    <3>2. PICK t \in Began : attemptAt' = [attemptAt EXCEPT ![r][s] = t]
      BY <2>2 DEF BeginAttempt
    <3>3. attemptAt' \in [Requests -> [Sequences -> 0..Horizon]]
      BY <3>2, BeganIsPast DEF TypeOK
    <3> QED
      BY <2>2, <3>1, <3>3 DEF BeginAttempt, TypeOK, requestVars, worldVars
  <2>3. CASE CommitAttempt(r, s)
    <3>1. jobOf' \in [Requests -> [Sequences -> JobStates]]
      BY <2>3, JobBecomes DEF CommitAttempt, JobStates
    <3> QED
      BY <2>3, <3>1 DEF CommitAttempt, TypeOK, requestVars, worldVars
  <2>4. CASE AbortAttempt(r, s)
    <3>1. jobOf' \in [Requests -> [Sequences -> JobStates]]
      BY <2>4, JobBecomes DEF AbortAttempt, JobStates
    <3> QED
      BY <2>4, <3>1 DEF AbortAttempt, TypeOK, requestVars, worldVars
  <2>5. CASE LoseOutcome(r, s)
    <3>1. jobOf' \in [Requests -> [Sequences -> JobStates]]
      BY <2>5, JobBecomes DEF LoseOutcome, JobStates
    <3>2. doubted' \subseteq Messages
      BY <2>5 DEF LoseOutcome, TypeOK, Messages
    <3> QED
      BY <2>5, <3>1, <3>2 DEF LoseOutcome, TypeOK, requestVars, worldVars
  <2> QED
    BY <1>2, <2>1, <2>2, <2>3, <2>4, <2>5
<1>3. ASSUME NEW r \in Requests, NEW s \in Sequences, Finish(r, s) \/ Resolve(r, s)
      PROVE  TypeOK'
  <2>1. UNCHANGED <<now, attemptAt, doubted, worldVars>>
    BY <1>3 DEF Finish, Resolve
  <2>2. CASE Complete(r, s)
    <3>1. UNCHANGED expires
      BY <2>2 DEF Complete
    <3> QED
      BY <2>1, <2>2, <3>1, CompletionWrites DEF TypeOK, worldVars
  <2>3. CASE ~Complete(r, s)
    <3>1. /\ \E status \in {"queued", "dead_letter"} : Becomes(r, s, status)
          /\ UNCHANGED <<requestVars, completedAt>>
      BY <1>3, <2>3 DEF Finish, Resolve
    <3>2. jobOf' \in [Requests -> [Sequences -> JobStates]]
      BY <3>1, JobBecomes DEF JobStates
    <3> QED
      BY <2>1, <3>1, <3>2 DEF TypeOK, worldVars, requestVars
  <2> QED
    BY <2>2, <2>3
<1>4. ASSUME NEW d \in Destinations, Suppress(d) \/ LiftSuppression(d)
      PROVE  TypeOK'
  BY <1>4 DEF Suppress, LiftSuppression, TypeOK, requestVars, jobVars
<1>5. ASSUME NEW l \in Locations,
             BeginDisconnect(l) \/ CommitDisconnect(l) \/ Reconnect(l)
      PROVE  TypeOK'
  <2>1. CASE BeginDisconnect(l)
    BY <2>1 DEF BeginDisconnect, TypeOK, requestVars, jobVars
  <2>2. CASE CommitDisconnect(l)
    <3>1. jobOf' \in [Requests -> [Sequences -> JobStates]]
      BY <2>2 DEF CommitDisconnect, TypeOK, JobStates
    <3>2. /\ request' \in [Requests -> {"none", "scheduled", "active", "blocked"}]
          /\ nextSend' \in [Requests -> Nat]
      BY <2>2 DEF CommitDisconnect, TypeOK
    <3> QED
      BY <2>2, <3>1, <3>2 DEF CommitDisconnect, TypeOK
  <2>3. CASE Reconnect(l)
    BY <2>3 DEF Reconnect, TypeOK, requestVars, jobVars
  <2> QED
    BY <1>5, <2>1, <2>2, <2>3
<1>6. CASE Tick
  BY <1>6, LimitsAssumption DEF Tick, TypeOK, requestVars, jobVars, worldVars
<1>7. CASE UNCHANGED vars
  BY <1>7 DEF vars, TypeOK
<1> QED
  BY <1>1, <1>2, <1>3, <1>4, <1>5, <1>6, <1>7 DEF Next

-----------------------------------------------------------------------------
(* The messages of a request follow one another. *)

LEMMA ProgressInit == ASSUME Init PROVE ProgressInv
<1>1. TypeOK
  BY LimitsAssumption DEF Init, TypeOK, JobStates
<1>2. OneMessageAtATime
  <2> SUFFICES ASSUME NEW r \in Requests, NEW s \in Sequences
               PROVE  /\ s <= sentCount[r] <=> jobOf[r][s] = "completed"
                      /\ s > sentCount[r] + 1 => jobOf[r][s] = "none"
    BY DEF OneMessageAtATime
  <2>1. s \in 1..3
    BY SequencesAre
  <2> QED
    BY <2>1 DEF Init
<1>3. /\ JobsAreOfRequests /\ GapSinceDecision /\ DoomedAreThere
      /\ LiveRequestsHaveWork
  BY DEF Init, JobsAreOfRequests, GapSinceDecision, DoomedAreThere,
         LiveRequestsHaveWork, Live
<1> QED
  BY <1>1, <1>2, <1>3 DEF ProgressInv

(* The one open message of a request is the next after those completed. *)
LEMMA OpenIsNext ==
  ASSUME TypeOK, JobsAreOfRequests, OneMessageAtATime,
         NEW r \in Requests, NEW s \in Sequences,
         jobOf[r][s] \notin {"none", "completed"}
  PROVE  /\ s = sentCount[r] + 1 /\ s <= MaxMessages[r] /\ request[r] # "none"
         /\ s \in 1..3 /\ sentCount[r] \in 0..3
<1>1. s \in 1..3 /\ sentCount[r] \in 0..3
  BY SequencesAre DEF TypeOK
<1>2. ~(s <= sentCount[r]) /\ ~(s > sentCount[r] + 1)
  BY DEF OneMessageAtATime
<1> QED
  BY <1>1, <1>2 DEF JobsAreOfRequests

(* An open message takes another status, and its request may stop with it. *)
LEMMA AJobMoves ==
  ASSUME TypeOK, JobsAreOfRequests, OneMessageAtATime, LiveRequestsHaveWork,
         NEW r \in Requests, NEW s \in Sequences, NEW status \in JobStates,
         jobOf[r][s] \in OpenStates, status \notin {"none", "completed"},
         Becomes(r, s, status),
         UNCHANGED <<sentCount, completedAt, expires>>,
         \A q \in Requests : q # r => request'[q] = request[q],
         request'[r] # "none",
         request'[r] \in Live =>
           request[r] \in Live /\ status \in OpenStates \cup {"dead_letter"}
  PROVE  JobsAreOfRequests' /\ OneMessageAtATime' /\ LiveRequestsHaveWork'
<1>1. /\ s = sentCount[r] + 1 /\ s <= MaxMessages[r]
      /\ s \in 1..3 /\ sentCount[r] \in 0..3
  BY OpenIsNext DEF OpenStates
<1>2. \A q \in Requests, u \in Sequences :
        jobOf'[q][u] = IF q = r /\ u = s THEN status ELSE jobOf[q][u]
  BY JobBecomes
<1>3. JobsAreOfRequests'
  BY <1>1, <1>2 DEF JobsAreOfRequests
<1>4. OneMessageAtATime'
  BY <1>1, <1>2 DEF OneMessageAtATime
<1>5. LiveRequestsHaveWork'
  <2> SUFFICES ASSUME NEW q \in Requests,
                      request'[q] \in Live, sentCount[q] < MaxMessages[q],
                      NEW u, u = sentCount[q] + 1
               PROVE  \/ jobOf'[q][u] \in OpenStates \cup {"dead_letter"}
                      \/ /\ jobOf'[q][u] = "none"
                         /\ expires[q] <= NextPermitted(completedAt[q][sentCount[q]] + Gap)
    BY DEF LiveRequestsHaveWork
  <2>1. u \in Sequences
    <3>1. MaxMessages[q] \in 1..3 /\ sentCount[q] \in 0..3
      BY LimitsAssumption DEF TypeOK
    <3> QED
      BY <3>1, SequencesAre
  <2>2. CASE q = r
    BY <1>1, <1>2, <2>1, <2>2
  <2>3. CASE q # r
    BY <1>2, <2>1, <2>3 DEF LiveRequestsHaveWork
  <2> QED
    BY <2>2, <2>3
<1> QED
  BY <1>3, <1>4, <1>5

(* A completed message may be followed by the next. *)
LEMMA CompletionMoves ==
  ASSUME ProgressInv, NEW r \in Requests, NEW s \in Sequences,
         jobOf[r][s] \in {"sending", "unknown"},
         Complete(r, s), UNCHANGED <<now, attemptAt, worldVars>>
  PROVE  /\ JobsAreOfRequests' /\ OneMessageAtATime'
         /\ GapSinceDecision' /\ LiveRequestsHaveWork'
<1>0. /\ TypeOK /\ JobsAreOfRequests /\ OneMessageAtATime
      /\ GapSinceDecision /\ LiveRequestsHaveWork
  BY DEF ProgressInv
<1>1. /\ s = sentCount[r] + 1 /\ s <= MaxMessages[r] /\ request[r] # "none"
      /\ s \in 1..3 /\ sentCount[r] \in 0..3
  BY <1>0, OpenIsNext
<1>jobs. \A q \in Requests, u \in Sequences :
         /\ jobOf'[q][u] = IF q = r /\ u = s THEN "completed"
                           ELSE IF q = r /\ u = s + 1 /\ HasFollowUp(r) THEN "queued"
                           ELSE jobOf[q][u]
         /\ completedAt'[q][u] = IF q = r /\ u = s THEN now ELSE completedAt[q][u]
  BY <1>0 DEF TypeOK, Complete
<1>requests. \A q \in Requests :
         /\ q # r => sentCount'[q] = sentCount[q] /\ request'[q] = request[q]
         /\ request'[q] = "none" <=> request[q] = "none"
         /\ request'[q] \in Live <=> request[q] \in Live
  BY <1>0, CompletionWrites, Zenon
<1>count. /\ sentCount'[r] = Min({MaxMessages[r], sentCount[r] + 1})
       /\ sentCount' \in [Requests -> 0..3]
  BY <1>0, CompletionWrites, Zenon
<1>3. MaxMessages[r] \in 1..3
  BY LimitsAssumption
<1>4. sentCount'[r] = s
  <2>1. /\ MaxMessages[r] \in Nat /\ sentCount[r] + 1 \in Nat
        /\ sentCount[r] + 1 <= MaxMessages[r]
    BY <1>1, <1>3
  <2>2. Min({MaxMessages[r], sentCount[r] + 1}) = sentCount[r] + 1
    BY <2>1, LesserOfTwo
  <2> QED
    BY <1>1, <1>count, <2>2
<1>5. Sequences \subseteq 1..3
  BY SequencesAre
<1>6. \A u \in Sequences : u > s => jobOf[r][u] = "none"
  BY <1>0, <1>1, <1>5 DEF OneMessageAtATime
<1>7. HasFollowUp(r) => s + 1 <= MaxMessages[r]
  BY <1>1, <1>3 DEF HasFollowUp
<1>8. JobsAreOfRequests'
  <2> SUFFICES ASSUME NEW q \in Requests, NEW u \in Sequences, jobOf'[q][u] # "none"
               PROVE  request[q] # "none" /\ u <= MaxMessages[q]
    BY <1>requests DEF JobsAreOfRequests
  <2>1. CASE jobOf[q][u] # "none"
    BY <1>0, <2>1 DEF JobsAreOfRequests
  <2>2. CASE jobOf[q][u] = "none"
    <3>1. q = r /\ (u = s \/ (u = s + 1 /\ HasFollowUp(r)))
      BY <1>jobs, <2>2
    <3> QED
      BY <1>1, <1>7, <3>1
  <2> QED
    BY <2>1, <2>2
<1>9. OneMessageAtATime'
  <2> SUFFICES ASSUME NEW q \in Requests, NEW u \in Sequences
               PROVE  /\ u <= sentCount'[q] <=> jobOf'[q][u] = "completed"
                      /\ u > sentCount'[q] + 1 => jobOf'[q][u] = "none"
    BY DEF OneMessageAtATime
  <2>1. CASE q # r
    BY <1>0, <1>jobs, <1>requests, <2>1 DEF OneMessageAtATime
  <2>2. CASE q = r
    <3>1. u \in 1..3
      BY <1>5
    <3>2. CASE u <= s
      <4>1. u <= s - 1 => jobOf[q][u] = "completed"
        BY <1>0, <1>1, <2>2, <3>1 DEF OneMessageAtATime
      <4>2. jobOf'[q][u] = "completed"
        BY <1>1, <1>jobs, <2>2, <3>1, <3>2, <4>1
      <4> QED
        BY <1>1, <1>4, <2>2, <3>1, <3>2, <4>2
    <3>3. CASE u > s
      <4>1. jobOf[q][u] = "none"
        BY <1>6, <2>2, <3>3
      <4>2. /\ jobOf'[q][u] # "completed"
            /\ u > s + 1 => jobOf'[q][u] = "none"
        BY <1>1, <1>jobs, <2>2, <3>1, <3>3, <4>1
      <4> QED
        BY <1>1, <1>4, <2>2, <3>1, <3>3, <4>2
    <3> QED
      BY <1>1, <3>1, <3>2, <3>3
  <2> QED
    BY <2>1, <2>2
<1>10. GapSinceDecision'
  <2> SUFFICES ASSUME NEW q \in Requests, NEW u \in Sequences,
                      jobOf'[q][u] \in {"deciding", "sending", "unknown", "completed"},
                      u > 1
               PROVE  attemptAt[q][u] >= completedAt'[q][u - 1] + Gap
    BY DEF GapSinceDecision
  <2>1. u \in 1..3 /\ u - 1 \in Sequences
    BY <1>5, SequencesAre
  <2>2. jobOf[q][u] \in {"deciding", "sending", "unknown", "completed"}
    BY <1>jobs
  <2>3. ~(q = r /\ u - 1 = s)
    BY <1>1, <1>6, <2>1, <2>2
  <2>4. completedAt'[q][u - 1] = completedAt[q][u - 1]
    BY <1>jobs, <2>1, <2>3
  <2> QED
    BY <1>0, <2>2, <2>4 DEF GapSinceDecision
<1>11. LiveRequestsHaveWork'
  <2> SUFFICES ASSUME NEW q \in Requests,
                      request'[q] \in Live, sentCount'[q] < MaxMessages[q],
                      NEW u, u = sentCount'[q] + 1
               PROVE  \/ jobOf'[q][u] \in OpenStates \cup {"dead_letter"}
                      \/ /\ jobOf'[q][u] = "none"
                         /\ expires'[q] <= NextPermitted(completedAt'[q][sentCount'[q]] + Gap)
    BY DEF LiveRequestsHaveWork
  <2>1. expires' = expires /\ request[q] \in Live
    BY <1>requests DEF Complete
  <2>2. u \in Sequences
    <3>1. MaxMessages[q] \in 1..3 /\ sentCount'[q] \in 0..3
      BY <1>count, LimitsAssumption
    <3> QED
      BY <3>1, SequencesAre
  <2>3. CASE q # r
    <3>1. sentCount'[q] = sentCount[q]
      BY <1>requests, <2>3
    <3>2. jobOf'[q][u] = jobOf[q][u]
      BY <1>jobs, <2>2, <2>3
    <3>3. completedAt'[q] = completedAt[q]
      BY <1>0, <2>3 DEF Complete, TypeOK
    <3> QED
      BY <1>0, <2>1, <3>1, <3>2, <3>3 DEF LiveRequestsHaveWork
  <2>4. CASE q = r
    <3>1. u = s + 1 /\ u # s /\ s < MaxMessages[r]
      BY <1>1, <1>4, <2>4
    <3>2. completedAt'[r][s] = now
      BY <1>jobs
    <3>3. CASE HasFollowUp(r)
      BY <1>jobs, <2>2, <2>4, <3>1, <3>3 DEF OpenStates
    <3>4. CASE ~HasFollowUp(r)
      <4>1. jobOf'[r][u] = "none"
        BY <1>6, <1>jobs, <2>2, <2>4, <3>1, <3>4, <1>1
      <4>2. ~(expires[r] > FollowUpAt)
        BY <1>1, <2>1, <2>4, <3>1, <3>4 DEF HasFollowUp
      <4>3. FollowUpAt \in Nat /\ expires[r] \in Nat
        <5>1. now + Gap \in Nat /\ expires[r] \in Nat
          BY <1>0, LimitsAssumption DEF TypeOK
        <5> QED
          BY <5>1, PermittedIsATime DEF FollowUpAt
      <4> QED
        BY <1>4, <2>1, <2>4, <3>2, <4>1, <4>2, <4>3 DEF FollowUpAt
    <3> QED
      BY <3>3, <3>4
  <2> QED
    BY <2>3, <2>4
<1> QED
  BY <1>8, <1>9, <1>10, <1>11

Decided == {"deciding", "sending", "unknown", "completed"}

LEMMA GapMoves ==
  ASSUME TypeOK, GapSinceDecision,
         NEW r \in Requests, NEW s \in Sequences, NEW status \in JobStates,
         Becomes(r, s, status), UNCHANGED <<attemptAt, completedAt>>,
         status \in Decided => jobOf[r][s] \in Decided
  PROVE  GapSinceDecision'
<1>1. \A q \in Requests, u \in Sequences :
        jobOf'[q][u] = IF q = r /\ u = s THEN status ELSE jobOf[q][u]
  BY JobBecomes
<1> QED
  BY <1>1 DEF GapSinceDecision, Decided

(* A follow-up is decided when the message before it has been delivered    *)
(* and the gap is over.                                                    *)
LEMMA BeginningKeepsTheGap ==
  ASSUME ProgressInv, NEW r \in Requests, NEW s \in Sequences, BeginAttempt(r, s)
  PROVE  GapSinceDecision'
<1>1. TypeOK /\ JobsAreOfRequests /\ OneMessageAtATime /\ GapSinceDecision
  BY DEF ProgressInv
<1>2. PICK t \in Began : Allowed(r, t) /\ attemptAt' = [attemptAt EXCEPT ![r][s] = t]
  BY DEF BeginAttempt
<1>3. \A q \in Requests, u \in Sequences :
        jobOf'[q][u] = IF q = r /\ u = s THEN "deciding" ELSE jobOf[q][u]
  BY <1>1, JobBecomes DEF BeginAttempt, JobStates
<1>4. t \in Nat
  BY <1>1, <1>2, BeganIsPast
<1>5. \A q \in Requests, u \in Sequences :
        attemptAt'[q][u] = IF q = r /\ u = s THEN t ELSE attemptAt[q][u]
  BY <1>1, <1>2 DEF TypeOK
<1>6. s = sentCount[r] + 1 /\ s \in 1..3 /\ sentCount[r] \in 0..3
  BY <1>1, OpenIsNext DEF BeginAttempt
<1>7. completedAt' = completedAt
  BY DEF BeginAttempt
<1> SUFFICES ASSUME NEW q \in Requests, NEW u \in Sequences,
                    jobOf'[q][u] \in {"deciding", "sending", "unknown", "completed"},
                    u > 1
             PROVE  attemptAt'[q][u] >= completedAt[q][u - 1] + Gap
  BY <1>7 DEF GapSinceDecision
<1>8. CASE q = r /\ u = s
  <2>1. s - 1 \in Sequences
    BY <1>6, <1>8, SequencesAre
  <2>2. jobOf[r][s - 1] = "completed"
    BY <1>1, <1>6, <2>1 DEF OneMessageAtATime
  <2>3. ~(completedAt[r][s - 1] + Gap > t)
    BY <1>2, <2>1, <2>2 DEF Allowed, TooSoon
  <2>4. completedAt[r][s - 1] \in Nat /\ Gap \in Nat
    BY <1>1, <2>1, LimitsAssumption DEF TypeOK
  <2> QED
    BY <1>4, <1>5, <1>8, <2>3, <2>4
<1>9. CASE ~(q = r /\ u = s)
  BY <1>1, <1>3, <1>5, <1>9 DEF GapSinceDecision
<1> QED
  BY <1>8, <1>9

(* Nothing of an action that leaves the messages alone is about them. *)
LEMMA ProgressStutters ==
  ASSUME ProgressInv, TypeOK', DoomedAreThere', UNCHANGED <<requestVars, jobVars>>
  PROVE  ProgressInv'
BY DEF ProgressInv, requestVars, jobVars, JobsAreOfRequests, OneMessageAtATime,
       GapSinceDecision, LiveRequestsHaveWork

(* A disconnect stops every live request of the location with its jobs. *)
LEMMA DisconnectStops ==
  ASSUME ProgressInv, NEW l \in Locations, CommitDisconnect(l)
  PROVE  /\ JobsAreOfRequests' /\ OneMessageAtATime'
         /\ GapSinceDecision' /\ LiveRequestsHaveWork'
<1>1. /\ TypeOK /\ JobsAreOfRequests /\ OneMessageAtATime /\ GapSinceDecision
      /\ DoomedAreThere /\ LiveRequestsHaveWork
  BY DEF ProgressInv
<1>2. \A q \in Requests, u \in Sequences :
        jobOf'[q][u] = IF q \in doomed /\ jobOf[q][u] = "queued" THEN "cancelled"
                       ELSE jobOf[q][u]
  BY DEF CommitDisconnect
<1>3. \A q \in Requests :
        request'[q] = IF LocationOf[q] = l /\ request[q] \in Live THEN "blocked"
                      ELSE request[q]
  BY DEF CommitDisconnect
<1>4. UNCHANGED <<sentCount, expires, attemptAt, completedAt>> /\ disconnecting = l
  BY DEF CommitDisconnect
<1>5. JobsAreOfRequests'
  BY <1>1, <1>2, <1>3 DEF JobsAreOfRequests
<1>6. OneMessageAtATime'
  BY <1>1, <1>2, <1>4 DEF OneMessageAtATime
<1>7. GapSinceDecision'
  BY <1>1, <1>2, <1>4 DEF GapSinceDecision
<1>8. LiveRequestsHaveWork'
  <2> SUFFICES ASSUME NEW q \in Requests,
                      request'[q] \in Live, sentCount[q] < MaxMessages[q],
                      NEW u, u = sentCount[q] + 1
               PROVE  \/ jobOf'[q][u] \in OpenStates \cup {"dead_letter"}
                      \/ /\ jobOf'[q][u] = "none"
                         /\ expires[q] <= NextPermitted(completedAt[q][sentCount[q]] + Gap)
    BY <1>4 DEF LiveRequestsHaveWork
  <2>1. u \in Sequences
    <3>1. MaxMessages[q] \in 1..3 /\ sentCount[q] \in 0..3
      BY <1>1, LimitsAssumption DEF TypeOK
    <3> QED
      BY <3>1, SequencesAre
  <2>2. LocationOf[q] # l /\ request[q] \in Live
    BY <1>3 DEF Live
  <2>3. q \notin doomed
    BY <1>1, <1>4, <2>2 DEF DoomedAreThere
  <2>4. jobOf'[q][u] = jobOf[q][u]
    BY <1>2, <2>1, <2>3
  <2> QED
    BY <1>1, <2>2, <2>4 DEF LiveRequestsHaveWork
<1> QED
  BY <1>5, <1>6, <1>7, <1>8

LEMMA ProgressStep ==
  ASSUME ProgressInv, [Next]_vars
  PROVE  ProgressInv'
<1>1. /\ TypeOK /\ JobsAreOfRequests /\ OneMessageAtATime /\ GapSinceDecision
      /\ DoomedAreThere /\ LiveRequestsHaveWork
  BY DEF ProgressInv
<1>2. TypeOK'
  BY <1>1, TypeKept
<1>3. UNCHANGED <<disconnecting, doomed>> => DoomedAreThere'
  BY <1>1 DEF DoomedAreThere
<1>4. ASSUME NEW r \in Requests, Create(r) PROVE ProgressInv'
  <2>1. /\ 1 \in Sequences /\ Sequences \subseteq 1..3 /\ 1 <= MaxMessages[r]
    BY LimitsAssumption, SequencesAre
  <2>2. \A s \in Sequences : jobOf[r][s] = "none"
    BY <1>1, <1>4 DEF Create, JobsAreOfRequests
  <2>3. sentCount[r] = 0
    <3>1. sentCount[r] \in 0..3 /\ ~(1 <= sentCount[r])
      BY <1>1, <2>1, <2>2 DEF OneMessageAtATime, TypeOK
    <3> QED
      BY <3>1
  <2>4. /\ UNCHANGED <<sentCount, attemptAt, completedAt>>
        /\ \A q \in Requests : q # r => request'[q] = request[q] /\ expires'[q] = expires[q]
        /\ request'[r] # "none"
    BY <1>1, <1>4 DEF Create, TypeOK
  <2>5. \A q \in Requests, u \in Sequences :
          \/ jobOf'[q][u] = jobOf[q][u]
          \/ q = r /\ u = 1 /\ jobOf'[q][u] = "queued"
    BY <1>1, <1>4, <2>1, JobBecomes DEF Create, JobStates
  <2>6. request'[r] \in Live => jobOf'[r][1] = "queued"
    BY <1>1, <1>4, <2>1, JobBecomes DEF Create, JobStates, Live, TypeOK
  <2>7. JobsAreOfRequests'
    BY <1>1, <2>1, <2>4, <2>5 DEF JobsAreOfRequests
  <2>8. OneMessageAtATime'
    BY <1>1, <2>1, <2>2, <2>3, <2>4, <2>5 DEF OneMessageAtATime
  <2>9. GapSinceDecision'
    BY <1>1, <2>4, <2>5 DEF GapSinceDecision
  <2>10. LiveRequestsHaveWork'
    <3> SUFFICES ASSUME NEW q \in Requests,
                        request'[q] \in Live, sentCount[q] < MaxMessages[q],
                        NEW u, u = sentCount[q] + 1
                 PROVE  \/ jobOf'[q][u] \in OpenStates \cup {"dead_letter"}
                        \/ /\ jobOf'[q][u] = "none"
                           /\ expires'[q] <= NextPermitted(completedAt[q][sentCount[q]] + Gap)
      BY <2>4 DEF LiveRequestsHaveWork
    <3>1. CASE q = r
      BY <2>3, <2>6, <3>1 DEF OpenStates
    <3>2. CASE q # r
      <4>1. MaxMessages[q] \in 1..3 /\ sentCount[q] \in 0..3
        BY <1>1, LimitsAssumption DEF TypeOK
      <4>2. u \in Sequences
        BY <4>1, SequencesAre
      <4> QED
        BY <1>1, <2>4, <2>5, <3>2, <4>2 DEF LiveRequestsHaveWork
    <3> QED
      BY <3>1, <3>2
  <2>11. DoomedAreThere'
    BY <1>3, <1>4 DEF Create, worldVars
  <2> QED
    BY <1>2, <2>7, <2>8, <2>9, <2>10, <2>11 DEF ProgressInv
<1>5. ASSUME NEW r \in Requests, NEW s \in Sequences, Block(r, s) PROVE ProgressInv'
  <2>1. request[r] # "none"
    BY <1>1, <1>5 DEF Block, JobsAreOfRequests
  <2>2. /\ request'[r] # "none" /\ request'[r] \notin Live
        /\ \A q \in Requests : q # r => request'[q] = request[q]
    BY <1>1, <1>5, <2>1 DEF Block, TypeOK, Live
  <2>3. Becomes(r, s, "cancelled") /\ jobOf[r][s] \in OpenStates
    BY <1>5 DEF Block, OpenStates
  <2>4. UNCHANGED <<sentCount, expires, attemptAt, completedAt, worldVars>>
    BY <1>5 DEF Block
  <2>5. JobsAreOfRequests' /\ OneMessageAtATime' /\ LiveRequestsHaveWork'
    BY <1>1, <2>2, <2>3, <2>4, AJobMoves DEF JobStates
  <2>6. GapSinceDecision'
    BY <1>1, <2>3, <2>4, GapMoves DEF JobStates, Decided
  <2>7. DoomedAreThere'
    BY <1>3, <2>4 DEF worldVars
  <2> QED
    BY <1>2, <2>5, <2>6, <2>7 DEF ProgressInv
<1>6. ASSUME NEW r \in Requests, NEW s \in Sequences,
             NEW status \in {"queued", "deciding", "sending", "unknown", "dead_letter"},
             jobOf[r][s] \in OpenStates, Becomes(r, s, status),
             UNCHANGED <<requestVars, completedAt, worldVars>>, GapSinceDecision'
      PROVE  ProgressInv'
  <2>1. request[r] # "none"
    BY <1>1, <1>6 DEF JobsAreOfRequests, OpenStates
  <2>2. status \in JobStates /\ status \notin {"none", "completed"}
        /\ status \in OpenStates \cup {"dead_letter"}
    BY DEF JobStates, OpenStates
  <2>3. UNCHANGED <<request, sentCount, completedAt, expires>>
    BY <1>6 DEF requestVars
  <2>4. JobsAreOfRequests' /\ OneMessageAtATime' /\ LiveRequestsHaveWork'
    BY <1>1, <1>6, <2>1, <2>2, <2>3, AJobMoves
  <2>5. DoomedAreThere'
    BY <1>3, <1>6 DEF worldVars
  <2> QED
    BY <1>2, <1>6, <2>4, <2>5 DEF ProgressInv
<1>7. ASSUME NEW r \in Requests, NEW s \in Sequences, BeginAttempt(r, s)
      PROVE  ProgressInv'
  <2>1. GapSinceDecision'
    BY <1>7, BeginningKeepsTheGap
  <2> QED
    BY <1>6, <1>7, <2>1 DEF BeginAttempt, OpenStates
<1>8. ASSUME NEW r \in Requests, NEW s \in Sequences,
             CommitAttempt(r, s) \/ AbortAttempt(r, s) \/ LoseOutcome(r, s)
      PROVE  ProgressInv'
  <2>1. PICK status \in {"queued", "sending", "unknown"} : Becomes(r, s, status)
    BY <1>8 DEF CommitAttempt, AbortAttempt, LoseOutcome
  <2>2. /\ jobOf[r][s] \in {"deciding", "sending"}
        /\ UNCHANGED <<requestVars, completedAt, worldVars, attemptAt>>
    BY <1>8 DEF CommitAttempt, AbortAttempt, LoseOutcome
  <2>3. GapSinceDecision'
    BY <1>1, <2>1, <2>2, GapMoves DEF JobStates, Decided
  <2> QED
    BY <1>6, <2>1, <2>2, <2>3 DEF OpenStates
<1>9. ASSUME NEW r \in Requests, NEW s \in Sequences, Finish(r, s) \/ Resolve(r, s)
      PROVE  ProgressInv'
  <2>1. /\ jobOf[r][s] \in {"sending", "unknown"}
        /\ UNCHANGED <<now, attemptAt, doubted, worldVars>>
    BY <1>9 DEF Finish, Resolve
  <2>2. CASE Complete(r, s)
    <3>1. /\ JobsAreOfRequests' /\ OneMessageAtATime'
          /\ GapSinceDecision' /\ LiveRequestsHaveWork'
      BY <2>1, <2>2, CompletionMoves
    <3>2. DoomedAreThere'
      BY <1>3, <2>1 DEF worldVars
    <3> QED
      BY <1>2, <3>1, <3>2 DEF ProgressInv
  <2>3. CASE ~Complete(r, s)
    <3>1. /\ \E status \in {"queued", "dead_letter"} : Becomes(r, s, status)
          /\ UNCHANGED <<requestVars, completedAt>>
      BY <1>9, <2>3 DEF Finish, Resolve
    <3>2. PICK status \in {"queued", "dead_letter"} : Becomes(r, s, status)
      BY <3>1
    <3>3. GapSinceDecision'
      BY <1>1, <2>1, <3>1, <3>2, GapMoves DEF JobStates, Decided
    <3> QED
      BY <1>6, <2>1, <3>1, <3>2, <3>3 DEF OpenStates
  <2> QED
    BY <2>2, <2>3
<1>10. ASSUME NEW d \in Destinations, Suppress(d) \/ LiftSuppression(d)
       PROVE  ProgressInv'
  BY <1>2, <1>3, <1>10, ProgressStutters DEF Suppress, LiftSuppression
<1>11. ASSUME NEW l \in Locations,
              BeginDisconnect(l) \/ CommitDisconnect(l) \/ Reconnect(l)
       PROVE  ProgressInv'
  <2>1. CASE BeginDisconnect(l)
    <3>1. DoomedAreThere'
      BY <2>1 DEF BeginDisconnect, DoomedAreThere
    <3> QED
      BY <1>2, <2>1, <3>1, ProgressStutters DEF BeginDisconnect
  <2>2. CASE CommitDisconnect(l)
    <3>1. DoomedAreThere'
      BY <2>2 DEF CommitDisconnect, DoomedAreThere
    <3> QED
      BY <1>2, <2>2, <3>1, DisconnectStops DEF ProgressInv
  <2>3. CASE Reconnect(l)
    BY <1>2, <1>3, <2>3, ProgressStutters DEF Reconnect
  <2> QED
    BY <1>11, <2>1, <2>2, <2>3
<1>12. CASE Tick
  BY <1>2, <1>3, <1>12, ProgressStutters DEF Tick, worldVars
<1>13. CASE UNCHANGED vars
  BY <1>2, <1>3, <1>13, ProgressStutters DEF vars, requestVars, jobVars
<1> QED
  BY <1>4, <1>5, <1>7, <1>8, <1>9, <1>10, <1>11, <1>12, <1>13 DEF Next

THEOREM ProgressInvariant == Spec => []ProgressInv
<1>1. Init => ProgressInv
  BY ProgressInit
<1>2. ProgressInv /\ [Next]_vars => ProgressInv'
  BY ProgressStep
<1> QED
  BY <1>1, <1>2, PTL DEF Spec

(* A request sends its messages one after another and counts each once,    *)
(* through late reconciliations, disconnects and retries.                  *)
THEOREM MessagesFollowOneAnother == Spec => []OneMessageAtATime
<1>1. ProgressInv => OneMessageAtATime
  BY DEF ProgressInv
<1> QED
  BY <1>1, ProgressInvariant, PTL

(* A live request with messages left to send has one that will be looked   *)
(* at, unless an attempt died or its payload is too old.                   *)
THEOREM LiveRequestsAreServed == Spec => []LiveRequestsHaveWork
<1>1. ProgressInv => LiveRequestsHaveWork
  BY DEF ProgressInv
<1> QED
  BY <1>1, ProgressInvariant, PTL

(* No follow-up sooner than the minimum gap after the message before it.   *)
THEOREM TheGapIsKept == Spec => []GapKept
<1>1. ProgressInv => GapKept
  <2> SUFFICES ASSUME ProgressInv, NEW m \in Messages, Counted(m), m[2] > 1
               PROVE  AttemptAt(m) >= completedAt[m[1]][m[2] - 1] + Gap
    BY DEF GapKept
  <2>1. m[1] \in Requests /\ m[2] \in Sequences
    BY DEF Messages
  <2> QED
    BY <2>1 DEF ProgressInv, GapSinceDecision, Counted, AttemptAt
<1> QED
  BY <1>1, ProgressInvariant, PTL

-----------------------------------------------------------------------------
(* What a customer hears. *)

(* Those who sent a message have a row, and there are finitely many rows.  *)
LEMMA HeardAreKnown ==
  ASSUME JobsAreOfRequests, IsFiniteSet(Known), NEW H \in SUBSET Requests,
         \A q \in H : \E s \in Sequences : Surely(<<q, s>>)
  PROVE  H \subseteq Known /\ IsFiniteSet(H)
<1>1. H \subseteq Known
  BY DEF Surely, Counted, JobsAreOfRequests, Known
<1> QED
  BY <1>1, FS_Subset

LEMMA HeardAreFinite ==
  ASSUME JobsAreOfRequests, IsFiniteSet(Known)
  PROVE  /\ \A r \in Requests, t \in Nat : IsFiniteSet(HeardSince(r, t))
         /\ \A m \in Messages : IsFiniteSet(HeardBefore(m))
<1>1. ASSUME NEW r \in Requests, NEW t \in Nat PROVE IsFiniteSet(HeardSince(r, t))
  <2>1. /\ HeardSince(r, t) \in SUBSET Requests
        /\ \A q \in HeardSince(r, t) : \E s \in Sequences : Surely(<<q, s>>)
    BY DEF HeardSince
  <2> QED
    BY <2>1, HeardAreKnown
<1>2. ASSUME NEW m \in Messages PROVE IsFiniteSet(HeardBefore(m))
  <2>1. /\ HeardBefore(m) \in SUBSET Requests
        /\ \A q \in HeardBefore(m) : \E s \in Sequences : Surely(<<q, s>>)
    BY DEF HeardBefore
  <2> QED
    BY <2>1, HeardAreKnown
<1> QED
  BY <1>1, <1>2

(* A part of a small set is small. *)
LEMMA PartIsSmall ==
  ASSUME NEW S, NEW T, IsFiniteSet(S), T \subseteq S,
         NEW n \in Nat, Cardinality(S) < n
  PROVE  Cardinality(T) < n
<1>1. Cardinality(T) <= Cardinality(S) /\ IsFiniteSet(T)
  BY FS_Subset
<1>2. Cardinality(T) \in Nat /\ Cardinality(S) \in Nat
  BY <1>1, FS_CardinalityType
<1> QED
  BY <1>1, <1>2

(* While no more is heard, what was within the cap stays so. *)
LEMMA LessIsHeard ==
  ASSUME TypeOK, JobsAreOfRequests, IsFiniteSet(Known),
         \A q \in Requests, u \in Sequences : Surely(<<q, u>>)' =>
           Surely(<<q, u>>) /\ attemptAt'[q][u] = attemptAt[q][u]
  PROVE  /\ DestinationCapKept => DestinationCapKept'
         /\ \A r \in Requests, t \in Nat : Cardinality(HeardSince(r, t)) < FrequencyMax
              => Cardinality(HeardSince(r, t)') < FrequencyMax
<1>1. FrequencyMax \in Nat
  BY LimitsAssumption
<1>2. ASSUME DestinationCapKept, NEW m \in Messages, Surely(m)'
      PROVE  Cardinality(HeardBefore(m)') < FrequencyMax
  <2>1. m[1] \in Requests /\ m[2] \in Sequences /\ m = <<m[1], m[2]>>
    BY DEF Messages
  <2>2. Surely(m) /\ attemptAt'[m[1]][m[2]] = attemptAt[m[1]][m[2]]
    BY <1>2, <2>1
  <2>3. HeardBefore(m)' \subseteq HeardBefore(m)
    BY <2>1, <2>2 DEF HeardBefore, AttemptAt
  <2>4. Cardinality(HeardBefore(m)) < FrequencyMax /\ IsFiniteSet(HeardBefore(m))
    BY <1>2, <2>2, HeardAreFinite DEF DestinationCapKept
  <2> QED
    BY <1>1, <2>3, <2>4, PartIsSmall
<1>3. ASSUME NEW r \in Requests, NEW t \in Nat,
             Cardinality(HeardSince(r, t)) < FrequencyMax
      PROVE  Cardinality(HeardSince(r, t)') < FrequencyMax
  <2>1. HeardSince(r, t)' \subseteq HeardSince(r, t)
    BY DEF HeardSince
  <2>2. IsFiniteSet(HeardSince(r, t))
    BY HeardAreFinite
  <2> QED
    BY <1>1, <1>3, <2>1, <2>2, PartIsSmall
<1>4. DestinationCapKept => DestinationCapKept'
  BY <1>2 DEF DestinationCapKept, Messages
<1> QED
  BY <1>3, <1>4

(* Every action but a decision and its commit leaves less to hear. *)
LEMMA QuietKeepsTheCap ==
  ASSUME TypeOK, JobsAreOfRequests, CapInv, IsFiniteSet(Known)',
         UNCHANGED attemptAt, doubted \subseteq doubted',
         \A q \in Requests, u \in Sequences :
           /\ jobOf'[q][u] \in {"deciding", "sending"} => jobOf'[q][u] = jobOf[q][u]
           /\ jobOf'[q][u] = "completed" => jobOf[q][u] \in {"sending", "unknown", "completed"}
           /\ jobOf'[q][u] = "unknown" => jobOf[q][u] = "unknown" \/ <<q, u>> \in doubted'
  PROVE  CapInv'
<1>1. \A m \in Messages : m[1] \in Requests /\ m[2] \in Sequences /\ m = <<m[1], m[2]>>
  BY DEF Messages
<1>2. UnknownIsDoubted'
  BY <1>1 DEF CapInv, UnknownIsDoubted, Status, Messages
<1>3. \A m \in Messages : Status(m)' = "deciding" =>
        Status(m) = "deciding" /\ AttemptAt(m)' = AttemptAt(m)
  BY <1>1 DEF Status, AttemptAt
<1>4. OneDecision'
  BY <1>3 DEF CapInv, OneDecision, Messages
<1>5. ASSUME NEW q \in Requests, NEW u \in Sequences, Surely(<<q, u>>)'
      PROVE  Surely(<<q, u>>) /\ attemptAt'[q][u] = attemptAt[q][u]
  <2>1. <<q, u>> \in Messages
    BY DEF Messages
  <2>2. /\ jobOf'[q][u] \in {"sending", "completed"}
        /\ <<q, u>> \notin doubted' /\ <<q, u>> \notin doubted
    BY <1>5 DEF Surely, Counted
  <2>3. jobOf[q][u] \in {"sending", "unknown", "completed"}
    BY <2>2
  <2>4. jobOf[q][u] # "unknown"
    BY <2>1, <2>2 DEF CapInv, UnknownIsDoubted, Status
  <2> QED
    BY <2>2, <2>3, <2>4 DEF Surely, Counted
<1>6. /\ DestinationCapKept => DestinationCapKept'
      /\ \A r \in Requests, t \in Nat : Cardinality(HeardSince(r, t)) < FrequencyMax
           => Cardinality(HeardSince(r, t)') < FrequencyMax
  BY <1>5, LessIsHeard DEF CapInv
<1>7. DecisionStands'
  <2> SUFFICES ASSUME NEW m \in Messages, Status(m)' = "deciding"
               PROVE  Cardinality(HeardSince(m[1], AttemptAt(m))') < FrequencyMax
    BY DEF DecisionStands, Messages
  <2>1. Status(m) = "deciding" /\ AttemptAt(m)' = AttemptAt(m) /\ m[1] \in Requests
    BY <1>1, <1>3
  <2>2. AttemptAt(m) \in Nat
    BY <1>1, LimitsAssumption DEF TypeOK, AttemptAt
  <2>3. Cardinality(HeardSince(m[1], AttemptAt(m))) < FrequencyMax
    BY <2>1 DEF CapInv, DecisionStands
  <2>4. HeardSince(m[1], AttemptAt(m))' =
          {q \in Requests \ {m[1]} :
             /\ DestinationOf[q] = DestinationOf[m[1]]
             /\ \E s \in Sequences : Surely(<<q, s>>)'
                  /\ attemptAt'[q][s] >= AttemptAt(m) - Window}
    BY <2>1 DEF HeardSince
  <2> DEFINE t == AttemptAt(m)
  <2> QED
    BY <1>6, <2>1, <2>2, <2>3, <2>4
<1> QED
  BY <1>2, <1>4, <1>6, <1>7 DEF CapInv

(* Those the frequency cap finds are at least those the customer has heard. *)
LEMMA CapCountsTheHeard ==
  ASSUME TypeOK, JobsAreOfRequests, IsFiniteSet(Known),
         NEW r \in Requests, NEW t \in Nat, UnderFrequencyCap(r, t)
  PROVE  Cardinality(HeardSince(r, t)) < FrequencyMax
<1> DEFINE H == HeardSince(r, t)
           N == RecentTo(r, t)
<1>1. IsFiniteSet(N)
  <2>1. N \subseteq Known \X Sequences
    BY DEF RecentTo, Messages, Counted, JobsAreOfRequests, Known
  <2>2. IsFiniteSet(Known \X Sequences)
    BY SequencesAre, FS_Product
  <2> QED
    BY <2>1, <2>2, FS_Subset
<1>2. \A q \in H : \E m \in N : m[1] = q
  <2> SUFFICES ASSUME NEW q \in H PROVE \E m \in N : m[1] = q
    OBVIOUS
  <2>1. q \in Requests \ {r} /\ DestinationOf[q] = DestinationOf[r]
    BY DEF HeardSince
  <2>2. PICK s \in Sequences : Surely(<<q, s>>) /\ attemptAt[q][s] >= t - Window
    BY DEF HeardSince
  <2>3. <<q, s>> \in Messages /\ <<q, s>>[1] = q
    BY <2>1 DEF Messages
  <2>4. Counted(<<q, s>>) /\ AttemptAt(<<q, s>>) >= t - Window
    BY <2>2 DEF Surely, AttemptAt
  <2>5. <<q, s>> \in N
    BY <2>1, <2>3, <2>4 DEF RecentTo
  <2> QED
    BY <2>3, <2>5
<1> DEFINE Q == {m[1] : m \in N}
<1>3. IsFiniteSet(Q) /\ Cardinality(Q) <= Cardinality(N)
  <2> HIDE DEF N
  <2>1. [m \in N |-> m[1]] \in Surjection(N, Q)
    BY DEF Surjection
  <2> QED
    BY <1>1, <2>1, FS_Surjection
<1>4. H \subseteq Q
  BY <1>2
<1>5. Cardinality(N) < FrequencyMax /\ FrequencyMax \in Nat
  BY LimitsAssumption DEF UnderFrequencyCap
<1>6. Cardinality(N) \in Nat /\ Cardinality(Q) \in Nat
  <2> HIDE DEF N, Q
  <2> QED BY <1>1, <1>3, FS_CardinalityType
<1>7. Cardinality(Q) < FrequencyMax
  <2> HIDE DEF N, Q
  <2> QED BY <1>3, <1>5, <1>6
<1> QED
  <2> HIDE DEF N, Q, H
  <2>1. Cardinality(H) < FrequencyMax
    BY <1>3, <1>4, <1>5, <1>7, PartIsSmall
  <2> QED
    BY <2>1 DEF H

(* A decision has the lock of its location and is within the cap. *)
LEMMA DecidingKeepsTheCap ==
  ASSUME TypeOK, JobsAreOfRequests, CapInv,
         NEW r \in Requests, NEW s \in Sequences, BeginAttempt(r, s)
  PROVE  CapInv'
<1>1. PICK t \in Began : Allowed(r, t) /\ attemptAt' = [attemptAt EXCEPT ![r][s] = t]
  BY DEF BeginAttempt
<1>2. \A q \in Requests, u \in Sequences :
        /\ jobOf'[q][u] = IF q = r /\ u = s THEN "deciding" ELSE jobOf[q][u]
        /\ attemptAt'[q][u] = IF q = r /\ u = s THEN t ELSE attemptAt[q][u]
  <2>1. \A q \in Requests, u \in Sequences :
          jobOf'[q][u] = IF q = r /\ u = s THEN "deciding" ELSE jobOf[q][u]
    BY JobBecomes DEF BeginAttempt, JobStates
  <2> QED
    BY <1>1, <2>1 DEF TypeOK
<1>3. /\ jobOf[r][s] = "queued" /\ RateLockFree(r)
      /\ doubted' = doubted /\ request' = request
  BY DEF BeginAttempt, requestVars
<1>4. \A m \in Messages : m[1] \in Requests /\ m[2] \in Sequences /\ m = <<m[1], m[2]>>
  BY DEF Messages
<1>5. t \in Nat
  BY <1>1, BeganIsPast
<1>6. IsFiniteSet(Known)'
  BY <1>3 DEF CapInv, Known
<1>7. UnknownIsDoubted'
  BY <1>2, <1>3, <1>4 DEF CapInv, UnknownIsDoubted, Status
<1>8. \A m \in Messages : Status(m)' = "deciding" =>
        \/ m = <<r, s>>
        \/ /\ Status(m) = "deciding" /\ AttemptAt(m)' = AttemptAt(m)
           /\ LocationOf[m[1]] # LocationOf[r]
  <2> SUFFICES ASSUME NEW m \in Messages, Status(m)' = "deciding", m # <<r, s>>
               PROVE  /\ Status(m) = "deciding" /\ AttemptAt(m)' = AttemptAt(m)
                      /\ LocationOf[m[1]] # LocationOf[r]
    OBVIOUS
  <2>1. ~(m[1] = r /\ m[2] = s)
    BY <1>4
  <2>2. Status(m) = "deciding" /\ AttemptAt(m)' = AttemptAt(m)
    BY <1>2, <1>4, <2>1 DEF Status, AttemptAt
  <2>3. m \notin DecidingAt(LocationOf[r])
    BY <1>3 DEF RateLockFree
  <2> QED
    BY <2>2, <2>3 DEF DecidingAt, Status
<1>9. OneDecision'
  <2> SUFFICES ASSUME NEW m \in Messages, NEW n \in Messages,
                      Status(m)' = "deciding", Status(n)' = "deciding",
                      LocationOf[m[1]] = LocationOf[n[1]]
               PROVE  m = n
    BY DEF OneDecision, Messages
  <2>1. <<r, s>>[1] = r
    OBVIOUS
  <2>2. CASE m = <<r, s>> \/ n = <<r, s>>
    BY <1>8, <2>1, <2>2
  <2>3. CASE m # <<r, s>> /\ n # <<r, s>>
    BY <1>8, <2>3 DEF CapInv, OneDecision
  <2> QED
    BY <2>2, <2>3
<1>10. /\ DestinationCapKept => DestinationCapKept'
       /\ \A q \in Requests, i \in Nat : Cardinality(HeardSince(q, i)) < FrequencyMax
            => Cardinality(HeardSince(q, i)') < FrequencyMax
  <2>1. ASSUME NEW q \in Requests, NEW u \in Sequences, Surely(<<q, u>>)'
        PROVE  Surely(<<q, u>>) /\ attemptAt'[q][u] = attemptAt[q][u]
    BY <1>2, <1>3, <2>1 DEF Surely, Counted
  <2> QED
    BY <2>1, LessIsHeard DEF CapInv
<1>11. DecisionStands'
  <2> SUFFICES ASSUME NEW m \in Messages, Status(m)' = "deciding"
               PROVE  Cardinality(HeardSince(m[1], AttemptAt(m))') < FrequencyMax
    BY DEF DecisionStands, Messages
  <2>1. CASE m = <<r, s>>
    <3>1. m[1] = r /\ AttemptAt(m)' = t
      BY <1>2, <2>1 DEF AttemptAt
    <3>2. Cardinality(HeardSince(r, t)) < FrequencyMax
      BY <1>1, <1>5, CapCountsTheHeard DEF CapInv, Allowed
    <3>3. HeardSince(m[1], AttemptAt(m))' = HeardSince(r, t)'
      BY <3>1 DEF HeardSince
    <3> QED
      BY <1>5, <1>10, <3>2, <3>3
  <2>2. CASE m # <<r, s>>
    <3>1. Status(m) = "deciding" /\ AttemptAt(m)' = AttemptAt(m) /\ m[1] \in Requests
      BY <1>4, <1>8, <2>2
    <3>2. AttemptAt(m) \in Nat
      BY <1>4, LimitsAssumption DEF TypeOK, AttemptAt
    <3>3. Cardinality(HeardSince(m[1], AttemptAt(m))) < FrequencyMax
      BY <3>1 DEF CapInv, DecisionStands
    <3>4. HeardSince(m[1], AttemptAt(m))' =
            {q \in Requests \ {m[1]} :
               /\ DestinationOf[q] = DestinationOf[m[1]]
               /\ \E u \in Sequences : Surely(<<q, u>>)'
                    /\ attemptAt'[q][u] >= AttemptAt(m) - Window}
      BY <3>1 DEF HeardSince
    <3> QED
      BY <1>10, <3>1, <3>2, <3>3, <3>4
  <2> QED
    BY <2>1, <2>2
<1> QED
  BY <1>6, <1>7, <1>9, <1>10, <1>11 DEF CapInv

(* The customer of one request is a customer of one location. *)
OneLocationEach ==
  \A q, r \in Requests : DestinationOf[q] = DestinationOf[r] => LocationOf[q] = LocationOf[r]

(* The message that commits is heard; what it was decided on still holds.  *)
LEMMA CommittingKeepsTheCap ==
  ASSUME OneLocationEach, TypeOK, JobsAreOfRequests, CapInv,
         NEW r \in Requests, NEW s \in Sequences, CommitAttempt(r, s)
  PROVE  CapInv'
<1> DEFINE t == attemptAt[r][s]
<1>1. \A q \in Requests, u \in Sequences :
        jobOf'[q][u] = IF q = r /\ u = s THEN "sending" ELSE jobOf[q][u]
  BY JobBecomes DEF CommitAttempt, JobStates
<1>2. /\ jobOf[r][s] = "deciding"
      /\ attemptAt' = attemptAt /\ doubted' = doubted /\ request' = request
  BY DEF CommitAttempt, requestVars
<1>3. \A m \in Messages : m[1] \in Requests /\ m[2] \in Sequences /\ m = <<m[1], m[2]>>
  BY DEF Messages
<1>4. <<r, s>> \in Messages /\ <<r, s>>[1] = r /\ <<r, s>>[2] = s
  BY DEF Messages
<1>5. /\ FrequencyMax \in Nat /\ Window \in Nat
      /\ \A q \in Requests, u \in Sequences : attemptAt[q][u] \in Nat
  BY LimitsAssumption DEF TypeOK
<1>6. IsFiniteSet(Known)'
  BY <1>2 DEF CapInv, Known
<1>7. UnknownIsDoubted'
  BY <1>1, <1>2, <1>3 DEF CapInv, UnknownIsDoubted, Status
<1>8. \A m \in Messages : Status(m)' = "deciding" =>
        Status(m) = "deciding" /\ AttemptAt(m)' = AttemptAt(m) /\ m # <<r, s>>
  BY <1>1, <1>2, <1>3 DEF Status, AttemptAt
<1>9. OneDecision'
  BY <1>8 DEF CapInv, OneDecision, Messages
<1>10. \A q \in Requests, u \in Sequences :
         Surely(<<q, u>>)' => Surely(<<q, u>>) \/ (q = r /\ u = s)
  BY <1>1, <1>2 DEF Surely, Counted
<1>11. /\ Cardinality(HeardSince(r, t)) < FrequencyMax
       /\ IsFiniteSet(HeardSince(r, t))
  <2>1. Status(<<r, s>>) = "deciding" /\ AttemptAt(<<r, s>>) = t
    BY <1>2 DEF Status, AttemptAt
  <2>2. Cardinality(HeardSince(r, t)) < FrequencyMax
    BY <1>4, <2>1 DEF CapInv, DecisionStands
  <2>3. IsFiniteSet(HeardSince(r, t))
    BY <1>5, HeardAreFinite DEF CapInv
  <2> QED
    BY <2>2, <2>3
<1>12. DecisionStands'
  <2> SUFFICES ASSUME NEW m \in Messages, Status(m)' = "deciding"
               PROVE  Cardinality(HeardSince(m[1], AttemptAt(m))') < FrequencyMax
    BY DEF DecisionStands, Messages
  <2>1. /\ Status(m) = "deciding" /\ AttemptAt(m)' = AttemptAt(m)
        /\ m # <<r, s>> /\ m[1] \in Requests
    BY <1>3, <1>8
  <2>2. LocationOf[m[1]] # LocationOf[r]
    BY <1>2, <1>4, <2>1 DEF CapInv, OneDecision, Status
  <2>3. DestinationOf[r] # DestinationOf[m[1]]
    BY <2>1, <2>2 DEF OneLocationEach
  <2>4. AttemptAt(m) \in Nat
    BY <1>3, <1>5 DEF AttemptAt
  <2>5. HeardSince(m[1], AttemptAt(m))' \subseteq HeardSince(m[1], AttemptAt(m))
    BY <1>2, <1>10, <2>1, <2>3 DEF HeardSince
  <2>6. /\ IsFiniteSet(HeardSince(m[1], AttemptAt(m)))
        /\ Cardinality(HeardSince(m[1], AttemptAt(m))) < FrequencyMax
    BY <2>1, <2>4, HeardAreFinite DEF CapInv, DecisionStands
  <2> QED
    BY <1>5, <2>5, <2>6, PartIsSmall
<1>13. ASSUME NEW m \in Messages, Surely(m)'
       PROVE  Cardinality(HeardBefore(m)') < FrequencyMax
  <2> DEFINE a == attemptAt[m[1]][m[2]]
  <2>1. m[1] \in Requests /\ m[2] \in Sequences /\ m = <<m[1], m[2]>> /\ a \in Nat
    BY <1>3, <1>5
  <2>2. t \in Nat
    BY <1>5
  <2>3. AttemptAt(m)' = a /\ AttemptAt(m) = a
    BY <1>2 DEF AttemptAt
  <2>4. CASE m = <<r, s>>
    <3>1. HeardBefore(m)' \subseteq HeardSince(r, t)
      BY <1>2, <1>4, <1>5, <1>10, <2>3, <2>4 DEF HeardBefore, HeardSince
    <3> QED
      BY <1>5, <1>11, <3>1, PartIsSmall
  <2>5. CASE m # <<r, s>>
    <3>1. Surely(m)
      BY <1>10, <1>13, <2>1, <2>5
    <3>2. Cardinality(HeardBefore(m)) < FrequencyMax /\ IsFiniteSet(HeardBefore(m))
      BY <3>1, HeardAreFinite DEF CapInv, DestinationCapKept
    <3>3. CASE r \notin HeardBefore(m)'
      <4>1. HeardBefore(m)' \subseteq HeardBefore(m)
        BY <1>2, <1>10, <2>3, <3>3 DEF HeardBefore
      <4> QED
        BY <1>5, <3>2, <4>1, PartIsSmall
    <3>4. CASE r \in HeardBefore(m)' /\ ~(t \in (a - Window)..a)
      <4>1. HeardBefore(m)' \subseteq HeardBefore(m)
        BY <1>2, <1>10, <2>3, <3>4 DEF HeardBefore
      <4> QED
        BY <1>5, <3>2, <4>1, PartIsSmall
    <3>5. CASE r \in HeardBefore(m)' /\ t \in (a - Window)..a
      <4> DEFINE S == HeardSince(r, t)
                 B == HeardBefore(m)'
      <4>1. r # m[1] /\ DestinationOf[r] = DestinationOf[m[1]] /\ m[1] \notin B
        BY <3>5 DEF HeardBefore
      <4>2. m[1] \in S
        BY <1>5, <2>1, <2>2, <3>1, <3>5, <4>1 DEF HeardSince
      <4>3. B \subseteq (S \ {m[1]}) \cup {r}
        <5> SUFFICES ASSUME NEW q \in B, q # r PROVE q \in S
          BY <4>1
        <5>1. q \in Requests /\ DestinationOf[q] = DestinationOf[r]
          BY <4>1 DEF HeardBefore
        <5>2. PICK u \in Sequences :
                Surely(<<q, u>>)' /\ attemptAt[q][u] \in (a - Window)..a
          BY <1>2, <2>3 DEF HeardBefore
        <5>3. Surely(<<q, u>>) /\ attemptAt[q][u] >= t - Window
          BY <1>5, <1>10, <2>1, <2>2, <3>5, <5>1, <5>2
        <5> QED
          BY <5>1, <5>3 DEF HeardSince
      <4>4. r \notin S
        BY DEF HeardSince
      <4>5. /\ IsFiniteSet((S \ {m[1]}) \cup {r})
            /\ Cardinality((S \ {m[1]}) \cup {r}) < FrequencyMax
        <5> HIDE DEF S, B, t
        <5>1. IsFiniteSet(S) /\ Cardinality(S) < FrequencyMax
          BY <1>11 DEF S
        <5>2. /\ IsFiniteSet(S \ {m[1]})
              /\ Cardinality(S \ {m[1]}) = Cardinality(S) - 1
          BY <4>2, <5>1, FS_RemoveElement
        <5>3. /\ IsFiniteSet((S \ {m[1]}) \cup {r})
              /\ Cardinality((S \ {m[1]}) \cup {r}) = Cardinality(S \ {m[1]}) + 1
          BY <4>4, <5>2, FS_AddElement
        <5>4. Cardinality(S) \in Nat
          BY <5>1, FS_CardinalityType
        <5> QED
          BY <5>1, <5>2, <5>3, <5>4
      <4> QED
        <5> HIDE DEF S, B, t
        <5>1. Cardinality(B) < FrequencyMax
          BY <1>5, <4>3, <4>5, PartIsSmall
        <5> QED
          BY <5>1 DEF B
    <3> QED
      BY <3>3, <3>4, <3>5
  <2> QED
    BY <2>4, <2>5
<1>14. DestinationCapKept'
  BY <1>13 DEF DestinationCapKept, Messages
<1> QED
  BY <1>6, <1>7, <1>9, <1>12, <1>14 DEF CapInv

LEMMA CapInit == ASSUME Init PROVE CapInv
<1>1. \A m \in Messages : Status(m) = "none" /\ ~Surely(m)
  BY DEF Init, Messages, Status, Surely, Counted
<1>2. Known = {}
  BY DEF Init, Known
<1>3. IsFiniteSet(Known)
  BY <1>2, FS_EmptySet
<1> QED
  BY <1>1, <1>3 DEF CapInv, UnknownIsDoubted, OneDecision, DecisionStands, DestinationCapKept

LEMMA CapStep ==
  ASSUME OneLocationEach, ProgressInv, CapInv, [Next]_vars
  PROVE  CapInv'
<1>1. TypeOK /\ JobsAreOfRequests /\ IsFiniteSet(Known)
  BY DEF ProgressInv, CapInv
<1>2. (\A q \in Requests : request'[q] = "none" <=> request[q] = "none")
        => IsFiniteSet(Known)'
  BY <1>1 DEF Known
<1>3. ASSUME NEW r \in Requests, Create(r) PROVE CapInv'
  <2>1. 1 \in Sequences
    BY LimitsAssumption, SequencesAre
  <2>2. \A q \in Requests, u \in Sequences :
          jobOf'[q][u] = jobOf[q][u] \/ jobOf'[q][u] = "queued"
    BY <1>1, <1>3, <2>1, JobBecomes DEF Create, JobStates
  <2>3. Known' = Known \cup {r}
    BY <1>1, <1>3 DEF Create, Known, TypeOK
  <2>4. IsFiniteSet(Known)'
    BY <1>1, <2>3, FS_AddElement
  <2>5. attemptAt' = attemptAt /\ doubted' = doubted
    BY <1>3 DEF Create
  <2> QED
    BY <1>1, <2>2, <2>4, <2>5, QuietKeepsTheCap DEF CapInv, UnknownIsDoubted, Status
<1>4. ASSUME NEW r \in Requests, NEW s \in Sequences, Block(r, s) PROVE CapInv'
  <2>1. \A q \in Requests, u \in Sequences :
          jobOf'[q][u] = jobOf[q][u] \/ jobOf'[q][u] = "cancelled"
    BY <1>1, <1>4, JobBecomes DEF Block, JobStates
  <2>2. IsFiniteSet(Known)'
    BY <1>1, <1>2, <1>4 DEF Block, TypeOK, Live
  <2>3. attemptAt' = attemptAt /\ doubted' = doubted
    BY <1>4 DEF Block
  <2> QED
    BY <1>1, <2>1, <2>2, <2>3, QuietKeepsTheCap
<1>5. ASSUME NEW r \in Requests, NEW s \in Sequences,
             AbortAttempt(r, s) \/ LoseOutcome(r, s)
      PROVE  CapInv'
  <2>1. \A q \in Requests, u \in Sequences :
          \/ jobOf'[q][u] = jobOf[q][u]
          \/ jobOf'[q][u] = "queued"
          \/ jobOf'[q][u] = "unknown" /\ <<q, u>> \in doubted'
    <3>1. CASE AbortAttempt(r, s)
      BY <1>1, <3>1, JobBecomes DEF AbortAttempt, JobStates
    <3>2. CASE LoseOutcome(r, s)
      BY <1>1, <3>2, JobBecomes DEF LoseOutcome, JobStates
    <3> QED
      BY <1>5, <3>1, <3>2
  <2>2. /\ request' = request /\ attemptAt' = attemptAt /\ doubted \subseteq doubted'
    BY <1>5 DEF AbortAttempt, LoseOutcome, requestVars
  <2> QED
    BY <1>1, <1>2, <2>1, <2>2, QuietKeepsTheCap
<1>6. ASSUME NEW r \in Requests, NEW s \in Sequences, Finish(r, s) \/ Resolve(r, s)
      PROVE  CapInv'
  <2>1. /\ jobOf[r][s] \in {"sending", "unknown"}
        /\ attemptAt' = attemptAt /\ doubted' = doubted
    BY <1>6 DEF Finish, Resolve
  <2>2. CASE Complete(r, s)
    <3>1. \A q \in Requests, u \in Sequences :
            \/ jobOf'[q][u] = jobOf[q][u] \/ jobOf'[q][u] = "queued"
            \/ jobOf'[q][u] = "completed" /\ jobOf[q][u] \in {"sending", "unknown"}
      BY <1>1, <2>1, <2>2 DEF Complete, TypeOK
    <3>2. \A q \in Requests : request'[q] = "none" <=> request[q] = "none"
      BY <1>1, <2>2 DEF Complete, TypeOK
    <3>3. ASSUME NEW q \in Requests, NEW u \in Sequences
          PROVE  /\ jobOf'[q][u] \in {"deciding", "sending"} => jobOf'[q][u] = jobOf[q][u]
                 /\ jobOf'[q][u] = "completed" => jobOf[q][u] \in {"sending", "unknown", "completed"}
                 /\ jobOf'[q][u] = "unknown" => jobOf[q][u] = "unknown" \/ <<q, u>> \in doubted'
      BY <3>1
    <3> QED
      BY <1>1, <1>2, <2>1, <3>2, <3>3, QuietKeepsTheCap
  <2>3. CASE ~Complete(r, s)
    <3>1. /\ \E status \in {"queued", "dead_letter"} : Becomes(r, s, status)
          /\ request' = request
      BY <1>6, <2>3 DEF Finish, Resolve, requestVars
    <3>2. \A q \in Requests, u \in Sequences :
            jobOf'[q][u] = jobOf[q][u] \/ jobOf'[q][u] \in {"queued", "dead_letter"}
      BY <1>1, <3>1, JobBecomes DEF JobStates
    <3> QED
      BY <1>1, <1>2, <2>1, <3>1, <3>2, QuietKeepsTheCap
  <2> QED
    BY <2>2, <2>3
<1>7. ASSUME UNCHANGED <<requestVars, jobVars>> PROVE CapInv'
  <2>1. UNCHANGED <<request, jobOf, attemptAt, doubted>>
    BY <1>7 DEF requestVars, jobVars
  <2> QED
    BY <1>1, <1>2, <2>1, QuietKeepsTheCap
<1>8. ASSUME NEW l \in Locations, CommitDisconnect(l) PROVE CapInv'
  <2>1. \A q \in Requests, u \in Sequences :
          jobOf'[q][u] = jobOf[q][u] \/ jobOf'[q][u] = "cancelled"
    BY <1>8 DEF CommitDisconnect
  <2>2. \A q \in Requests : request'[q] = "none" <=> request[q] = "none"
    BY <1>8 DEF CommitDisconnect, Live
  <2>3. attemptAt' = attemptAt /\ doubted' = doubted
    BY <1>8 DEF CommitDisconnect
  <2> QED
    BY <1>1, <1>2, <2>1, <2>2, <2>3, QuietKeepsTheCap
<1>9. ASSUME NEW d \in Destinations, Suppress(d) \/ LiftSuppression(d) PROVE CapInv'
  BY <1>7, <1>9 DEF Suppress, LiftSuppression
<1>10. ASSUME NEW l \in Locations, BeginDisconnect(l) \/ Reconnect(l) PROVE CapInv'
  BY <1>7, <1>10 DEF BeginDisconnect, Reconnect
<1>11. CASE Tick
  BY <1>7, <1>11 DEF Tick
<1>12. CASE UNCHANGED vars
  BY <1>7, <1>12 DEF vars, requestVars, jobVars
<1> QED
  BY <1>1, <1>3, <1>4, <1>5, <1>6, <1>8, <1>9, <1>10, <1>11, <1>12,
     DecidingKeepsTheCap, CommittingKeepsTheCap DEF Next

(* No customer of one location hears from more requests within the         *)
(* frequency window than the policy allows: deciding under the lock of the *)
(* location and keeping it until the attempt is committed is enough, also  *)
(* when attempts bear their times out of order.  Customers of two          *)
(* locations are not served so well: see the run cadence_two_locations.    *)
THEOREM CustomersAreNotCrowded ==
  ASSUME OneLocationEach
  PROVE  Spec => []DestinationCapKept
<1>1. Init => CapInv
  BY CapInit
<1>2. ProgressInv /\ CapInv /\ [Next]_vars => CapInv'
  BY CapStep
<1>3. CapInv => DestinationCapKept
  BY DEF CapInv
<1> QED
  BY <1>1, <1>2, <1>3, ProgressInvariant, PTL DEF Spec

=============================================================================
