---------------------------- MODULE LockProofs -----------------------------
(* The lock of a preparation: who works under it owns it, for any number of *)
(* processes, and a take-over is one step to anybody but its claimant,      *)
(* however many processes died in the middle of theirs.                     *)
EXTENDS PreparationLock, RecoveryCleanup, FiniteSetTheorems, TLAPS

-----------------------------------------------------------------------------
(* Who works under the lock owns it.                                        *)

(* The hypothesis: no directory is renamed away while a process is held up  *)
(* between comparing a file that says whose the claim is and the call that  *)
(* changes the claim by its path.  (Of a take-over, only the first part is  *)
(* asked: the others cannot be in its way.)                                 *)
ClaimsAreSettledInTime ==
  \A p, q \in Processes :
    /\ Move(p) \/ MoveOwn(p) => ~At(q, "restore_claim")
    /\ MoveOwn(p) => ~At(q, "unlink_claim") /\ ~At(q, "unlink_dead_claim")

(* Who has looked at the owner again has found it dead; who is about to     *)
(* move the directory away has the claim in it, and it is the one judged.   *)
ReclaimersAreRight ==
  \A p \in Processes : alive[p] /\ lockStep[p] \in {"check", "move"} =>
    /\ observed[p] \in Processes /\ ~alive[observed[p]]
    /\ lockStep[p] = "move" => lock = observed[p] /\ claim[lock] = p

(* Who undoes its claim still has it in the directory at the path.          *)
UndoersHaveTheClaim ==
  \A p \in Processes : At(p, "unlink_claim") => lock \in Processes /\ claim[lock] = p

(* Who replaces or restores a claim has judged a dead process.              *)
DeadAreJudged ==
  \A p \in Processes :
    alive[p] /\ lockStep[p] \in {"restore_claim", "announce", "dead_claim", "unlink_dead_claim"} =>
      judged[p] \in Processes /\ ~alive[judged[p]]
ClaimantsAreJudged ==
  \A p \in Processes : At(p, "judge_claim") => judged[p] \in Processes

(* Who unlinks a dead claim has it in the directory at the path, and its    *)
(* transition beside it.                                                    *)
ReplacersHaveTheClaim ==
  \A p \in Processes : At(p, "unlink_dead_claim") =>
    lock \in Processes /\ claim[lock] = judged[p] /\ transition[p] = lock

(* A transition in another directory was made for a claimant that has       *)
(* neither a claim nor a transition in the one at the path: nor will a      *)
(* process that restores a claim bring it there.                            *)
AnnouncedAreElsewhere ==
  \A p \in Processes : At(p, "dead_claim") =>
    /\ transition[p] \in Processes
    /\ lock \in Processes /\ transition[p] # lock =>
         /\ claim[lock] # judged[p] /\ transition[judged[p]] # lock
         /\ \A q \in Processes : At(q, "restore_claim") => judged[q] # judged[p]
RestorersAreAtTheLock == \A p \in Processes : At(p, "restore_claim") => lock \in Processes

(* One process at a time announces itself for a dead claimant.              *)
Unannounced == {"install", "missing", "read", "judge", "handoff", "judge_handoff",
                "restore_claim", "known_handoff", "unlink_dead_handoff", "claim",
                "judge_claim", "announce"}
SeekersAreUnannounced ==
  \A p \in Processes : alive[p] /\ lockStep[p] \in Unannounced => transition[p] = NoProcess
OneSuccessor ==
  \A p, q \in Processes : p # q /\ transition[p] = transition[q] /\ transition[p] # NoProcess
    => judged[p] # judged[q]

(* A directory that has not been installed yet holds nothing.               *)
NeverOwned(p) ==
  /\ lockStep[p] \notin {"hold", "leave", "move_own", "released", "failed"}
  /\ lockStep[p] = "sweep" => observed[p] # p
NewAreEmpty ==
  \A p \in Processes : alive[p] /\ NeverOwned(p) =>
    lock # p /\ claim[p] = NoProcess /\ \A q \in Processes : transition[q] # p

LockInv ==
  /\ LockTypeOK /\ ReclaimersAreRight /\ UndoersHaveTheClaim /\ DeadAreJudged /\ ClaimantsAreJudged
  /\ ReplacersHaveTheClaim /\ AnnouncedAreElsewhere /\ RestorersAreAtTheLock
  /\ SeekersAreUnannounced /\ OneSuccessor /\ NewAreEmpty /\ HoldersOwnTheLock

LEMMA LockInitHolds == LockInit => LockInv
BY LockAssumption
   DEF LockInit, LockInv, LockTypeOK, ReclaimersAreRight, UndoersHaveTheClaim, DeadAreJudged,
       ClaimantsAreJudged, ReplacersHaveTheClaim, AnnouncedAreElsewhere,
       RestorersAreAtTheLock, SeekersAreUnannounced, OneSuccessor,
       Unannounced, NewAreEmpty, NeverOwned, HoldersOwnTheLock, Holding, At, LockSteps,
       MaxInstalls, Nowhere, OrNone

(* What the place of a process asks for, from the state it goes there in.   *)
Owning == {"hold", "leave", "move_own", "released", "failed"}
FitsItsPlace(p, step, claimant) ==
  /\ step \in {"check", "move"} => observed[p] \in Processes /\ ~alive[observed[p]]
  /\ step = "move" => lock = observed[p] /\ claim[lock] = p
  /\ step = "unlink_claim" => lock \in Processes /\ claim[lock] = p
  /\ step \in {"restore_claim", "announce", "unlink_dead_claim"} =>
       claimant \in Processes /\ ~alive[claimant]
  /\ step = "judge_claim" => claimant \in Processes
  /\ step = "unlink_dead_claim" =>
       lock \in Processes /\ claim[lock] = claimant /\ transition[p] = lock
  /\ step = "restore_claim" => lock \in Processes /\ transition[claimant] = lock
  /\ step \in Unannounced => transition[p] = NoProcess
  /\ step \in Holding => lock = p
  /\ step \notin {"dead_claim", "sweep"}
  /\ step \notin Owning => NeverOwned(p)

(* A step of a process that leaves the directories alone, but for a         *)
(* handoff, keeps the invariant if its new place suits it; it judges        *)
(* another process only before it has announced itself.                     *)
LEMMA WalkKeeps ==
  ASSUME LockInv, NEW p \in Processes, NEW step \in LockSteps, alive[p],
         NEW claimant \in OrNone,
         lockStep' = [lockStep EXCEPT ![p] = step],
         judged' = [judged EXCEPT ![p] = claimant],
         claimant = judged[p] \/ transition[p] = NoProcess,
         handoff' \in [Processes -> OrNone],
         UNCHANGED <<lock, claim, transition, alive, observed, installs>>,
         FitsItsPlace(p, step, claimant)
  PROVE  LockInv'
<1>0. /\ LockTypeOK /\ ReclaimersAreRight /\ UndoersHaveTheClaim /\ DeadAreJudged
      /\ ClaimantsAreJudged /\ ReplacersHaveTheClaim /\ AnnouncedAreElsewhere
      /\ RestorersAreAtTheLock /\ SeekersAreUnannounced /\ OneSuccessor /\ NewAreEmpty
      /\ HoldersOwnTheLock
  BY DEF LockInv
<1>1. LockTypeOK'
  BY <1>0 DEF LockTypeOK
<1>2. /\ lockStep'[p] = step /\ judged'[p] = claimant
      /\ \A q \in Processes \ {p} : lockStep'[q] = lockStep[q] /\ judged'[q] = judged[q]
  BY <1>0 DEF LockTypeOK
<1>3. ReclaimersAreRight' /\ UndoersHaveTheClaim' /\ HoldersOwnTheLock'
  BY <1>0, <1>2 DEF FitsItsPlace, ReclaimersAreRight, UndoersHaveTheClaim, HoldersOwnTheLock, At
<1>4. DeadAreJudged' /\ ReplacersHaveTheClaim'
  BY <1>0, <1>2 DEF FitsItsPlace, DeadAreJudged, ReplacersHaveTheClaim, At
<1>5. RestorersAreAtTheLock' /\ ClaimantsAreJudged' /\ SeekersAreUnannounced'
  BY <1>0, <1>2 DEF FitsItsPlace, RestorersAreAtTheLock, ClaimantsAreJudged,
     SeekersAreUnannounced, At
<1>6. AnnouncedAreElsewhere'
  BY <1>0, <1>2 DEF FitsItsPlace, AnnouncedAreElsewhere, At
<1>7. OneSuccessor'
  BY <1>0, <1>2 DEF OneSuccessor
<1>8. NewAreEmpty'
  BY <1>0, <1>2 DEF FitsItsPlace, NewAreEmpty, NeverOwned, Owning
<1>. QED
  BY <1>1, <1>3, <1>4, <1>5, <1>6, <1>7, <1>8 DEF LockInv

(* The lock changes hands through the path only.                            *)
LEMMA InstallKeeps ==
  ASSUME LockInv, NEW p \in Processes, Install(p)
  PROVE  LockInv'
<1> USE DEF Install, At, Goto, lockFiles
<1>1. LockTypeOK /\ LockTypeOK'
  BY DEF LockInv, LockTypeOK, MaxInstalls, LockSteps, OrNone
<1>2. /\ lock' \in {p, lock}
      /\ lockStep' = [lockStep EXCEPT ![p] = IF lock = NoProcess THEN "hold" ELSE "missing"]
      /\ lock # NoProcess => lock' = lock
      /\ lock = NoProcess => lock' = p
  BY <1>1
<1>3. lockStep[p] = "install" /\ alive[p]
  OBVIOUS
<1>4. CASE lock # NoProcess
  <2>1. ReclaimersAreRight' /\ UndoersHaveTheClaim' /\ HoldersOwnTheLock' /\ DeadAreJudged'
    BY <1>1, <1>2, <1>4 DEF LockInv, LockTypeOK, ReclaimersAreRight, UndoersHaveTheClaim,
                             HoldersOwnTheLock, Holding, DeadAreJudged
  <2>2. ReplacersHaveTheClaim' /\ RestorersAreAtTheLock' /\ ClaimantsAreJudged' /\ AnnouncedAreElsewhere'
    BY <1>1, <1>2, <1>4 DEF LockInv, LockTypeOK, ReplacersHaveTheClaim, RestorersAreAtTheLock,
                            ClaimantsAreJudged, AnnouncedAreElsewhere
  <2>3. SeekersAreUnannounced' /\ OneSuccessor' /\ NewAreEmpty'
    BY <1>1, <1>2, <1>3, <1>4 DEF LockInv, LockTypeOK, SeekersAreUnannounced,
       OneSuccessor, Unannounced, NewAreEmpty,
                             NeverOwned
  <2>. QED
    BY <1>1, <2>1, <2>2, <2>3 DEF LockInv
<1>5. CASE lock = NoProcess
  <2>1. \A q \in Processes : alive[q] =>
          lockStep[q] \notin Holding \cup {"move", "unlink_claim", "unlink_dead_claim", "restore_claim"}
    BY <1>5, LockAssumption
       DEF LockInv, LockTypeOK, ReclaimersAreRight, UndoersHaveTheClaim, ReplacersHaveTheClaim,
           RestorersAreAtTheLock, HoldersOwnTheLock
  <2>2. lock' = p /\ claim[p] = NoProcess /\ \A q \in Processes : transition[q] # p
    BY <1>2, <1>3, <1>5 DEF LockInv, NewAreEmpty, NeverOwned
  <2>3. ReclaimersAreRight' /\ UndoersHaveTheClaim' /\ HoldersOwnTheLock' /\ DeadAreJudged'
    BY <1>1, <1>2, <1>5, <2>1, <2>2
       DEF LockInv, LockTypeOK, ReclaimersAreRight, UndoersHaveTheClaim, HoldersOwnTheLock,
           DeadAreJudged
  <2>4. ReplacersHaveTheClaim' /\ RestorersAreAtTheLock' /\ ClaimantsAreJudged'
    BY <1>1, <1>2, <1>5, <2>1 DEF LockInv, LockTypeOK, ReplacersHaveTheClaim,
       RestorersAreAtTheLock,
     ClaimantsAreJudged
  <2>5. AnnouncedAreElsewhere'
    BY <1>1, <1>2, <1>5, <2>1, <2>2, LockAssumption
       DEF LockInv, LockTypeOK, AnnouncedAreElsewhere, DeadAreJudged
  <2>6. SeekersAreUnannounced' /\ OneSuccessor' /\ NewAreEmpty'
    BY <1>1, <1>2, <1>5, <2>2 DEF LockInv, LockTypeOK, SeekersAreUnannounced,
       OneSuccessor, Unannounced, NewAreEmpty,
                                  NeverOwned
  <2>. QED
    BY <1>1, <2>3, <2>4, <2>5, <2>6 DEF LockInv
<1>. QED
  BY <1>4, <1>5

(* A claim is written where there is none: nobody is about to move the      *)
(* directory or to remove a claim from it.                                  *)
LEMMA WriteClaimIn ==
  ASSUME LockInv, NEW p \in Processes, NEW q \in Processes, NEW step \in LockSteps,
         alive[p], lock \in Processes, claim[lock] = NoProcess,
         claim' = [claim EXCEPT ![lock] = q],
         lockStep' = [lockStep EXCEPT ![p] = step],
         lockStep[p] \in {"restore_claim", "claim", "write_claim"},
         step \in {"known_handoff", "hand_over", "drop_handoff"},
         step = "known_handoff" => lockStep[p] = "restore_claim",
         q = p \/ (q = judged[p] /\ lockStep[p] = "restore_claim"),
         UNCHANGED <<lock, handoff, transition, lockProcesses>>
  PROVE  LockInv'
<1> USE DEF lockProcesses
<1>1. LockTypeOK /\ LockTypeOK'
  BY DEF LockInv, LockTypeOK, OrNone
<1>2. \A r \in Processes : alive[r] =>
        lockStep[r] \notin {"move", "unlink_claim", "unlink_dead_claim"}
  BY LockAssumption DEF LockInv, ReclaimersAreRight, UndoersHaveTheClaim, ReplacersHaveTheClaim,
     DeadAreJudged, At
<1>3. ReclaimersAreRight' /\ UndoersHaveTheClaim' /\ ReplacersHaveTheClaim'
  BY <1>1, <1>2 DEF LockInv, LockTypeOK, ReclaimersAreRight, UndoersHaveTheClaim,
                    ReplacersHaveTheClaim, At
<1>4. DeadAreJudged' /\ RestorersAreAtTheLock' /\ ClaimantsAreJudged' /\ HoldersOwnTheLock'
  BY <1>1 DEF LockInv, LockTypeOK, DeadAreJudged, RestorersAreAtTheLock, ClaimantsAreJudged,
              HoldersOwnTheLock, Holding, At
<1>5. AnnouncedAreElsewhere'
  BY <1>1 DEF LockInv, LockTypeOK, AnnouncedAreElsewhere, DeadAreJudged, At
<1>6. SeekersAreUnannounced' /\ OneSuccessor' /\ NewAreEmpty'
  BY <1>1 DEF LockInv, LockTypeOK, SeekersAreUnannounced, OneSuccessor, Unannounced,
     NewAreEmpty, NeverOwned
<1>. QED
  BY <1>1, <1>3, <1>4, <1>5, <1>6 DEF LockInv

LEMMA LooksKeep ==
  ASSUME LockInv, NEW p \in Processes,
         Missing(p) \/ Judge(p) \/ TakeHandoff(p) \/ ReadHandoff(p) \/ JudgeHandoff(p)
           \/ CompareHandoff(p) \/ UnlinkDeadHandoff(p) \/ ReadClaim(p) \/ CompareDeadClaim(p)
           \/ ReleaseHandoff(p) \/ UnlinkHandoff(p) \/ Recheck(p) \/ Check(p)
           \/ GiveBackHandoff(p) \/ UndoClaim(p) \/ Leave(p) \/ ReleaseLock(p) \/ Throws(p)
  PROVE  LockInv'
<1> USE DEF At, Goto, lockFiles, lockProcesses
<1>1. LockTypeOK /\ ReclaimersAreRight /\ HoldersOwnTheLock /\ AnnouncedAreElsewhere /\ alive[p]
  BY DEF LockInv, Missing, Judge, TakeHandoff, ReadHandoff, JudgeHandoff, CompareHandoff,
     UnlinkDeadHandoff, ReadClaim, CompareDeadClaim, ReleaseHandoff, UnlinkHandoff, Recheck,
     Check, GiveBackHandoff, UndoClaim, Leave, ReleaseLock, Throws
<1>2. judged = [judged EXCEPT ![p] = judged[p]] /\ judged[p] \in OrNone
  BY <1>1 DEF LockTypeOK
<1>3. DeadAreJudged /\ (lockStep[p] \in Unannounced => transition[p] = NoProcess)
  BY <1>1 DEF LockInv, SeekersAreUnannounced, OneSuccessor
<1> USE DEF FitsItsPlace, Unannounced, Holding, Owning, NeverOwned, LockSteps
<1>4. CASE Missing(p) \/ Judge(p) \/ TakeHandoff(p)
  BY <1>1, <1>2, <1>3, <1>4, WalkKeeps, LockAssumption DEF Missing, Judge, TakeHandoff,
     LockTypeOK, OrNone
<1>5. CASE ReadHandoff(p) \/ UnlinkDeadHandoff(p) \/ ReadClaim(p)
  <2>1. PICK claimant \in OrNone :
          judged' = [judged EXCEPT ![p] = claimant] /\ (ReadClaim(p) => claimant \in Processes)
    BY <1>1, <1>5 DEF ReadHandoff, UnlinkDeadHandoff, ReadClaim, LockTypeOK, OrNone, HasAClaim
  <2>2. /\ UNCHANGED <<lock, claim, transition, alive, observed, installs>>
        /\ handoff' \in [Processes -> OrNone]
    BY <1>1, <1>5 DEF ReadHandoff, UnlinkDeadHandoff, ReadClaim, LockTypeOK, OrNone
  <2>3. transition[p] = NoProcess
    BY <1>3, <1>5 DEF ReadHandoff, UnlinkDeadHandoff, ReadClaim
  <2>4. CASE ReadClaim(p)
    BY <1>1, <2>1, <2>2, <2>3, <2>4, WalkKeeps DEF ReadClaim
  <2>5. CASE ReadHandoff(p)
    BY <1>1, <2>1, <2>2, <2>3, <2>5, WalkKeeps DEF ReadHandoff
  <2>6. CASE UnlinkDeadHandoff(p)
    BY <1>1, <2>1, <2>2, <2>3, <2>6, WalkKeeps DEF UnlinkDeadHandoff
  <2>. QED
    BY <1>5, <2>4, <2>5, <2>6
<1>6. CASE JudgeHandoff(p) \/ CompareHandoff(p)
  BY <1>1, <1>2, <1>3, <1>6, WalkKeeps, LockAssumption
     DEF JudgeHandoff, CompareHandoff, LockTypeOK, OrNone, Announced
<1>7. CASE CompareDeadClaim(p)
  <2>1. lock \in Processes /\ claim[lock] = judged[p] /\ transition[p] = lock
    BY <1>1, <1>7, LockAssumption DEF CompareDeadClaim, HasAClaim, LockTypeOK, OrNone,
       AnnouncedAreElsewhere
  <2>2. judged[p] \in Processes /\ ~alive[judged[p]]
    BY <1>3, <1>7 DEF CompareDeadClaim, DeadAreJudged
  <2>. QED
    BY <1>1, <1>2, <1>7, <2>1, <2>2, WalkKeeps DEF CompareDeadClaim, LockTypeOK
<1>8. CASE ReleaseHandoff(p) \/ UnlinkHandoff(p) \/ GiveBackHandoff(p)
  <2>1. PICK step \in {"unlink_handoff", "unlink_handoff_undoing",
                       "unlink_handoff_dropping", "recheck", "undo_claim", "failed"} :
          /\ lockStep' = [lockStep EXCEPT ![p] = step]
          /\ step # "failed" => NeverOwned(p)
    <3>1. CASE ReleaseHandoff(p)
      BY <3>1 DEF ReleaseHandoff
    <3>2. CASE UnlinkHandoff(p)
      BY <3>2 DEF UnlinkHandoff, AfterHandoff
    <3>3. CASE GiveBackHandoff(p)
      BY <3>3 DEF GiveBackHandoff, AfterHandoff
    <3>. QED
      BY <1>8, <3>1, <3>2, <3>3
  <2>2. FitsItsPlace(p, step, judged[p])
    BY <2>1
  <2>3. UNCHANGED <<lock, claim, transition, alive, observed, judged, installs>>
    BY <1>8 DEF ReleaseHandoff, UnlinkHandoff, GiveBackHandoff
  <2>4. handoff' \in [Processes -> OrNone]
    BY <1>1, <1>8 DEF ReleaseHandoff, UnlinkHandoff, GiveBackHandoff, LockTypeOK, OrNone
  <2>5. step \in LockSteps
    BY <2>1
  <2> HIDE DEF FitsItsPlace, LockSteps
  <2>. QED
    BY <1>1, <1>2, <2>1, <2>2, <2>3, <2>4, <2>5, WalkKeeps
<1>9. CASE Recheck(p) \/ Check(p)
  BY <1>1, <1>2, <1>9, WalkKeeps, LockAssumption
     DEF Recheck, Check, LockTypeOK, OrNone, ReclaimersAreRight
<1>10. CASE UndoClaim(p) \/ Throws(p)
  <2>1. PICK step \in LockSteps :
          lockStep' = [lockStep EXCEPT ![p] = step] /\ FitsItsPlace(p, step, judged[p])
    <3>1. CASE UndoClaim(p) /\ HasAClaim
      <4>1. lock \in Processes /\ claim[lock] = p
        BY <1>1, <3>1 DEF UndoClaim, HasAClaim, LockTypeOK, OrNone
      <4>. QED
        BY <3>1, <4>1 DEF UndoClaim
    <3>2. CASE UndoClaim(p) /\ ~HasAClaim
      BY <3>2 DEF UndoClaim
    <3>3. CASE Throws(p)
      <4>1. PICK step \in {"drop_handoff", "undo_handoff", "undo_claim", "failed"} :
              /\ lockStep' = [lockStep EXCEPT ![p] = step]
              /\ step # "failed" => NeverOwned(p)
        BY <3>3 DEF Throws
      <4>. QED
        BY <4>1
    <3>. QED
      BY <1>10, <3>1, <3>2, <3>3
  <2>2. /\ UNCHANGED <<lock, claim, transition, alive, observed, judged, installs>>
        /\ handoff' \in [Processes -> OrNone]
    BY <1>1, <1>10 DEF UndoClaim, Throws, LockTypeOK
  <2> HIDE DEF FitsItsPlace, LockSteps
  <2>. QED
    BY <1>1, <1>2, <2>1, <2>2, WalkKeeps
<1>11. CASE Leave(p) \/ ReleaseLock(p)
  BY <1>1, <1>2, <1>11, WalkKeeps DEF Leave, ReleaseLock, LockTypeOK, HoldersOwnTheLock
<1>. QED
  BY <1>4, <1>5, <1>6, <1>7, <1>8, <1>9, <1>10, <1>11

LEMMA ReadOwnerKeeps ==
  ASSUME LockInv, NEW p \in Processes, ReadOwner(p)
  PROVE  LockInv'
<1> USE DEF ReadOwner, At, Goto, lockFiles
<1>1. LockTypeOK /\ LockTypeOK'
  BY DEF LockInv, LockTypeOK, LockSteps
<1>2. ReclaimersAreRight' /\ UndoersHaveTheClaim' /\ HoldersOwnTheLock' /\ DeadAreJudged'
  BY <1>1 DEF LockInv, LockTypeOK, ReclaimersAreRight, UndoersHaveTheClaim, HoldersOwnTheLock,
              Holding, DeadAreJudged
<1>3. ReplacersHaveTheClaim' /\ RestorersAreAtTheLock' /\ ClaimantsAreJudged' /\ AnnouncedAreElsewhere'
  BY <1>1 DEF LockInv, LockTypeOK, ReplacersHaveTheClaim, RestorersAreAtTheLock,
              ClaimantsAreJudged, AnnouncedAreElsewhere
<1>4. SeekersAreUnannounced' /\ OneSuccessor' /\ NewAreEmpty'
  BY <1>1 DEF LockInv, LockTypeOK, SeekersAreUnannounced, OneSuccessor, Unannounced,
     NewAreEmpty, NeverOwned
<1>. QED
  BY <1>1, <1>2, <1>3, <1>4 DEF LockInv

LEMMA ClaimsKeep ==
  ASSUME LockInv, NEW p \in Processes, RestoreClaim(p) \/ TakeClaim(p) \/ WriteOwnClaim(p)
  PROVE  LockInv'
<1> USE DEF At, Goto, lockFiles, lockProcesses
<1>1. LockTypeOK /\ alive[p] /\ lock \in Processes
  BY DEF LockInv, LockTypeOK, OrNone, RestoreClaim, TakeClaim, WriteOwnClaim
<1>2. CASE TakeClaim(p) \/ WriteOwnClaim(p)
  BY <1>1, <1>2, WriteClaimIn DEF TakeClaim, WriteOwnClaim, LockSteps
<1>3. CASE RestoreClaim(p) /\ claim[lock] = NoProcess
  <2>1. judged[p] \in Processes
    BY <1>3 DEF RestoreClaim, LockInv, DeadAreJudged
  <2>. QED
    BY <1>1, <1>3, <2>1, WriteClaimIn DEF RestoreClaim, LockSteps
<1>4. CASE RestoreClaim(p) /\ claim[lock] # NoProcess
  <2>1. claim' = claim /\ judged = [judged EXCEPT ![p] = judged[p]] /\ judged[p] \in OrNone
    BY <1>1, <1>4 DEF RestoreClaim, LockTypeOK
  <2>2. transition[p] = NoProcess
    BY <1>4 DEF RestoreClaim, LockInv, SeekersAreUnannounced, OneSuccessor, Unannounced
  <2>3. UNCHANGED <<lock, handoff, claim, transition, lockProcesses>>
    BY <1>4, <2>1 DEF RestoreClaim
  <2>4. /\ lockStep' = [lockStep EXCEPT ![p] = "known_handoff"] /\ handoff' \in [Processes -> OrNone]
        /\ lockStep[p] = "restore_claim"
    BY <1>1, <1>4, <2>3 DEF RestoreClaim, LockTypeOK
  <2>. QED
    BY <1>1, <2>1, <2>2, <2>3, <2>4, WalkKeeps
       DEF FitsItsPlace, Unannounced, Holding, Owning, NeverOwned,
           LockSteps
<1>. QED
  BY <1>2, <1>3, <1>4

(* What a process removes of others' transitions is of dead ones.           *)
LEMMA JudgeClaimKeeps ==
  ASSUME LockInv, NEW p \in Processes, JudgeClaim(p)
  PROVE  LockInv'
<1> USE DEF JudgeClaim, At, Goto, lockProcesses, Announced
<1>1. LockTypeOK /\ LockTypeOK'
  BY DEF LockInv, LockTypeOK, LockSteps, OrNone
<1>2. /\ \A q \in Processes : transition'[q] \in {transition[q], NoProcess}
      /\ \A q \in Processes : alive[q] => transition'[q] = transition[q]
      /\ transition[p] = NoProcess /\ lock \in Processes
  BY <1>1 DEF LockInv, LockTypeOK, OrNone, SeekersAreUnannounced, OneSuccessor, Unannounced
<1>3. judged[p] \in Processes /\ ~alive[judged[p]]
  BY DEF LockInv, ClaimantsAreJudged
<1>4. ReclaimersAreRight' /\ UndoersHaveTheClaim' /\ HoldersOwnTheLock'
  BY <1>1 DEF LockInv, LockTypeOK, ReclaimersAreRight, UndoersHaveTheClaim, HoldersOwnTheLock,
              Holding
<1>5. DeadAreJudged' /\ ReplacersHaveTheClaim' /\ RestorersAreAtTheLock' /\ ClaimantsAreJudged'
  BY <1>1, <1>2, <1>3 DEF LockInv, LockTypeOK, DeadAreJudged, ReplacersHaveTheClaim,
                    RestorersAreAtTheLock, ClaimantsAreJudged
<1>6. AnnouncedAreElsewhere'
  BY <1>1, <1>2, LockAssumption DEF LockInv, LockTypeOK, AnnouncedAreElsewhere, DeadAreJudged
<1>7. SeekersAreUnannounced' /\ OneSuccessor'
  BY <1>1, <1>2 DEF LockInv, LockTypeOK, SeekersAreUnannounced, OneSuccessor, Unannounced
<1>8. NewAreEmpty'
  BY <1>1, <1>2, LockAssumption DEF LockInv, LockTypeOK, NewAreEmpty, NeverOwned
<1>. QED
  BY <1>1, <1>4, <1>5, <1>6, <1>7, <1>8 DEF LockInv

LEMMA AnnounceKeeps ==
  ASSUME LockInv, NEW p \in Processes, AnnounceSuccessor(p)
  PROVE  LockInv'
<1> USE DEF AnnounceSuccessor, At, Goto, lockProcesses, Announced
<1>1. LockTypeOK /\ LockTypeOK' /\ lock \in Processes
  BY DEF LockInv, LockTypeOK, LockSteps, OrNone
<1>2. judged[p] \in Processes /\ ~alive[judged[p]]
  BY DEF LockInv, DeadAreJudged
<1>3. ReclaimersAreRight' /\ UndoersHaveTheClaim' /\ HoldersOwnTheLock'
  BY <1>1 DEF LockInv, LockTypeOK, ReclaimersAreRight, UndoersHaveTheClaim, HoldersOwnTheLock,
              Holding
<1>4. DeadAreJudged' /\ ReplacersHaveTheClaim' /\ RestorersAreAtTheLock' /\ ClaimantsAreJudged'
  BY <1>1, <1>2 DEF LockInv, LockTypeOK, DeadAreJudged, ReplacersHaveTheClaim,
                    RestorersAreAtTheLock, ClaimantsAreJudged
<1>5. AnnouncedAreElsewhere'
  BY <1>1, <1>2 DEF LockInv, LockTypeOK, AnnouncedAreElsewhere, DeadAreJudged
<1>6. SeekersAreUnannounced' /\ OneSuccessor'
  BY <1>1 DEF LockInv, LockTypeOK, SeekersAreUnannounced, OneSuccessor, Unannounced
<1>7. NewAreEmpty'
  BY <1>1 DEF LockInv, LockTypeOK, NewAreEmpty, NeverOwned
<1>. QED
  BY <1>1, <1>3, <1>4, <1>5, <1>6, <1>7 DEF LockInv

(* A process gives up its transition, or ends.                              *)
LEMMA EndsKeep ==
  ASSUME LockInv, NEW p \in Processes, NEW step \in {"failed", "drop_handoff", "install", "released"},
         alive[p], NEW mine \in {NoProcess, transition[p]}, NEW claimant \in {NoProcess, judged[p]},
         lockStep' = [lockStep EXCEPT ![p] = step],
         transition' = [transition EXCEPT ![p] = mine],
         judged' = [judged EXCEPT ![p] = claimant],
         claimant = judged[p] \/ mine = NoProcess,
         step = "install" => mine = NoProcess,
         step \in {"install", "drop_handoff"} => NeverOwned(p),
         UNCHANGED <<lock, handoff, claim, alive, observed, installs>>
  PROVE  LockInv'
<1>1. LockTypeOK /\ LockTypeOK'
  BY DEF LockInv, LockTypeOK, LockSteps, OrNone
<1>2. ReclaimersAreRight' /\ UndoersHaveTheClaim' /\ HoldersOwnTheLock'
  BY <1>1 DEF LockInv, LockTypeOK, ReclaimersAreRight, UndoersHaveTheClaim, HoldersOwnTheLock,
              Holding, At
<1>3. DeadAreJudged' /\ ReplacersHaveTheClaim' /\ RestorersAreAtTheLock' /\ ClaimantsAreJudged'
  BY <1>1 DEF LockInv, LockTypeOK, DeadAreJudged, ReplacersHaveTheClaim,
                    RestorersAreAtTheLock, ClaimantsAreJudged, At
<1>4. AnnouncedAreElsewhere'
  BY <1>1 DEF LockInv, LockTypeOK, AnnouncedAreElsewhere, DeadAreJudged, At
<1>5. SeekersAreUnannounced' /\ OneSuccessor'
  BY <1>1, LockAssumption DEF LockInv, LockTypeOK, SeekersAreUnannounced, OneSuccessor,
     Unannounced
<1>6. NewAreEmpty'
  BY <1>1, LockAssumption DEF LockInv, LockTypeOK, NewAreEmpty, NeverOwned
<1>. QED
  BY <1>1, <1>2, <1>3, <1>4, <1>5, <1>6 DEF LockInv

LEMMA GivingUpKeeps ==
  ASSUME LockInv, NEW p \in Processes, Sweep(p) \/ UndoTransition(p) \/ ReplacementFails(p)
  PROVE  LockInv'
<1> USE DEF At, Goto, lockFiles, lockProcesses
<1>1. LockTypeOK /\ alive[p]
  BY DEF LockInv, Sweep, UndoTransition, ReplacementFails
<1>2. /\ judged = [judged EXCEPT ![p] = judged[p]]
      /\ transition = [transition EXCEPT ![p] = transition[p]]
  BY <1>1 DEF LockTypeOK
<1>3. CASE Sweep(p)
  <2>1. observed[p] # p => NeverOwned(p)
    BY <1>3 DEF Sweep, NeverOwned
  <2>. QED
    BY <1>1, <1>3, <2>1, EndsKeep DEF Sweep
<1>4. CASE UndoTransition(p)
  <2>1. PICK mine \in {NoProcess, transition[p]} : transition' = [transition EXCEPT ![p] = mine]
    BY <1>4 DEF UndoTransition
  <2>. QED
    BY <1>1, <1>2, <1>4, <2>1, EndsKeep DEF UndoTransition
<1>5. CASE ReplacementFails(p)
  <2>1. CASE claim' = claim
    <3>1. PICK mine \in {NoProcess, transition[p]} : transition' = [transition EXCEPT ![p] = mine]
      BY <1>2, <1>5, <2>1 DEF ReplacementFails
    <3>2. NeverOwned(p)
      BY <1>5 DEF ReplacementFails, NeverOwned
    <3>. QED
      BY <1>1, <1>2, <1>5, <2>1, <3>1, <3>2, EndsKeep DEF ReplacementFails
  <2>2. CASE claim' # claim
    BY <1>1, <1>5, <2>2, WriteClaimIn DEF ReplacementFails, LockTypeOK, OrNone, LockSteps
  <2>. QED
    BY <2>1, <2>2
<1>. QED
  BY <1>3, <1>4, <1>5

(* A directory is renamed away in which nobody else is about to move it or  *)
(* to remove a claim, and none to restore one.                              *)
LEMMA MovingKeeps ==
  ASSUME LockInv, NEW p \in Processes, alive[p], lockStep[p] \in {"move", "move_own"},
         lock \in Processes, lockStep[p] = "move" => lock # p, lockStep[p] = "move_own" => lock = p,
         \A q \in Processes \ {p} : alive[q] => lockStep[q] \notin Holding \cup {"move"},
         \A q \in Processes : alive[q] =>
           lockStep[q] \notin {"unlink_claim", "unlink_dead_claim", "restore_claim"},
         lock' = NoProcess, observed' = [observed EXCEPT ![p] = lock],
         lockStep' = [lockStep EXCEPT ![p] = "sweep"],
         UNCHANGED <<lockFiles, alive, judged, installs>>
  PROVE  LockInv'
<1> USE DEF lockFiles
<1>1. LockTypeOK /\ LockTypeOK'
  BY DEF LockInv, LockTypeOK, LockSteps, OrNone
<1>2. ReclaimersAreRight' /\ UndoersHaveTheClaim' /\ HoldersOwnTheLock'
  BY <1>1 DEF LockInv, LockTypeOK, ReclaimersAreRight, UndoersHaveTheClaim, HoldersOwnTheLock,
              Holding, At
<1>3. DeadAreJudged' /\ ReplacersHaveTheClaim' /\ RestorersAreAtTheLock' /\ ClaimantsAreJudged'
  BY <1>1 DEF LockInv, LockTypeOK, DeadAreJudged, ReplacersHaveTheClaim,
                    RestorersAreAtTheLock, ClaimantsAreJudged, At
<1>4. AnnouncedAreElsewhere'
  BY <1>1, LockAssumption DEF LockInv, LockTypeOK, AnnouncedAreElsewhere, At
<1>5. SeekersAreUnannounced' /\ OneSuccessor'
  BY <1>1 DEF LockInv, LockTypeOK, SeekersAreUnannounced, OneSuccessor, Unannounced
<1>6. NewAreEmpty'
  BY <1>1, LockAssumption DEF LockInv, LockTypeOK, NewAreEmpty, NeverOwned
<1>. QED
  BY <1>1, <1>2, <1>3, <1>4, <1>5, <1>6 DEF LockInv

(* The directory that is moved is the one judged, whose owner is dead, and  *)
(* no other process has the claim in it.                                    *)
LEMMA MoveKeeps ==
  ASSUME LockInv, ClaimsAreSettledInTime, NEW p \in Processes, Move(p)
  PROVE  LockInv'
<1> USE DEF Move, At, Goto
<1>1. lock \in Processes /\ ~alive[lock] /\ claim[lock] = p
  BY DEF LockInv, ReclaimersAreRight
<1>2. \A q \in Processes \ {p} : alive[q] => lockStep[q] \notin Holding \cup {"move"}
  BY <1>1 DEF LockInv, ReclaimersAreRight, HoldersOwnTheLock
<1>3. \A q \in Processes : alive[q] =>
        lockStep[q] \notin {"unlink_claim", "unlink_dead_claim", "restore_claim"}
  BY <1>1 DEF LockInv, UndoersHaveTheClaim, ReplacersHaveTheClaim, DeadAreJudged,
              ClaimsAreSettledInTime
<1>. QED
  BY <1>1, <1>2, <1>3, MovingKeeps

(* The owner moves its own directory.  Whoever reclaims found its owner     *)
(* dead, so nobody is about to move this one; that nobody is about to       *)
(* change a claim in it is the hypothesis.                                  *)
LEMMA MoveOwnKeeps ==
  ASSUME LockInv, ClaimsAreSettledInTime, NEW p \in Processes, MoveOwn(p)
  PROVE  LockInv'
<1> USE DEF MoveOwn, At, Goto
<1>1. lock = p /\ alive[p]
  BY DEF LockInv, HoldersOwnTheLock, Holding
<1>2. \A q \in Processes \ {p} : alive[q] => lockStep[q] \notin Holding \cup {"move"}
  BY <1>1 DEF LockInv, ReclaimersAreRight, HoldersOwnTheLock
<1>3. \A q \in Processes : alive[q] =>
        lockStep[q] \notin {"unlink_claim", "unlink_dead_claim", "restore_claim"}
  BY DEF ClaimsAreSettledInTime
<1>. QED
  BY <1>1, <1>2, <1>3, MovingKeeps

(* The claim unlinked is the own one, or that of the dead claimant judged:  *)
(* no other process is about to move the directory or to unlink a claim.    *)
LEMMA UnlinkClaimKeeps ==
  ASSUME LockInv, NEW p \in Processes, UnlinkClaim(p) \/ UnlinkClaimOfDead(p)
  PROVE  LockInv'
<1> USE DEF UnlinkClaim, UnlinkClaimOfDead, At, Goto, lockProcesses
<1>1. /\ LockTypeOK /\ lock \in Processes /\ alive[p]
      /\ \/ lockStep[p] = "unlink_claim" /\ claim[lock] = p
         \/ /\ lockStep[p] = "unlink_dead_claim" /\ claim[lock] = judged[p] /\ transition[p] = lock
            /\ ~alive[judged[p]]
  BY DEF LockInv, UndoersHaveTheClaim, ReplacersHaveTheClaim, DeadAreJudged
<1>2. /\ lockStep' = [lockStep EXCEPT ![p] =
                        IF lockStep[p] = "unlink_claim" THEN "undo_transition" ELSE "write_claim"]
      /\ LockTypeOK'
  BY <1>1 DEF LockTypeOK, LockSteps, OrNone
<1>3. \A q \in Processes \ {p} : alive[q] =>
        lockStep[q] \notin {"move", "unlink_claim", "unlink_dead_claim"}
  <2>1. \A q \in Processes \ {p} : alive[q] => lockStep[q] \notin {"move", "unlink_claim"}
    BY <1>1 DEF LockInv, ReclaimersAreRight, UndoersHaveTheClaim
  <2>2. \A q \in Processes \ {p} : alive[q] => lockStep[q] # "unlink_dead_claim"
    BY <1>1, LockAssumption DEF LockInv, ReplacersHaveTheClaim, DeadAreJudged,
       SeekersAreUnannounced, OneSuccessor
  <2>. QED
    BY <2>1, <2>2
<1>4. ReclaimersAreRight' /\ UndoersHaveTheClaim' /\ HoldersOwnTheLock'
  BY <1>1, <1>2, <1>3 DEF LockInv, LockTypeOK, ReclaimersAreRight, UndoersHaveTheClaim,
     HoldersOwnTheLock, Holding
<1>5. DeadAreJudged' /\ ReplacersHaveTheClaim' /\ RestorersAreAtTheLock' /\ ClaimantsAreJudged'
  BY <1>1, <1>2, <1>3 DEF LockInv, LockTypeOK, DeadAreJudged, ReplacersHaveTheClaim,
                    RestorersAreAtTheLock, ClaimantsAreJudged
<1>6. AnnouncedAreElsewhere'
  BY <1>1, <1>2, LockAssumption DEF LockInv, LockTypeOK, AnnouncedAreElsewhere, DeadAreJudged
<1>7. SeekersAreUnannounced' /\ OneSuccessor' /\ NewAreEmpty'
  BY <1>1, <1>2 DEF LockInv, LockTypeOK, SeekersAreUnannounced, OneSuccessor,
     Unannounced, NewAreEmpty, NeverOwned
<1>. QED
  BY <1>2, <1>4, <1>5, <1>6, <1>7 DEF LockInv

LEMMA DiesKeeps ==
  ASSUME LockInv, NEW p \in Processes, Dies(p)
  PROVE  LockInv'
BY DEF Dies, lockFiles, LockInv, LockTypeOK, ReclaimersAreRight, UndoersHaveTheClaim,
       DeadAreJudged, ClaimantsAreJudged, ReplacersHaveTheClaim, AnnouncedAreElsewhere,
       RestorersAreAtTheLock, SeekersAreUnannounced, OneSuccessor, NewAreEmpty,
       NeverOwned, HoldersOwnTheLock, At

(* A process that works on the files of staging owns the lock               *)
(* (withPreparationLock), however many processes contend for it and die, as *)
(* long as no directory is renamed away under a process that is between     *)
(* comparing a file and changing the claim by its path; without that it is  *)
(* false (the run lock_late_claimant).                                      *)
THEOREM HoldersKeepTheLock ==
  LockSpec /\ [][ClaimsAreSettledInTime]_lockVars => []HoldersOwnTheLock
<1>1. ASSUME LockInv, [LockNext]_lockVars, [ClaimsAreSettledInTime]_lockVars
      PROVE  LockInv'
  <2>1. CASE UNCHANGED lockVars
    BY <1>1, <2>1 DEF lockVars, lockFiles, lockProcesses, LockInv, LockTypeOK,
       ReclaimersAreRight,
       UndoersHaveTheClaim, DeadAreJudged, ClaimantsAreJudged, ReplacersHaveTheClaim,
       AnnouncedAreElsewhere, RestorersAreAtTheLock, SeekersAreUnannounced, OneSuccessor,
       NewAreEmpty, NeverOwned,
       HoldersOwnTheLock, At
  <2>2. CASE LockNext /\ ClaimsAreSettledInTime
    BY <1>1, <2>2, InstallKeeps, LooksKeep, ReadOwnerKeeps, ClaimsKeep, JudgeClaimKeeps,
       AnnounceKeeps, GivingUpKeeps, MoveKeeps, MoveOwnKeeps, UnlinkClaimKeeps, DiesKeeps
       DEF LockNext, ReplacesDeadClaim
  <2>. QED
    BY <1>1, <2>1, <2>2
<1>2. LockInv => HoldersOwnTheLock
  BY DEF LockInv
<1>. QED
  BY <1>1, <1>2, LockInitHolds, PTL DEF LockSpec

-----------------------------------------------------------------------------
(* The recovery claim is handed over, and the directory is left clean.      *)

USE DEF Untouched, Readable

TransitionNames(s) == {Transition(s), TransitionCandidate(s)}
JournalNames(s) == {Journal(s), Prior(s), Next_(s)}
NamesOf(s) ==
  TransitionNames(s) \cup JournalNames(s)
    \cup {Quarantine(s), ElectionCandidate(s), Election(s), JournalCandidate(s),
          ClaimedName("t", s), ClaimedName("q", s)}

CleanupTypeOK ==
  /\ me \in Claimants /\ stale \in Claimants \cup {0} /\ handle \in Claimants \cup {0}
  /\ at \in {"arrive", "claim", "recover", "elect", "work", "replace", "release",
             "quarantine", "done"}
  /\ \A n \in Leftovers : \E s \in Claimants : n \in NamesOf(s)

(* The handoff is the own one from the arrival until it is released.        *)
HandoffIsOwn ==
  /\ at \in {"claim", "recover", "elect", "work", "replace", "release"} =>
       Has(HandoffFile) /\ By(HandoffFile) = me
  /\ at = "arrive" /\ Has(HandoffFile) => By(HandoffFile) \in 1..(me - 1)
  /\ at = "quarantine" => ~Has(HandoffFile)

(* Nobody made a claim or a transition after the claimant that runs, and    *)
(* until it replaces the claim itself, all of them are of earlier ones.     *)
FilesAreOld ==
  LET last == IF at \in {"arrive", "claim", "recover", "elect", "work"} THEN me - 1 ELSE me
  IN
  /\ Has(HandoffFile) => By(HandoffFile) \in 1..me
  /\ Has(ClaimFile) => By(ClaimFile) \in 1..last
  /\ \A s \in Claimants : \A n \in TransitionNames(s) : Has(n) => By(n) \in 1..last

(* Until the replacement begins, the claim is still the one that was found. *)
ClaimIsKnown ==
  /\ at \in {"recover", "elect", "work", "replace"} => stale \in 1..(me - 1)
  /\ at \in {"recover", "elect", "work"} => Has(ClaimFile) /\ By(ClaimFile) = stale
  /\ at \in {"arrive", "claim"} => stale = 0
  /\ at \in {"arrive", "claim", "recover"} => handle = 0

OneTransition ==
  \A s, t \in Claimants : Has(Transition(s)) /\ Has(Transition(t)) => s = t

(* The own election and journal list every artifact, and every claimed      *)
(* artifact, that is still there.                                           *)
Retains(rec) ==
  \A k \in {"t", "q"} :
    Has(Artifact(k, handle)) \/ Has(ClaimedName(k, handle)) => k \in DOMAIN rec.artifacts
Lists(rec) ==
  /\ {"phase", "artifacts", "claims"} \subseteq DOMAIN rec
  /\ \A k \in {"t", "q"} :
       /\ Has(Artifact(k, handle)) =>
            rec.phase = "artifacts" /\ k \in DOMAIN rec.artifacts \cap DOMAIN rec.claims
       /\ Has(ClaimedName(k, handle)) =>
            rec.phase \in {"artifacts", "claims"} /\ k \in DOMAIN rec.claims

OwnElection ==
  at \in {"elect", "work"} /\ handle # 0 =>
    Leftovers \subseteq NamesOf(handle) \ {TransitionCandidate(handle)}

ElectionIsFull ==
  at = "elect" /\ handle # 0 =>
    /\ ~Has(Prior(handle)) /\ ~Has(Next_(handle)) /\ ~undone
    /\ \A n \in {ElectionCandidate(handle), Election(handle)} : Has(n) => Retains(dir[n].rec)
    /\ \A n \in {JournalCandidate(handle), Journal(handle)} : Has(n) => Lists(dir[n].rec)

JournalIsFull ==
  at = "work" /\ handle # 0 =>
    /\ ~Has(ElectionCandidate(handle)) /\ ~Has(JournalCandidate(handle))
    /\ \A n \in JournalNames(handle) : Has(n) => Lists(dir[n].rec)
    /\ Has(Prior(handle)) /\ ~Has(Next_(handle)) => Lists(goal)
    /\ undone => ~Has(Prior(handle)) /\ ~Has(Next_(handle))
    /\ undone =>
         LET rec == JournalRecord(handle) IN
         \/ rec.phase = "artifacts" /\ ~Has(Artifact(First(rec.artifacts), handle))
         \/ rec.phase = "claims" /\ ~Has(ClaimedName(First(rec.claims), handle))

(* While it replaces the claim, only the files of that are there; with the  *)
(* quarantine, and once the dead claim is gone, so is the transition; and a *)
(* journal is final when the claim is the own one.                          *)
Finishes(rec) ==
  /\ "phase" \in DOMAIN rec
  /\ rec.phase = "finalizing" => HasClaim(me) /\ ~Has(Quarantine(stale))

ReplacesInOrder ==
  at = "replace" =>
    /\ Leftovers \subseteq TransitionNames(stale) \cup {Quarantine(stale)}
         \cup (IF handle = 0 THEN {} ELSE {Election(handle)} \cup JournalNames(handle))
    /\ \A n \in TransitionNames(stale) : Has(n) => By(n) = me
    /\ Has(ClaimFile) => By(ClaimFile) \in {stale, me}
    /\ Has(Quarantine(stale)) \/ ~HasClaim(stale) => MyTransition
    /\ handle # 0 =>
         /\ \A n \in JournalNames(handle) : Has(n) => Finishes(dir[n].rec)
         /\ Has(Prior(handle)) /\ ~Has(Next_(handle)) => Finishes(goal)

LeavesTheTransition ==
  at \in {"release", "quarantine"} =>
    HasClaim(me) /\ Leftovers = IF stale = 0 THEN {} ELSE {Transition(stale)}

(* A directory without claim has the handoff and the transition of one      *)
(* successor (that they have contents is shown at the end).                 *)
SuccessorIsThere ==
  ~Has(ClaimFile) /\ Leftovers # {} =>
    /\ Has(HandoffFile)
    /\ \E s \in Claimants : Transitions = {s} /\ By(Transition(s)) = By(HandoffFile)

CleanupInv ==
  /\ CleanupTypeOK /\ HandoffIsOwn /\ FilesAreOld /\ ClaimIsKnown /\ OneTransition
  /\ OwnElection /\ ElectionIsFull /\ JournalIsFull /\ ReplacesInOrder /\ LeavesTheTransition
  /\ SuccessorIsThere /\ NothingIsInTheWay

(* Every name is the name of one thing.                                     *)
LEMMA NamesDiffer ==
  ASSUME NEW s \in Claimants, NEW t \in Claimants, NEW n \in NamesOf(s), n \in NamesOf(t)
  PROVE  s = t /\ n \notin {ClaimFile, HandoffFile} /\ n[2] = s
<1>1. ASSUME NEW x \in Claimants, NEW m \in NamesOf(x)
      PROVE  \E kind : m = <<kind, x>>
  BY DEF NamesOf, TransitionNames, JournalNames, Transition, TransitionCandidate, Journal,
         Prior, Next_, Quarantine, ElectionCandidate, Election, JournalCandidate, ClaimedName
<1>2. ClaimFile[2] = 0 /\ HandoffFile[2] = 0 /\ 0 \notin Claimants
  BY DEF ClaimFile, HandoffFile, Claimants
<1>3. \A x \in Claimants : \A m \in NamesOf(x) : m[2] = x
  BY <1>1
<1>. QED
  BY <1>2, <1>3

(* What the calls do to the directory.                                      *)
LEMMA WriteIs ==
  ASSUME NEW n, NEW by, NEW rec, Write(n, by, rec)
  PROVE  /\ ~Has(n) /\ DOMAIN dir' = DOMAIN dir \cup {n}
         /\ dir'[n].by = by /\ dir'[n].rec = rec
         /\ \A x \in DOMAIN dir : dir'[x] = dir[x]
BY DEF Write, Entered, Has

LEMMA LinkIs ==
  ASSUME NEW n, NEW x, Link(n, x)
  PROVE  /\ Has(n) /\ ~Has(x) /\ DOMAIN dir' = DOMAIN dir \cup {x}
         /\ dir'[x] = dir[n]
         /\ \A y \in DOMAIN dir : dir'[y] = dir[y]
BY DEF Link, Entered, Has

LEMMA UnlinkIs ==
  ASSUME NEW n, Unlink(n)
  PROVE  /\ Has(n) /\ DOMAIN dir' = DOMAIN dir \ {n}
         /\ \A x \in DOMAIN dir \ {n} : dir'[x] = dir[x]
BY DEF Unlink, Has

(* The files of a directory that is not ambiguous are of one replacement.   *)
LEMMA OneReplacement ==
  ASSUME CleanupTypeOK, ~Ambiguous, NEW n \in Leftovers, NEW s \in Claimants, n \in NamesOf(s)
  PROVE  Leftovers \subseteq NamesOf(s)
<1> DEFINE ids == {m[2] : m \in Leftovers}
<1>1. \A m \in Leftovers : \E t \in Claimants : m \in NamesOf(t) /\ m[2] = t
  BY NamesDiffer DEF CleanupTypeOK
<1>2. IsFiniteSet(ids)
  <2>1. ids \subseteq 1..MaxClaimants
    BY <1>1 DEF Claimants
  <2>2. IsFiniteSet(1..MaxClaimants)
    BY FS_Interval, CleanupAssumption
  <2>. QED
    BY <2>1, <2>2, FS_Subset
<1>4. ASSUME NEW a, NEW b, a # b
      PROVE  Cardinality({a, b}) = 2
  <2>1. IsFiniteSet({a}) /\ Cardinality({a}) = 1
    BY FS_Singleton
  <2>2. Cardinality({a} \cup {b}) = 2
    BY <1>4, <2>1, FS_AddElement
  <2>3. {a} \cup {b} = {a, b}
    OBVIOUS
  <2>. QED
    BY <2>2, <2>3
<1>3. ASSUME NEW m \in Leftovers, NEW t \in Claimants, m \in NamesOf(t), t # s
      PROVE  FALSE
  <2>1. n[2] = s /\ m[2] = t
    BY <1>3, NamesDiffer
  <2>2. {s, t} \subseteq ids
    BY <2>1
  <2>3. Cardinality({s, t}) = 2
    BY <1>3, <1>4
  <2>4. Cardinality({s, t}) <= Cardinality(ids)
    BY <1>2, <2>2, FS_Subset
  <2>5. Cardinality(ids) \in Nat
    BY <1>2, FS_CardinalityType
  <2>. QED
    BY <2>3, <2>4, <2>5 DEF Ambiguous
<1>. QED
  BY <1>1, <1>3

(* What a step of the clean-up leaves alone: claim and handoff, and no      *)
(* transition is made.                                                      *)
Cleans ==
  /\ UNCHANGED <<moved, me, stale, outcome>>
  /\ \A n \in {ClaimFile, HandoffFile} : Has(n)' = Has(n) /\ (Has(n) => dir'[n] = dir[n])
  /\ \A s \in Claimants : \A n \in TransitionNames(s) : Has(n)' => Has(n) /\ dir'[n] = dir[n]
  /\ \A n \in DOMAIN dir' \ DOMAIN dir : \E s \in Claimants : n \in NamesOf(s)

LEMMA UnlinkCleans ==
  ASSUME NEW s \in Claimants, NEW n \in NamesOf(s), Unlink(n),
         UNCHANGED <<moved, me, stale, outcome>>
  PROVE  Cleans
<1>1. DOMAIN dir' = DOMAIN dir \ {n} /\ \A x \in DOMAIN dir \ {n} : dir'[x] = dir[x]
  BY UnlinkIs
<1>2. n \notin {ClaimFile, HandoffFile}
  BY NamesDiffer
<1>. QED
  BY <1>1, <1>2 DEF Cleans, Has

LEMMA AddCleans ==
  ASSUME NEW s \in Claimants, NEW n \in NamesOf(s) \ TransitionNames(s),
         (\E by, rec : Write(n, by, rec)) \/ (\E x : Link(x, n)),
         UNCHANGED <<moved, me, stale, outcome>>
  PROVE  Cleans
<1>1. DOMAIN dir' = DOMAIN dir \cup {n} /\ ~Has(n) /\ \A x \in DOMAIN dir : dir'[x] = dir[x]
  BY WriteIs, LinkIs
<1>2. n \notin {ClaimFile, HandoffFile}
  BY NamesDiffer
<1>3. \A t \in Claimants : n \notin TransitionNames(t)
  <2>1. \A t \in Claimants : TransitionNames(t) \subseteq NamesOf(t)
    BY DEF NamesOf
  <2>. QED
    BY <2>1, NamesDiffer
<1>. QED
  BY <1>1, <1>2, <1>3 DEF Cleans, Has

LEMMA NothingCleans ==
  ASSUME UNCHANGED <<dir, moved, me, stale, outcome>>
  PROVE  Cleans
BY DEF Cleans, Has

(* A step of the clean-up keeps the invariant, if it keeps the election,    *)
(* the journal and the order of the replacement that may begin.             *)
LEMMA CleaningKeeps ==
  ASSUME CleanupInv, Cleans, at \in {"recover", "elect", "work"},
         at' \in {"recover", "elect", "work", "replace"},
         handle' \in Claimants \cup {0}, at' = "recover" => handle' = 0,
         OwnElection', ElectionIsFull', JournalIsFull', ReplacesInOrder'
  PROVE  CleanupInv'
<1>1. Has(ClaimFile) /\ Has(HandoffFile) /\ By(ClaimFile) = stale /\ By(HandoffFile) = me
  BY DEF CleanupInv, ClaimIsKnown, HandoffIsOwn
<1>2. Has(ClaimFile)' /\ Has(HandoffFile)' /\ By(ClaimFile)' = stale /\ By(HandoffFile)' = me
      /\ me' = me /\ stale' = stale
  BY <1>1 DEF Cleans, By
<1>3. stale \in 1..(me - 1) /\ me \in 1..MaxClaimants
  BY DEF CleanupInv, ClaimIsKnown, CleanupTypeOK, Claimants
<1>4. CleanupTypeOK'
  BY DEF CleanupInv, CleanupTypeOK, Cleans, Leftovers, Claimants
<1>5. HandoffIsOwn' /\ ClaimIsKnown' /\ LeavesTheTransition' /\ SuccessorIsThere'
  BY <1>2, <1>3, CleanupAssumption
     DEF HandoffIsOwn, ClaimIsKnown, LeavesTheTransition, SuccessorIsThere
<1>6. FilesAreOld'
  <2>1. \A s \in Claimants : \A n \in TransitionNames(s) : Has(n)' => By(n)' \in 1..(me - 1)
    BY DEF CleanupInv, FilesAreOld, Cleans, By
  <2>. QED
    BY <1>2, <1>3, <2>1, CleanupAssumption DEF FilesAreOld
<1>7. OneTransition'
  BY DEF CleanupInv, OneTransition, Cleans, TransitionNames
<1>8. NothingIsInTheWay'
  BY DEF CleanupInv, NothingIsInTheWay, Cleans
<1>. QED
  BY <1>4, <1>5, <1>6, <1>7, <1>8 DEF CleanupInv

(* A compare-and-swap of the own journal begins, and goes on.               *)
LEMMA SwapBegins ==
  ASSUME NEW s \in Claimants, NEW rec, Swap(s, rec)
  PROVE  /\ Has(Journal(s)) /\ ~Has(Prior(s)) /\ DOMAIN dir' = DOMAIN dir \cup {Prior(s)}
         /\ dir'[Prior(s)] = dir[Journal(s)] /\ \A n \in DOMAIN dir : dir'[n] = dir[n]
         /\ goal' = rec /\ undone' = FALSE /\ UNCHANGED <<moved, me, at, stale, handle, outcome>>
BY LinkIs DEF Swap

LEMMA SwapMoves ==
  ASSUME NEW s \in Claimants, SwapStep(s), Has(Prior(s)) /\ ~Has(Next_(s)) => goal # Nil
  PROVE  /\ UNCHANGED <<moved, me, at, stale, handle, undone, outcome>>
         /\ DOMAIN dir \ JournalNames(s) = DOMAIN dir' \ JournalNames(s)
         /\ \A n \in DOMAIN dir \ JournalNames(s) : dir'[n] = dir[n]
         /\ ~(Has(Prior(s)) /\ ~Has(Next_(s)))'
         /\ \A n \in JournalNames(s) : Has(n)' =>
              \/ Has(Prior(s)) /\ ~Has(Next_(s)) /\ dir'[n].rec = goal
              \/ \E m \in JournalNames(s) : Has(m) /\ dir'[n].rec = dir[m].rec
<1> USE DEF JournalNames, Has
<1>1. Prior(s) # Next_(s) /\ Journal(s) # Prior(s) /\ Journal(s) # Next_(s)
  BY DEF Prior, Next_, Journal
<1>2. CASE /\ Has(Prior(s)) /\ ~Has(Next_(s)) /\ Stays
           /\ Write(Next_(s), dir[Prior(s)].rec.by, goal)
  BY <1>1, <1>2, WriteIs DEF Stays, Proceeds
<1>3. CASE Has(Prior(s)) /\ Has(Next_(s)) /\ Unlink(Journal(s)) /\ Stays
  BY <1>1, <1>3, UnlinkIs DEF Stays, Proceeds
<1>4. CASE Has(Prior(s)) /\ Has(Next_(s)) /\ Link(Next_(s), Journal(s)) /\ Stays
  BY <1>1, <1>4, LinkIs DEF Stays, Proceeds
<1>5. CASE Unlink(Prior(s)) /\ HardLinked(Journal(s), Next_(s)) /\ Stays
  BY <1>1, <1>5, UnlinkIs DEF Stays, Proceeds, HardLinked
<1>6. CASE /\ ~Has(Prior(s)) /\ Unlink(Next_(s))
           /\ UNCHANGED <<moved, me, at, stale, handle, undone, outcome>>
  BY <1>1, <1>6, UnlinkIs
<1>. QED
  BY <1>2, <1>3, <1>4, <1>5, <1>6 DEF SwapStep

LEMMA SwapCleans ==
  ASSUME NEW s \in Claimants, SwapStep(s) \/ \E rec : Swap(s, rec)
  PROVE  Cleans /\ UNCHANGED <<at, handle>>
<1>1. JournalNames(s) \subseteq NamesOf(s) \ TransitionNames(s)
  BY DEF NamesOf, JournalNames, TransitionNames, Journal, Prior, Next_, Transition,
         TransitionCandidate
<1>2. CASE \E rec : Swap(s, rec)
  BY <1>1, <1>2, AddCleans DEF Swap, JournalNames
<1>3. CASE SwapStep(s)
  <2>1. /\ UNCHANGED <<moved, me, at, stale, handle, outcome>>
        /\ \/ \E by, rec : Write(Next_(s), by, rec)
           \/ Link(Next_(s), Journal(s))
           \/ \E n \in JournalNames(s) : Unlink(n)
    BY <1>3 DEF SwapStep, Stays, Proceeds, JournalNames
  <2>. QED
    BY <1>1, <2>1, AddCleans, UnlinkCleans DEF JournalNames
<1>. QED
  BY <1>2, <1>3

LEMMA InstallFileCleans ==
  ASSUME NEW s \in Claimants, NEW candidate \in NamesOf(s) \ TransitionNames(s),
         NEW target \in NamesOf(s) \ TransitionNames(s), NEW by, NEW rec,
         InstallFile(candidate, target, by, rec)
  PROVE  Cleans /\ UNCHANGED <<at, handle, goal, undone>>
BY AddCleans, UnlinkCleans DEF InstallFile, Stays, Proceeds

(* Every step of a clean-up cleans; it ends where it begins to replace.     *)
LEMMA RecoverCleans ==
  ASSUME CleanupInv, NEW s \in Claimants, RecoverStep(s), at \in {"recover", "elect", "work"}
  PROVE  /\ Cleans /\ at' \in {"recover", "elect", "work", "replace"}
         /\ ~Elect(s) => handle' = handle
         /\ at' = "replace" => CompleteOwn(s)
         /\ at' = "recover" => at = "recover" \/ DismissJournal(s)
<1>n. /\ {Election(s), ElectionCandidate(s), JournalCandidate(s), ClaimedName("t", s),
          ClaimedName("q", s), Journal(s)} \subseteq NamesOf(s) \ TransitionNames(s)
      /\ {Transition(s), TransitionCandidate(s), Quarantine(s)} \subseteq NamesOf(s)
  BY DEF NamesOf, JournalNames, TransitionNames, Journal, Prior, Next_, Transition,
         TransitionCandidate, Election, ElectionCandidate, JournalCandidate, ClaimedName
<1>a. \A k \in {"t", "q"} : Artifact(k, s) \in NamesOf(s) /\ ClaimedName(k, s) \in NamesOf(s)
  BY <1>n DEF Artifact, Transition, Quarantine
<1>1. CASE \E c \in Candidates(s) : DropCandidate(c)
  BY <1>1, <1>n, UnlinkCleans DEF DropCandidate, Candidates, Stays, Proceeds, Elect,
     Quiet, AllSettled
<1>2. CASE RecoverSwap(s) \/ (at \in {"work", "replace"} /\ Swapping(s) /\ SwapStep(s))
  BY <1>2, SwapCleans DEF RecoverSwap
<1>3. CASE TakeUp(s) \/ Opened(s) \/ CompleteOwn(s)
  BY <1>3, NothingCleans DEF TakeUp, Opened, CompleteOwn, Proceeds
<1>4. CASE DropOrphan(s) \/ Dismiss(s) \/ DismissJournal(s)
  BY <1>4, <1>n, UnlinkCleans DEF DropOrphan, Dismiss, DismissJournal, Stays, Proceeds
<1>5. CASE Elect(s)
  <2>1. Cleans
    BY <1>5, <1>n, AddCleans DEF Elect
  <2>. QED
    BY <1>5, <2>1 DEF Elect
<1>6. CASE Electing(s)
  BY <1>6, <1>n, InstallFileCleans DEF Electing
<1>7. CASE OpenJournal(s)
  BY <1>7, <1>n, InstallFileCleans DEF OpenJournal
<1>8. CASE Remove(s)
  <2>1. PICK n \in NamesOf(s) : Unlink(n)
    BY <1>8, <1>a DEF Remove, First
  <2>. QED
    BY <1>8, <2>1, UnlinkCleans DEF Remove
<1>9. CASE Advance(s) \/ Adopt(s) \/ Resume(s)
  <2>1. \E rec : Swap(s, rec)
    BY <1>9 DEF Advance, Adopt, Resume
  <2>. QED
    BY <2>1, SwapCleans
<1>10. CASE \E k \in {"t", "q"} : ClaimArtifact(s, k)
  BY <1>10, <1>n, AddCleans DEF ClaimArtifact, Stays, Proceeds
<1>11. CASE \E p \in IF Begun(s) THEN ToUnlink(s) ELSE {} : Undo(s, p)
  <2>p. PICK p \in ToUnlink(s) : Unlink(p[1]) /\ Stays
    BY <1>11 DEF Undo
  <2>x. \E x, r : p = <<Quarantine(x), r>> \/ p = <<Transition(x), r>>
    BY DEF ToUnlink
  <2>1. PICK n : (\E x : n = Quarantine(x) \/ n = Transition(x)) /\ Unlink(n) /\ Stays
    BY <2>p, <2>x
  <2>2. n \in Leftovers
    BY <2>1, UnlinkIs DEF Leftovers, Quarantine, Transition, ClaimFile, HandoffFile, Has
  <2>3. PICK t \in Claimants : n \in NamesOf(t)
    BY <2>2 DEF CleanupInv, CleanupTypeOK
  <2>. QED
    BY <2>1, <2>3, UnlinkCleans DEF Stays, Proceeds
<1>. QED
  BY <1>1, <1>2, <1>3, <1>4, <1>5, <1>6, <1>7, <1>8, <1>9, <1>10, <1>11 DEF RecoverStep

(* Nothing is left when the election begins but what it retains.            *)
LEMMA ElectKeeps ==
  ASSUME CleanupInv, NEW s \in Claimants, Elect(s)
  PROVE  CleanupInv'
<1>1. /\ at = "recover" /\ ~Ambiguous /\ \A c \in Candidates(s) : ~Has(c)
      /\ ~Has(Prior(s)) /\ ~Has(Next_(s)) /\ ~Has(Election(s)) /\ ~Has(Journal(s))
  BY DEF Elect, Quiet, AllSettled, Swapping
<1>2. Leftovers \subseteq NamesOf(s)
  <2>1. PICK k \in {"t", "q"} : Has(Artifact(k, s))
    BY DEF Elect, Present
  <2>2. Artifact(k, s) \in NamesOf(s) /\ Artifact(k, s) \in Leftovers
    BY <2>1 DEF NamesOf, TransitionNames, Artifact, Transition, Quarantine, Leftovers, Has,
                ClaimFile, HandoffFile
  <2>. QED
    BY <1>1, <2>2, OneReplacement DEF CleanupInv
<1>r. PICK rec : Write(ElectionCandidate(s), me, rec) /\ DOMAIN rec.artifacts = Present(s)
  BY DEF Elect
<1>3. /\ handle' = s /\ at' = "elect" /\ undone' = FALSE
      /\ DOMAIN dir' = DOMAIN dir \cup {ElectionCandidate(s)}
      /\ DOMAIN dir'[ElectionCandidate(s)].rec.artifacts = Present(s)
      /\ \A x \in DOMAIN dir : dir'[x] = dir[x]
  BY <1>r, WriteIs DEF Elect
<1>4. OwnElection'
  <2>1. Leftovers' \subseteq Leftovers \cup {ElectionCandidate(s)}
    BY <1>3 DEF Leftovers
  <2>2. TransitionCandidate(s) \notin Leftovers \cup {ElectionCandidate(s)}
    BY <1>1 DEF Candidates, Leftovers, Has, TransitionCandidate, ElectionCandidate
  <2>3. ElectionCandidate(s) \in NamesOf(s)
    BY DEF NamesOf
  <2>. QED
    BY <1>2, <1>3, <2>1, <2>2, <2>3 DEF OwnElection
<1>5. \A k \in {"t", "q"} :
        ~Has(ClaimedName(k, s))' /\ (Has(Artifact(k, s))' => k \in Present(s))
  <2>1. \A k \in {"t", "q"} : ~Has(ClaimedName(k, s))
    BY <1>1 DEF Ambiguous
  <2>. QED
    BY <1>3, <2>1 DEF Has, Present, ClaimedName, Artifact, ElectionCandidate
<1>6. ElectionIsFull'
  <2>1. /\ ~Has(Prior(s))' /\ ~Has(Next_(s))' /\ ~Has(Election(s))' /\ ~Has(Journal(s))'
        /\ ~Has(JournalCandidate(s))'
    BY <1>1, <1>3
       DEF Has, Candidates, Prior, Next_, Election, Journal, JournalCandidate, ElectionCandidate
  <2>2. \A k \in {"t", "q"} : Has(Artifact(k, s))' =>
          k \in DOMAIN dir'[ElectionCandidate(s)].rec.artifacts
    BY <1>3, <1>5
  <2>. QED
    BY <1>3, <1>5, <2>1, <2>2 DEF ElectionIsFull, Retains
<1>7. JournalIsFull' /\ ReplacesInOrder'
  BY <1>3 DEF JournalIsFull, ReplacesInOrder
<1>8. Cleans
  BY <1>1, RecoverCleans DEF RecoverStep
<1>. QED
  BY <1>1, <1>3, <1>4, <1>6, <1>7, <1>8, CleaningKeeps

(* The claimant that elected itself works on its own files only.            *)
LEMMA OwnSteps ==
  ASSUME CleanupInv, handle # 0, at \in {"elect", "work"}, NEW s \in Claimants, RecoverStep(s)
  PROVE  /\ s = handle
         /\ \/ Electing(s) \/ OpenJournal(s) \/ Opened(s) \/ Remove(s) \/ Advance(s)
            \/ CompleteOwn(s) \/ \E k \in {"t", "q"} : ClaimArtifact(s, k)
            \/ at = "work" /\ SwapStep(s)
<1>1. handle \in Claimants /\ Leftovers \subseteq NamesOf(handle)
  BY DEF CleanupInv, CleanupTypeOK, OwnElection
<1>2. ASSUME NEW n \in {ElectionCandidate(s), Election(s), Journal(s)}, Has(n)
      PROVE  s = handle
  <2>1. n \in NamesOf(s)
    BY DEF NamesOf, JournalNames
  <2>2. n \in Leftovers
    BY <1>2, <2>1, NamesDiffer DEF Leftovers, Has
  <2>. QED
    BY <1>1, <2>1, <2>2, NamesDiffer
<1>3. /\ ~AllSettled
      /\ ~\E c \in Candidates(s) : DropCandidate(c)
  BY DEF AllSettled, DropCandidate
<1>4. CASE Electing(s)
  BY <1>2, <1>4 DEF Electing
<1>5. CASE OpenJournal(s) \/ Opened(s) \/ \E k \in {"t", "q"} : ClaimArtifact(s, k)
  BY <1>2, <1>5 DEF OpenJournal, Opened, ClaimArtifact, Installed
<1>6. CASE Remove(s) \/ Advance(s) \/ CompleteOwn(s)
  BY <1>2, <1>6 DEF Remove, Advance, CompleteOwn, Working
<1>7. CASE Adopt(s) \/ Resume(s) \/ Dismiss(s) \/ DismissJournal(s)
  BY <1>2, <1>7 DEF Adopt, Adoptable, Resume, Begun, Dismiss, DismissJournal, Working
<1>8. CASE \E p \in IF Begun(s) THEN ToUnlink(s) ELSE {} : Undo(s, p)
  BY <1>2, <1>8 DEF Begun, Working
<1>9. CASE at \in {"work", "replace"} /\ Swapping(s) /\ SwapStep(s)
  BY <1>2, <1>9 DEF SwapStep
<1>10. ~(RecoverSwap(s) \/ TakeUp(s) \/ DropOrphan(s) \/ Elect(s))
  BY <1>3 DEF RecoverSwap, TakeUp, DropOrphan, Elect, Quiet
<1>. QED
  BY <1>3, <1>4, <1>5, <1>6, <1>7, <1>8, <1>9, <1>10 DEF RecoverStep

(* A step within the own election, without a name it did not have.          *)
LEMMA OwnStays ==
  ASSUME CleanupInv, handle # 0, at \in {"elect", "work"}, UNCHANGED handle,
         at' \in {"elect", "work"},
         DOMAIN dir' \subseteq DOMAIN dir \cup (NamesOf(handle) \ {TransitionCandidate(handle)})
  PROVE  OwnElection' /\ ReplacesInOrder'
BY DEF CleanupInv, OwnElection, ReplacesInOrder, Leftovers

(* What a record retains or lists stays so while artifacts only go.         *)
LEMMA ListingsStay ==
  ASSUME UNCHANGED handle, NEW rec,
         \A k \in {"t", "q"} : Has(Artifact(k, handle))' => Has(Artifact(k, handle)),
         \A k \in {"t", "q"} : Has(ClaimedName(k, handle))' => Has(ClaimedName(k, handle))
  PROVE  (Retains(rec) => Retains(rec)') /\ (Lists(rec) => Lists(rec)')
BY DEF Retains, Lists

LEMMA ElectingKeeps ==
  ASSUME CleanupInv, handle # 0, at = "elect", NEW s \in Claimants, s = handle,
         Electing(s) \/ Opened(s)
  PROVE  OwnElection' /\ ElectionIsFull' /\ JournalIsFull' /\ ReplacesInOrder'
<1> DEFINE e == Election(s)
           c == ElectionCandidate(s)
<1>n. /\ {e, c} \subseteq NamesOf(s) \ {TransitionCandidate(s)} /\ e # c
      /\ \A k \in {"t", "q"} : Artifact(k, s) \notin {e, c} /\ ClaimedName(k, s) \notin {e, c}
      /\ {Prior(s), Next_(s), JournalCandidate(s), Journal(s)} \cap {e, c} = {}
  BY DEF NamesOf, TransitionCandidate, Election, ElectionCandidate, Artifact,
     ClaimedName, Prior,
         Next_, JournalCandidate, Journal
<1>f. /\ ~Has(Prior(s)) /\ ~Has(Next_(s)) /\ ~undone
      /\ \A n \in {c, e} : Has(n) => Retains(dir[n].rec)
      /\ \A n \in {JournalCandidate(s), Journal(s)} : Has(n) => Lists(dir[n].rec)
  BY DEF CleanupInv, ElectionIsFull
<1>1. CASE Electing(s)
  <2>1. /\ UNCHANGED <<at, handle, undone>>
        /\ \/ Link(c, e)
           \/ Unlink(c)
    BY <1>1 DEF Electing, InstallFile, Stays, Proceeds
  <2>2. /\ DOMAIN dir' \subseteq DOMAIN dir \cup {e}
        /\ \A n \in DOMAIN dir \cap DOMAIN dir' : dir'[n] = dir[n]
        /\ Has(e)' => Has(e) \/ (Has(c) /\ dir'[e] = dir[c])
    BY <2>1, LinkIs, UnlinkIs DEF Has
  <2>3. /\ \A k \in {"t", "q"} : Has(Artifact(k, s))' => Has(Artifact(k, s))
        /\ \A k \in {"t", "q"} : Has(ClaimedName(k, s))' => Has(ClaimedName(k, s))
        /\ \A n \in {Prior(s), Next_(s), JournalCandidate(s), Journal(s), c} :
             Has(n)' => Has(n) /\ dir'[n] = dir[n]
    BY <1>n, <2>2 DEF Has
  <2>4. \A rec : (Retains(rec) => Retains(rec)') /\ (Lists(rec) => Lists(rec)')
    BY <2>1, <2>3, ListingsStay
  <2>5. \A n \in {c, e} : Has(n)' => Retains(dir'[n].rec)
    BY <1>f, <2>2, <2>3 DEF Has
  <2>6. \A n \in {JournalCandidate(s), Journal(s)} : Has(n)' => Lists(dir'[n].rec)
    BY <1>f, <2>3
  <2>7. ElectionIsFull'
    BY <1>f, <2>1, <2>3, <2>4, <2>5, <2>6 DEF ElectionIsFull, Retains, Lists
  <2>8. OwnElection' /\ ReplacesInOrder'
    BY <1>n, <2>1, <2>2, OwnStays
  <2>. QED
    BY <2>1, <2>7, <2>8 DEF JournalIsFull
<1>2. CASE Opened(s)
  <2>1. /\ UNCHANGED <<dir, handle, undone>> /\ at' = "work"
        /\ ~Has(c) /\ ~Has(JournalCandidate(s))
    BY <1>2 DEF Opened, Installed, Proceeds
  <2>2. OwnElection' /\ ReplacesInOrder'
    BY <2>1, OwnStays
  <2>3. JournalIsFull'
    BY <1>f, <2>1 DEF JournalIsFull, JournalNames, Has, Lists
  <2>. QED
    BY <2>1, <2>2, <2>3 DEF ElectionIsFull
<1>. QED
  BY <1>1, <1>2

LEMMA OpenJournalKeeps ==
  ASSUME CleanupInv, handle # 0, at = "elect", NEW s \in Claimants, s = handle,
         OpenJournal(s) \/ \E k \in {"t", "q"} : ClaimArtifact(s, k)
  PROVE  OwnElection' /\ ElectionIsFull' /\ JournalIsFull' /\ ReplacesInOrder'
<1> DEFINE j == Journal(s)
           c == JournalCandidate(s)
           claimed == {ClaimedName("t", s), ClaimedName("q", s)}
<1>n. /\ {j, c} \cup claimed \subseteq NamesOf(s) \ {TransitionCandidate(s)} /\ j # c
      /\ \A k \in {"t", "q"} : Artifact(k, s) \notin {j, c} \cup claimed
      /\ \A k \in {"t", "q"} : ClaimedName(k, s) \in claimed \ {j, c}
      /\ ClaimedName("t", s) # ClaimedName("q", s)
      /\ \A n \in {Prior(s), Next_(s), Election(s), ElectionCandidate(s)} :
           n \notin {j, c} \cup claimed
  BY DEF NamesOf, JournalNames, TransitionCandidate, Election, ElectionCandidate, Artifact,
         ClaimedName, Prior, Next_, JournalCandidate, Journal
<1>f. /\ ~Has(Prior(s)) /\ ~Has(Next_(s)) /\ ~undone
      /\ \A n \in {ElectionCandidate(s), Election(s)} : Has(n) => Retains(dir[n].rec)
      /\ \A n \in {c, j} : Has(n) => Lists(dir[n].rec)
  BY DEF CleanupInv, ElectionIsFull
<1>e. Has(Election(s)) /\ Retains(dir[Election(s)].rec)
  BY <1>f DEF OpenJournal, ClaimArtifact, Installed
<1>1. CASE OpenJournal(s)
  <2>1. /\ UNCHANGED <<at, handle, undone>>
        /\ \/ \E by, rec : Lists(rec) /\ Write(c, by, rec)
           \/ Link(c, j)
           \/ Unlink(c)
    <3>1. PICK rec : /\ rec.phase = "artifacts" /\ {"phase", "artifacts", "claims"} \subseteq DOMAIN rec
                     /\ DOMAIN rec.artifacts = Kinds(Retained(s))
                     /\ DOMAIN rec.claims = Kinds(Retained(s))
                     /\ InstallFile(c, j, By(Election(s)), rec)
      BY <1>1 DEF OpenJournal
    <3>2. Lists(rec)
      BY <1>e, <3>1 DEF Lists, Retains, Kinds, Retained
    <3>. QED
      BY <3>1, <3>2 DEF InstallFile, Stays, Proceeds
  <2>2. /\ DOMAIN dir' \subseteq DOMAIN dir \cup {c, j}
        /\ \A n \in DOMAIN dir \cap DOMAIN dir' : dir'[n] = dir[n]
        /\ Has(j)' => Has(j) \/ (Has(c) /\ dir'[j] = dir[c])
        /\ Has(c)' => Has(c) \/ Lists(dir'[c].rec)
    <3>1. CASE \E by, rec : Lists(rec) /\ Write(c, by, rec)
      <4>1. PICK by, rec : Lists(rec) /\ Write(c, by, rec)
        BY <3>1
      <4>2. dir'[c].rec = rec /\ DOMAIN dir' = DOMAIN dir \cup {c}
            /\ \A n \in DOMAIN dir : dir'[n] = dir[n]
        BY <4>1, WriteIs
      <4>3. Lists(dir'[c].rec)
        BY <4>1, <4>2
      <4>. QED
        BY <1>n, <4>2, <4>3 DEF Has
    <3>2. CASE Link(c, j)
      <4>1. /\ DOMAIN dir' = DOMAIN dir \cup {j} /\ Has(c) /\ dir'[j] = dir[c]
            /\ \A n \in DOMAIN dir : dir'[n] = dir[n]
        BY <3>2, LinkIs
      <4>. QED
        BY <1>n, <4>1 DEF Has
    <3>3. CASE Unlink(c)
      BY <1>n, <3>3, UnlinkIs DEF Has
    <3>. QED
      BY <2>1, <3>1, <3>2, <3>3
  <2>3. /\ \A k \in {"t", "q"} : Has(Artifact(k, s))' => Has(Artifact(k, s))
        /\ \A k \in {"t", "q"} : Has(ClaimedName(k, s))' => Has(ClaimedName(k, s))
        /\ \A n \in {Prior(s), Next_(s), Election(s), ElectionCandidate(s)} :
             Has(n)' => Has(n) /\ dir'[n] = dir[n]
    BY <1>n, <2>2 DEF Has
  <2>4. \A rec : (Retains(rec) => Retains(rec)') /\ (Lists(rec) => Lists(rec)')
    BY <2>1, <2>3, ListingsStay
  <2>5. \A n \in {c, j} : Has(n)' => Lists(dir'[n].rec)
    BY <1>f, <2>2 DEF Has
  <2>6. \A n \in {ElectionCandidate(s), Election(s)} : Has(n)' => Retains(dir'[n].rec)
    BY <1>f, <2>3
  <2>7. ElectionIsFull'
    BY <1>f, <2>1, <2>3, <2>4, <2>5, <2>6 DEF ElectionIsFull, Retains, Lists
  <2>8. OwnElection' /\ ReplacesInOrder'
    BY <1>n, <2>1, <2>2, OwnStays
  <2>. QED
    BY <2>1, <2>7, <2>8 DEF JournalIsFull
<1>2. CASE \E k \in {"t", "q"} : ClaimArtifact(s, k)
  <2>1. PICK k \in {"t", "q"} :
          /\ k \in DOMAIN Retained(s) /\ Has(Artifact(k, s))
          /\ Link(Artifact(k, s), ClaimedName(k, s)) /\ UNCHANGED <<at, handle, undone>>
    BY <1>2 DEF ClaimArtifact, SourceIs, Kinds, Stays, Proceeds
  <2>2. /\ DOMAIN dir' = DOMAIN dir \cup {ClaimedName(k, s)} /\ ClaimedName(k, s) \in claimed
        /\ \A n \in DOMAIN dir : dir'[n] = dir[n]
    BY <2>1, LinkIs
  <2>3. /\ \A l \in {"t", "q"} : Has(Artifact(l, s))' => Has(Artifact(l, s))
        /\ \A l \in {"t", "q"} : Has(ClaimedName(l, s))' => Has(ClaimedName(l, s)) \/ l = k
        /\ \A n \in {Prior(s), Next_(s), Election(s), ElectionCandidate(s), c, j} :
             Has(n)' => Has(n) /\ dir'[n] = dir[n]
    BY <1>n, <2>2 DEF Has
  <2>4. \A n \in {ElectionCandidate(s), Election(s)} : Has(n)' => Retains(dir[n].rec)'
    BY <1>f, <2>1, <2>3 DEF Retains
  <2>5. \A n \in {c, j} : Has(n)' => Lists(dir[n].rec)'
    BY <1>f, <2>1, <2>3 DEF Lists
  <2>6. ElectionIsFull'
    BY <1>f, <2>1, <2>3, <2>4, <2>5 DEF ElectionIsFull
  <2>7. OwnElection' /\ ReplacesInOrder'
    BY <1>n, <2>1, <2>2, OwnStays
  <2>. QED
    BY <2>1, <2>6, <2>7 DEF JournalIsFull
<1>. QED
  BY <1>1, <1>2

LEMMA ArtifactNames ==
  ASSUME NEW s \in Claimants, NEW k \in {"t", "q"}
  PROVE  /\ Artifact(k, s) \in NamesOf(s) \ JournalNames(s)
         /\ ClaimedName(k, s) \in NamesOf(s) \ JournalNames(s)
BY DEF NamesOf, TransitionNames, JournalNames, Journal, Prior, Next_, Artifact, ClaimedName,
       Transition, Quarantine

(* What is unlinked is what the journal lists first, which is all that may  *)
(* be missing when the journal is brought up to date.                       *)
LEMMA RemoveKeeps ==
  ASSUME CleanupInv, handle # 0, NEW s \in Claimants, s = handle, Remove(s)
  PROVE  OwnElection' /\ ElectionIsFull' /\ JournalIsFull' /\ ReplacesInOrder'
<1> DEFINE rec == JournalRecord(s)
<1>1. /\ at = "work" /\ UNCHANGED <<at, handle, goal>> /\ undone' = TRUE
      /\ Has(Journal(s)) /\ ~Has(Prior(s)) /\ ~Has(Next_(s))
  BY DEF Remove, Working, Swapping
<1>2. PICK n : /\ Unlink(n)
               /\ \/ rec.phase = "artifacts" /\ n = Artifact(First(rec.artifacts), s)
                  \/ rec.phase = "claims" /\ n = ClaimedName(First(rec.claims), s)
  BY DEF Remove
<1>3. \A f : First(f) \in {"t", "q"}
  BY DEF First
<1>4. n \notin JournalNames(s)
  BY <1>2, <1>3, ArtifactNames
<1>5. DOMAIN dir' = DOMAIN dir \ {n} /\ \A x \in DOMAIN dir \ {n} : dir'[x] = dir[x]
  BY <1>2, UnlinkIs
<1>6. JournalRecord(s)' = rec /\ ~Has(n)'
  BY <1>1, <1>4, <1>5 DEF JournalRecord, JournalNames, Has
<1>7. /\ ~Has(ElectionCandidate(s)) /\ ~Has(JournalCandidate(s))
      /\ \A m \in JournalNames(s) : Has(m) => Lists(dir[m].rec)
  BY <1>1 DEF CleanupInv, JournalIsFull
<1>8. \A m \in JournalNames(s) : Has(m)' => Lists(dir[m].rec)' /\ ~Has(Prior(s))'
  BY <1>1, <1>5, <1>7 DEF Has, Lists
<1>9. JournalIsFull'
  <2>1. \/ rec.phase = "artifacts" /\ ~Has(Artifact(First(rec.artifacts), s))'
        \/ rec.phase = "claims" /\ ~Has(ClaimedName(First(rec.claims), s))'
    BY <1>2, <1>6
  <2>2. /\ ~Has(ElectionCandidate(s))' /\ ~Has(JournalCandidate(s))'
        /\ ~Has(Prior(s))' /\ ~Has(Next_(s))'
    BY <1>1, <1>5, <1>7 DEF Has
  <2>. QED
    BY <1>1, <1>6, <1>8, <2>1, <2>2 DEF JournalIsFull
<1>10. OwnElection' /\ ReplacesInOrder'
  BY <1>1, <1>5, OwnStays
<1>. QED
  BY <1>1, <1>9, <1>10 DEF ElectionIsFull

LEMMA WorkedLists ==
  ASSUME CleanupInv, handle # 0, NEW s \in Claimants, s = handle, Advance(s)
  PROVE  Lists(Worked(JournalRecord(s), s))
<1> DEFINE rec == JournalRecord(s)
<1>1. /\ Lists(rec)
      /\ undone => \/ rec.phase = "artifacts" /\ ~Has(Artifact(First(rec.artifacts), s))
                   \/ rec.phase = "claims" /\ ~Has(ClaimedName(First(rec.claims), s))
  BY DEF CleanupInv, JournalIsFull, Advance, Working, JournalRecord, JournalNames
<1>2. \/ undone \/ (rec.phase = "artifacts" /\ DOMAIN rec.artifacts = {})
      \/ (rec.phase = "claims" /\ DOMAIN rec.claims = {})
  BY DEF Advance, Kinds
<1> USE DEF Kinds
<1>3. CASE rec.phase = "artifacts" /\ DOMAIN rec.artifacts # {}
  <2> DEFINE k == First(rec.artifacts)
             w == Worked(rec, s)
  <2>1. w = [rec EXCEPT !.artifacts = Minus(@, k),
                        !.claims = [@ EXCEPT ![k] = Identity(ClaimedName(k, s))]]
    BY <1>3 DEF Worked
  <2>2. /\ {"phase", "artifacts", "claims"} \subseteq DOMAIN w /\ w.phase = "artifacts"
        /\ DOMAIN w.artifacts = DOMAIN rec.artifacts \ {k} /\ DOMAIN w.claims = DOMAIN rec.claims
    BY <1>1, <1>3, <2>1 DEF Lists, Minus
  <2>3. ~Has(Artifact(k, s))
    BY <1>1, <1>2, <1>3
  <2>. QED
    BY <1>1, <2>2, <2>3 DEF Lists
<1>4. CASE rec.phase = "artifacts" /\ DOMAIN rec.artifacts = {}
  <2>1. Worked(rec, s) = [rec EXCEPT !.phase = "claims"]
    BY <1>4 DEF Worked
  <2>. QED
    BY <1>1, <1>4, <2>1 DEF Lists
<1>5. CASE rec.phase = "claims" /\ DOMAIN rec.claims # {}
  <2> DEFINE k == First(rec.claims)
             w == Worked(rec, s)
  <2>1. w = [rec EXCEPT !.claims = Minus(@, k)]
    BY <1>5 DEF Worked
  <2>2. /\ {"phase", "artifacts", "claims"} \subseteq DOMAIN w /\ w.phase = "claims"
        /\ DOMAIN w.claims = DOMAIN rec.claims \ {k}
    BY <1>1, <1>5, <2>1 DEF Lists, Minus
  <2>3. ~Has(ClaimedName(k, s))
    BY <1>1, <1>2, <1>5
  <2>. QED
    BY <1>1, <1>5, <2>2, <2>3 DEF Lists
<1>6. CASE rec.phase = "claims" /\ DOMAIN rec.claims = {}
  <2>1. Worked(rec, s) = [rec EXCEPT !.phase = "complete"]
    BY <1>6 DEF Worked
  <2>. QED
    BY <1>1, <1>6, <2>1 DEF Lists
<1>. QED
  BY <1>1, <1>2, <1>3, <1>4, <1>5, <1>6

(* The journal is replaced by one that lists all that is left.              *)
LEMMA JournalMovesKeep ==
  ASSUME CleanupInv, handle # 0, at = "work", NEW s \in Claimants, s = handle,
         Advance(s) \/ SwapStep(s)
  PROVE  OwnElection' /\ ElectionIsFull' /\ JournalIsFull' /\ ReplacesInOrder'
<1>f. /\ ~Has(ElectionCandidate(s)) /\ ~Has(JournalCandidate(s))
      /\ \A n \in JournalNames(s) : Has(n) => Lists(dir[n].rec)
      /\ Has(Prior(s)) /\ ~Has(Next_(s)) => Lists(goal)
      /\ undone => ~Has(Prior(s)) /\ ~Has(Next_(s))
  BY DEF CleanupInv, JournalIsFull
<1>n. {Prior(s), Next_(s)} \subseteq JournalNames(s) /\ Journal(s) \in JournalNames(s)
      /\ JournalNames(s) \subseteq NamesOf(s) \ {TransitionCandidate(s)}
      /\ {ElectionCandidate(s), JournalCandidate(s)} \cap JournalNames(s) = {}
  BY DEF JournalNames, NamesOf, Journal, Prior, Next_, TransitionCandidate, ElectionCandidate,
         JournalCandidate
<1>1. /\ UNCHANGED <<at, handle>> /\ ~undone'
      /\ DOMAIN dir \ JournalNames(s) = DOMAIN dir' \ JournalNames(s)
      /\ \A n \in JournalNames(s) : Has(n)' => Lists(dir'[n].rec)
      /\ (Has(Prior(s)) /\ ~Has(Next_(s)))' => Lists(goal')
  <2>1. CASE Advance(s)
    <3>1. Swap(s, Worked(JournalRecord(s), s)) /\ ~Has(Next_(s))
      BY <2>1 DEF Advance, Working, Swapping
    <3>2. Lists(Worked(JournalRecord(s), s))
      BY <2>1, WorkedLists
    <3>3. /\ Has(Journal(s)) /\ ~Has(Prior(s)) /\ DOMAIN dir' = DOMAIN dir \cup {Prior(s)}
          /\ dir'[Prior(s)] = dir[Journal(s)] /\ \A n \in DOMAIN dir : dir'[n] = dir[n]
          /\ goal' = Worked(JournalRecord(s), s) /\ undone' = FALSE
          /\ UNCHANGED <<moved, me, at, stale, handle, outcome>>
      BY <3>1, SwapBegins
    <3>4. \A n \in JournalNames(s) : Has(n)' => Lists(dir'[n].rec)
      BY <1>f, <1>n, <3>3 DEF Has
    <3>5. Lists(goal')
      BY <3>2, <3>3
    <3>. QED
      BY <1>n, <3>3, <3>4, <3>5
  <2>2. CASE SwapStep(s)
    <3>1. Has(Prior(s)) /\ ~Has(Next_(s)) => goal # Nil
      BY <1>f DEF Lists, Nil
    <3>2. /\ UNCHANGED <<moved, me, at, stale, handle, undone, outcome>>
          /\ DOMAIN dir \ JournalNames(s) = DOMAIN dir' \ JournalNames(s)
          /\ ~(Has(Prior(s)) /\ ~Has(Next_(s)))'
          /\ \A n \in JournalNames(s) : Has(n)' =>
               \/ Has(Prior(s)) /\ ~Has(Next_(s)) /\ dir'[n].rec = goal
               \/ \E m \in JournalNames(s) : Has(m) /\ dir'[n].rec = dir[m].rec
      BY <2>2, <3>1, SwapMoves
    <3>3. \A n \in JournalNames(s) : Has(n)' => Lists(dir'[n].rec)
      BY <1>f, <3>2
    <3>4. ~undone'
      BY <1>f, <2>2, <3>2 DEF SwapStep, HardLinked
    <3>. QED
      BY <3>2, <3>3, <3>4
  <2>. QED
    BY <2>1, <2>2
<1>2. /\ \A k \in {"t", "q"} : Has(Artifact(k, s))' => Has(Artifact(k, s))
      /\ \A k \in {"t", "q"} : Has(ClaimedName(k, s))' => Has(ClaimedName(k, s))
  BY <1>1, ArtifactNames DEF Has
<1>3. \A rec : (Retains(rec) => Retains(rec)') /\ (Lists(rec) => Lists(rec)')
  BY <1>1, <1>2, ListingsStay
<1>4. ~Has(ElectionCandidate(s))' /\ ~Has(JournalCandidate(s))'
  BY <1>f, <1>n, <1>1 DEF Has
<1>5. JournalIsFull'
  BY <1>1, <1>3, <1>4 DEF JournalIsFull, Lists
<1>6. OwnElection' /\ ReplacesInOrder'
  BY <1>n, <1>1, OwnStays
<1>. QED
  BY <1>1, <1>5, <1>6 DEF ElectionIsFull

LEMMA ReplacementNames ==
  ASSUME NEW s, NEW t, NEW n \in TransitionNames(s) \cup {Quarantine(s)}
  PROVE  n \notin {ClaimFile, HandoffFile, Election(t)} \cup JournalNames(t)
<1>1. \E kind \in {"t", "t_candidate", "q"} : n = <<kind, s>>
  BY DEF TransitionNames, Transition, TransitionCandidate, Quarantine
<1>2. \A m \in {ClaimFile, HandoffFile, Election(t)} \cup JournalNames(t) :
        \E kind \in {"claim", "handoff", "election", "journal", "prior", "next"} : \E x : m = <<kind, x>>
  BY DEF ClaimFile, HandoffFile, Election, JournalNames, Journal, Prior, Next_
<1>. QED
  BY <1>1, <1>2

(* The replacement begins in a directory without a trace of another one.    *)
LEMMA CompleteOwnKeeps ==
  ASSUME CleanupInv, handle # 0, NEW s \in Claimants, s = handle, CompleteOwn(s)
  PROVE  OwnElection' /\ ElectionIsFull' /\ JournalIsFull' /\ ReplacesInOrder'
<1>1. /\ at = "work" /\ at' = "replace" /\ UNCHANGED <<dir, moved, me, stale, handle, goal>>
      /\ Has(Journal(s)) /\ ~Has(Prior(s)) /\ ~Has(Next_(s)) /\ dir[Journal(s)].rec.phase = "complete"
  BY DEF CompleteOwn, Working, Swapping, Proceeds, JournalRecord
<1>2. /\ ~Has(ElectionCandidate(s)) /\ ~Has(JournalCandidate(s)) /\ Lists(dir[Journal(s)].rec)
      /\ Leftovers \subseteq NamesOf(s) \ {TransitionCandidate(s)}
  BY <1>1 DEF CleanupInv, JournalIsFull, OwnElection, JournalNames
<1>3. /\ ~Has(Transition(s)) /\ ~Has(Quarantine(s))
      /\ ~Has(ClaimedName("t", s)) /\ ~Has(ClaimedName("q", s))
  <2>1. \A k \in {"t", "q"} : ~Has(Artifact(k, s)) /\ ~Has(ClaimedName(k, s))
    BY <1>1, <1>2 DEF Lists
  <2>2. Artifact("t", s) = Transition(s) /\ Artifact("q", s) = Quarantine(s)
    BY DEF Artifact, Transition, Quarantine
  <2>. QED
    BY <2>1, <2>2
<1>4. Leftovers \subseteq {Election(s), Journal(s)}
  BY <1>1, <1>2, <1>3 DEF NamesOf, TransitionNames, JournalNames, Leftovers, Has
<1>5. \A n \in TransitionNames(stale) \cup {Quarantine(stale)} : ~Has(n)
  BY <1>4, ReplacementNames DEF Leftovers, JournalNames, Has
<1>6. HasClaim(stale)
  BY <1>1 DEF CleanupInv, ClaimIsKnown, HasClaim
<1>7. /\ Leftovers' = Leftovers
      /\ \A n \in TransitionNames(stale) \cup {Quarantine(stale), Prior(s), Next_(s)} : ~Has(n)'
      /\ HasClaim(stale)' /\ Finishes(dir[Journal(s)].rec)'
  BY <1>1, <1>2, <1>5, <1>6 DEF Leftovers, Has, HasClaim, By, Finishes, Lists
<1>8. ReplacesInOrder'
  BY <1>1, <1>4, <1>7 DEF ReplacesInOrder, JournalNames, TransitionNames, HasClaim, By
<1>. QED
  BY <1>1, <1>8 DEF OwnElection, ElectionIsFull, JournalIsFull

LEMMA RecoverKeeps ==
  ASSUME CleanupInv, NEW s \in Claimants, RecoverStep(s), at \in {"recover", "elect", "work"}
  PROVE  CleanupInv'
<1>1. /\ Cleans /\ at' \in {"recover", "elect", "work", "replace"}
      /\ ~Elect(s) => handle' = handle
      /\ at' = "replace" => CompleteOwn(s)
      /\ at' = "recover" => at = "recover" \/ DismissJournal(s)
  BY RecoverCleans
<1>t. handle \in Claimants \cup {0} /\ 0 \notin Claimants
  BY DEF CleanupInv, CleanupTypeOK, Claimants
<1>2. CASE Elect(s)
  BY <1>2, ElectKeeps
<1>3. CASE ~Elect(s) /\ handle = 0
  <2>1. at' # "replace"
    BY <1>1, <1>3, <1>t DEF CompleteOwn
  <2>2. OwnElection' /\ ElectionIsFull' /\ JournalIsFull' /\ ReplacesInOrder'
    BY <1>1, <1>3, <2>1 DEF OwnElection, ElectionIsFull, JournalIsFull, ReplacesInOrder
  <2>. QED
    BY <1>1, <1>3, <2>2, CleaningKeeps
<1>4. CASE ~Elect(s) /\ handle # 0
  <2>1. at \in {"elect", "work"}
    BY <1>4 DEF CleanupInv, ClaimIsKnown
  <2>2. /\ s = handle
        /\ \/ Electing(s) \/ OpenJournal(s) \/ Opened(s) \/ Remove(s) \/ Advance(s)
           \/ CompleteOwn(s) \/ \E k \in {"t", "q"} : ClaimArtifact(s, k)
           \/ at = "work" /\ SwapStep(s)
    BY <1>4, <2>1, OwnSteps
  <2>3. OwnElection' /\ ElectionIsFull' /\ JournalIsFull' /\ ReplacesInOrder'
    <3>1. CASE Electing(s) \/ Opened(s)
      BY <1>4, <2>2, <3>1, ElectingKeeps DEF Electing, Opened
    <3>2. CASE OpenJournal(s) \/ \E k \in {"t", "q"} : ClaimArtifact(s, k)
      BY <1>4, <2>2, <3>2, OpenJournalKeeps DEF OpenJournal, ClaimArtifact
    <3>3. CASE Remove(s)
      BY <1>4, <2>2, <3>3, RemoveKeeps
    <3>4. CASE Advance(s) \/ (at = "work" /\ SwapStep(s))
      BY <1>4, <2>2, <3>4, JournalMovesKeep DEF Advance, Working
    <3>5. CASE CompleteOwn(s)
      BY <1>4, <2>2, <3>5, CompleteOwnKeeps
    <3>. QED
      BY <2>2, <3>1, <3>2, <3>3, <3>4, <3>5
  <2>4. ~DismissJournal(s)
    BY <2>2 DEF DismissJournal
  <2>. QED
    BY <1>1, <1>4, <1>t, <2>1, <2>3, <2>4, CleaningKeeps DEF CleanupInv, ClaimIsKnown
<1>. QED
  BY <1>2, <1>3, <1>4

LEMMA RecoveredAllKeeps ==
  ASSUME CleanupInv, RecoveredAll
  PROVE  CleanupInv'
<1>1. /\ at = "recover" /\ at' = "replace" /\ Leftovers = {}
      /\ UNCHANGED <<dir, moved, me, stale, handle, outcome>>
  BY DEF RecoveredAll, AllSettled, Proceeds
<1>2. handle = 0 /\ Has(ClaimFile) /\ By(ClaimFile) = stale
  BY <1>1 DEF CleanupInv, ClaimIsKnown
<1>3. \A n \in TransitionNames(stale) \cup {Quarantine(stale)} : ~Has(n)
  BY <1>1, ReplacementNames DEF Leftovers, Has
<1>4. ReplacesInOrder'
  BY <1>1, <1>2, <1>3 DEF ReplacesInOrder, Leftovers, Has, HasClaim, By
<1>5. OwnElection' /\ ElectionIsFull' /\ JournalIsFull'
  BY <1>1 DEF OwnElection, ElectionIsFull, JournalIsFull
<1>. QED
  BY <1>1, <1>2, <1>4, <1>5, NothingCleans, CleaningKeeps

(* While it replaces, the rest of the invariant follows from the order.     *)
LEMMA ReplacingKeeps ==
  ASSUME CleanupInv, at = "replace", UNCHANGED <<at, me, stale, handle, outcome>>,
         Has(HandoffFile)', dir'[HandoffFile] = dir[HandoffFile], ReplacesInOrder'
  PROVE  CleanupInv'
<1>1. /\ stale \in Claimants /\ stale \in 1..(me - 1) /\ me \in Claimants
      /\ handle \in Claimants \cup {0} /\ By(HandoffFile) = me
  BY DEF CleanupInv, CleanupTypeOK, ClaimIsKnown, HandoffIsOwn, Claimants
<1>2. /\ Leftovers' \subseteq TransitionNames(stale) \cup {Quarantine(stale)}
           \cup (IF handle = 0 THEN {} ELSE {Election(handle)} \cup JournalNames(handle))
      /\ \A n \in TransitionNames(stale) : Has(n)' => By(n)' = me
      /\ Has(ClaimFile)' => By(ClaimFile)' \in {stale, me}
      /\ Has(Quarantine(stale))' \/ ~HasClaim(stale)' => MyTransition'
  BY DEF ReplacesInOrder
<1>3. \A s \in Claimants : \A n \in TransitionNames(s) : Has(n)' => s = stale
  <2>1. ASSUME NEW s \in Claimants, NEW n \in TransitionNames(s), Has(n)'
        PROVE  s = stale
    <3>1. n \in TransitionNames(stale) \cup {Quarantine(stale)}
      BY <1>2, <2>1, ReplacementNames DEF Leftovers, Has
    <3>2. n \in NamesOf(s) /\ n \in NamesOf(stale)
      BY <2>1, <3>1 DEF NamesOf
    <3>. QED
      BY <1>1, <3>2, NamesDiffer
  <2>. QED
    BY <2>1
<1>4. CleanupTypeOK'
  <2>1. ASSUME NEW n \in Leftovers'
        PROVE  \E s \in Claimants : n \in NamesOf(s)
    BY <1>1, <1>2, <2>1 DEF NamesOf
  <2>. QED
    BY <2>1 DEF CleanupInv, CleanupTypeOK
<1>5. HandoffIsOwn' /\ ClaimIsKnown'
  BY <1>1 DEF HandoffIsOwn, ClaimIsKnown, By
<1>6. FilesAreOld'
  <2>1. By(HandoffFile)' = me
    BY <1>1 DEF By
  <2>2. stale \in 1..me /\ me \in 1..me
    BY <1>1, CleanupAssumption DEF Claimants
  <2>. QED
    BY <1>2, <1>3, <2>1, <2>2 DEF FilesAreOld
<1>7. OneTransition'
  BY <1>3 DEF OneTransition, TransitionNames
<1>8. SuccessorIsThere'
  <2>1. SUFFICES ASSUME ~Has(ClaimFile)'
                 PROVE  \E s \in Claimants : Transitions' = {s} /\ By(Transition(s))' = me
    BY <1>1 DEF SuccessorIsThere, By
  <2>2. Has(Transition(stale))'
    BY <1>2, <2>1 DEF HasClaim, MyTransition, Installed
  <2>3. Transitions' = {stale}
    BY <1>1, <1>3, <2>2 DEF Transitions, TransitionNames
  <2>. QED
    BY <1>1, <1>2, <2>2, <2>3 DEF TransitionNames
<1>9. NothingIsInTheWay'
  BY DEF CleanupInv, NothingIsInTheWay
<1>10. OwnElection' /\ ElectionIsFull' /\ JournalIsFull' /\ LeavesTheTransition'
  BY DEF OwnElection, ElectionIsFull, JournalIsFull, LeavesTheTransition
<1>. QED
  BY <1>4, <1>5, <1>6, <1>7, <1>8, <1>9, <1>10 DEF CleanupInv

(* What holds when a step of the replacement begins.                        *)
LEMMA Replaces ==
  ASSUME CleanupInv, at = "replace"
  PROVE  /\ stale \in 1..(me - 1) /\ stale # me /\ stale \in Claimants
         /\ Has(HandoffFile) /\ By(HandoffFile) = me
         /\ ReplacesInOrder
BY DEF CleanupInv, ClaimIsKnown, HandoffIsOwn, CleanupTypeOK, Claimants

LEMMA JournalReplacesKeep ==
  ASSUME CleanupInv, at = "replace", handle # 0,
         (\E rec : Finishes(rec) /\ Swap(handle, rec) /\ ~Has(Next_(handle)))
           \/ SwapStep(handle)
  PROVE  CleanupInv'
<1> DEFINE files == JournalNames(handle)
<1>h. handle \in Claimants
  BY DEF CleanupInv, CleanupTypeOK
<1>o. /\ Leftovers \subseteq TransitionNames(stale) \cup {Quarantine(stale), Election(handle)} \cup files
      /\ \A n \in TransitionNames(stale) : Has(n) => By(n) = me
      /\ Has(ClaimFile) => By(ClaimFile) \in {stale, me}
      /\ Has(Quarantine(stale)) \/ ~HasClaim(stale) => MyTransition
      /\ \A n \in files : Has(n) => Finishes(dir[n].rec)
      /\ Has(Prior(handle)) /\ ~Has(Next_(handle)) => Finishes(goal)
      /\ Has(HandoffFile)
  BY Replaces DEF ReplacesInOrder
<1>n. {Journal(handle), Prior(handle), Next_(handle)} = files
  BY DEF JournalNames
<1>1. /\ UNCHANGED <<at, me, stale, handle, outcome>>
      /\ DOMAIN dir \ files = DOMAIN dir' \ files
      /\ \A n \in DOMAIN dir \ files : dir'[n] = dir[n]
      /\ \A n \in files : Has(n)' => Finishes(dir'[n].rec)
      /\ (Has(Prior(handle)) /\ ~Has(Next_(handle)))' => Finishes(goal')
  <2>1. CASE \E rec : Finishes(rec) /\ Swap(handle, rec) /\ ~Has(Next_(handle))
    <3>1. PICK rec : Finishes(rec) /\ Swap(handle, rec) /\ ~Has(Next_(handle))
      BY <2>1
    <3>2. /\ Has(Journal(handle)) /\ ~Has(Prior(handle))
          /\ DOMAIN dir' = DOMAIN dir \cup {Prior(handle)}
          /\ dir'[Prior(handle)] = dir[Journal(handle)] /\ \A n \in DOMAIN dir : dir'[n] = dir[n]
          /\ goal' = rec /\ UNCHANGED <<moved, me, at, stale, handle, outcome>>
      BY <1>h, <3>1, SwapBegins
    <3>3. \A n \in files : Has(n)' => Finishes(dir'[n].rec)
      BY <1>n, <1>o, <3>2 DEF Has
    <3>4. Finishes(goal')
      BY <3>1, <3>2
    <3>. QED
      BY <1>n, <3>2, <3>3, <3>4
  <2>2. CASE SwapStep(handle)
    <3>1. Has(Prior(handle)) /\ ~Has(Next_(handle)) => goal # Nil
      BY <1>o DEF Finishes, Nil
    <3>2. /\ UNCHANGED <<moved, me, at, stale, handle, undone, outcome>>
          /\ DOMAIN dir \ files = DOMAIN dir' \ files
          /\ \A n \in DOMAIN dir \ files : dir'[n] = dir[n]
          /\ ~(Has(Prior(handle)) /\ ~Has(Next_(handle)))'
          /\ \A n \in files : Has(n)' =>
               \/ Has(Prior(handle)) /\ ~Has(Next_(handle)) /\ dir'[n].rec = goal
               \/ \E m \in files : Has(m) /\ dir'[n].rec = dir[m].rec
      BY <1>h, <2>2, <3>1, SwapMoves
    <3>3. \A n \in files : Has(n)' => Finishes(dir'[n].rec)
      BY <1>o, <3>2
    <3>. QED
      BY <3>2, <3>3
  <2>. QED
    BY <2>1, <2>2
<1>2. \A n \in {ClaimFile, HandoffFile, Quarantine(stale)} \cup TransitionNames(stale) : n \notin files
  <2>1. ClaimFile \notin files /\ HandoffFile \notin files
    BY <1>h, NamesDiffer DEF NamesOf
  <2>. QED
    BY <2>1, ReplacementNames
<1>3. \A n \in {ClaimFile, HandoffFile, Quarantine(stale)} \cup TransitionNames(stale) :
        (Has(n)' <=> Has(n)) /\ (Has(n) => dir'[n] = dir[n])
  BY <1>1, <1>2 DEF Has
<1>4. /\ HasClaim(stale)' <=> HasClaim(stale)
      /\ HasClaim(me)' <=> HasClaim(me)
      /\ MyTransition' <=> MyTransition
  BY <1>1, <1>3 DEF HasClaim, By, MyTransition, Installed, TransitionNames
<1>5. \A rec : Finishes(rec) => Finishes(rec)'
  BY <1>1, <1>3, <1>4 DEF Finishes
<1>6. /\ \A n \in files : Has(n)' => Finishes(dir[n].rec)'
      /\ (Has(Prior(handle)) /\ ~Has(Next_(handle)))' => Finishes(goal)'
  BY <1>1, <1>5 DEF Finishes
<1>7. Leftovers' \subseteq TransitionNames(stale) \cup {Quarantine(stale), Election(handle)} \cup files
  BY <1>o, <1>1 DEF Leftovers
<1>8. ReplacesInOrder'
  BY <1>o, <1>1, <1>3, <1>4, <1>6, <1>7 DEF ReplacesInOrder, By
<1>. QED
  BY <1>o, <1>1, <1>3, <1>8, ReplacingKeeps


(* The journal only becomes final when the claim is the own one.            *)
LEMMA RecordsKeep ==
  ASSUME CleanupInv, Announce \/ RecordTransition \/ RecordQuarantine \/ Finalize
  PROVE  CleanupInv'
<1>1. at = "replace" /\ ReplacesInOrder
  BY Replaces DEF Announce, RecordTransition, RecordQuarantine, Finalize, Replacing
<1>2. handle # 0 /\ Has(Journal(handle)) /\ ~Has(Next_(handle))
  BY DEF Announce, RecordTransition, RecordQuarantine, Finalize, Replacing, Phase, Swapping
<1> DEFINE rec == JournalRecord(handle)
<1>3. Finishes(rec)
  BY <1>1, <1>2 DEF ReplacesInOrder, JournalRecord, JournalNames
<1>4. CASE Announce
  <2>1. Finishes([rec EXCEPT !.phase = "installing"])
    BY <1>3 DEF Finishes
  <2>. QED
    BY <1>1, <1>2, <1>4, <2>1, JournalReplacesKeep DEF Announce
<1>5. CASE RecordTransition
  <2>1. Finishes([rec EXCEPT !.transition = Identity(Transition(stale))])
    BY <1>3 DEF Finishes
  <2>. QED
    BY <1>1, <1>2, <1>5, <2>1, JournalReplacesKeep DEF RecordTransition
<1>6. CASE RecordQuarantine
  <2>1. Finishes([rec EXCEPT !.phase = "quarantined", !.quarantine = Identity(Quarantine(stale))])
    BY <1>3 DEF Finishes
  <2>. QED
    BY <1>1, <1>2, <1>6, <2>1, JournalReplacesKeep DEF RecordQuarantine
<1>7. CASE Finalize
  <2>1. Finishes([rec EXCEPT !.phase = "finalizing"])
    BY <1>3, <1>7 DEF Finishes, Finalize
  <2>. QED
    BY <1>1, <1>2, <1>7, <2>1, JournalReplacesKeep DEF Finalize
<1>. QED
  BY <1>4, <1>5, <1>6, <1>7

(* While it replaces the claim, the claimant is only ever at its own        *)
(* journal.                                                                 *)
LEMMA ReplaceSwapKeeps ==
  ASSUME CleanupInv, at = "replace", NEW s \in Claimants, RecoverStep(s)
  PROVE  SwapStep(s) /\ handle # 0 /\ CleanupInv'
<1>1. SwapStep(s) /\ Has(Election(s))
  BY DEF RecoverStep, DropCandidate, RecoverSwap, TakeUp, DropOrphan, Elect, Quiet, AllSettled,
         Electing, OpenJournal, Opened, Remove, Advance, CompleteOwn, Adopt, Adoptable, Resume,
         Begun, Dismiss, DismissJournal, Working, ClaimArtifact, SwapStep
<1>2. ReplacesInOrder /\ stale \in Claimants /\ handle \in Claimants \cup {0}
  BY Replaces DEF CleanupInv, CleanupTypeOK
<1>3. Election(s) \in NamesOf(s)
  BY DEF NamesOf
<1>4. Election(s) \in Leftovers
  BY <1>1, <1>3, NamesDiffer DEF Leftovers, Has
<1>5. Election(s) \notin TransitionNames(stale) \cup {Quarantine(stale)}
  BY ReplacementNames
<1>6. handle # 0 /\ Election(s) \in NamesOf(handle)
  BY <1>2, <1>4, <1>5 DEF ReplacesInOrder, NamesOf
<1>7. s = handle
  BY <1>2, <1>3, <1>6, NamesDiffer
<1>. QED
  BY <1>1, <1>6, <1>7, JournalReplacesKeep

(* A step that leaves the journal alone keeps it in order if it keeps who   *)
(* has the claim, or the journal is not final.                              *)
LEMMA FilesReplaceKeep ==
  ASSUME CleanupInv, at = "replace", NEW n, UNCHANGED <<at, me, stale, handle, goal, outcome>>,
         n \in TransitionNames(stale) \cup {Quarantine(stale), ClaimFile},
         DOMAIN dir' \ {n} = DOMAIN dir \ {n},
         \A m \in DOMAIN dir \ {n} : dir'[m] = dir[m],
         n \in TransitionNames(stale) => (Has(n)' => By(n)' = me),
         Has(ClaimFile)' => By(ClaimFile)' \in {stale, me},
         Has(Quarantine(stale))' \/ ~HasClaim(stale)' => MyTransition',
         \/ n \in TransitionNames(stale)
         \/ HasClaim(me)' /\ (Has(Quarantine(stale))' => Has(Quarantine(stale)))
         \/ ~HasClaim(me)
  PROVE  CleanupInv'
<1>1. ReplacesInOrder /\ Has(HandoffFile) /\ stale \in Claimants /\ handle \in Claimants \cup {0}
  BY Replaces DEF CleanupInv, CleanupTypeOK
<1>2. n # HandoffFile /\ (handle # 0 => n \notin {Election(handle)} \cup JournalNames(handle))
  <2>1. ClaimFile # HandoffFile
    BY DEF ClaimFile, HandoffFile
  <2>2. handle # 0 => ClaimFile \notin {Election(handle)} \cup JournalNames(handle)
    BY <1>1, NamesDiffer DEF NamesOf
  <2>. QED
    BY <2>1, <2>2, ReplacementNames
<1>3. Has(HandoffFile)' /\ dir'[HandoffFile] = dir[HandoffFile]
  BY <1>1, <1>2 DEF Has
<1>4. Leftovers' \subseteq Leftovers \cup ({n} \ {ClaimFile})
  BY DEF Leftovers
<1>5. \A m \in TransitionNames(stale) : Has(m)' => By(m)' = me
  BY <1>1 DEF ReplacesInOrder, Has, By
<1>6. \A rec : Finishes(rec) => Finishes(rec)'
  <2>1. n \in TransitionNames(stale) =>
          /\ HasClaim(me)' <=> HasClaim(me)
          /\ Has(Quarantine(stale))' <=> Has(Quarantine(stale))
    <3>1. n \in TransitionNames(stale) => n # ClaimFile /\ n # Quarantine(stale)
      <4>1. ClaimFile # Transition(stale) /\ ClaimFile # TransitionCandidate(stale)
        BY DEF ClaimFile, Transition, TransitionCandidate
      <4>2. Quarantine(stale) # Transition(stale) /\ Quarantine(stale) # TransitionCandidate(stale)
        BY DEF Quarantine, Transition, TransitionCandidate
      <4>. QED
        BY <4>1, <4>2 DEF TransitionNames
    <3>. QED
      BY <3>1 DEF HasClaim, By, Has
  <2>. QED
    BY <2>1 DEF Finishes
<1>7. handle # 0 => \A m \in JournalNames(handle) :
        (Has(m)' <=> Has(m)) /\ (Has(m) => dir'[m] = dir[m])
  BY <1>2 DEF Has
<1>8. handle # 0 => Prior(handle) \in JournalNames(handle) /\ Next_(handle) \in JournalNames(handle)
  BY DEF JournalNames
<1>9. Leftovers' \subseteq TransitionNames(stale) \cup {Quarantine(stale)}
        \cup (IF handle = 0 THEN {} ELSE {Election(handle)} \cup JournalNames(handle))
  BY <1>1, <1>4 DEF ReplacesInOrder
<1>10. handle # 0 =>
         /\ \A m \in JournalNames(handle) : Has(m)' => Finishes(dir[m].rec)'
         /\ (Has(Prior(handle)) /\ ~Has(Next_(handle)))' => Finishes(goal)'
  <2>1. SUFFICES ASSUME handle # 0
                 PROVE  /\ \A m \in JournalNames(handle) : Has(m)' => Finishes(dir[m].rec)'
                        /\ (Has(Prior(handle)) /\ ~Has(Next_(handle)))' => Finishes(goal)'
    OBVIOUS
  <2>2. \A m \in JournalNames(handle) : Has(m)' => Finishes(dir[m].rec)'
    BY <1>1, <1>6, <1>7, <2>1 DEF ReplacesInOrder, Finishes
  <2>3. (Has(Prior(handle)) /\ ~Has(Next_(handle)))' => Finishes(goal)'
    BY <1>1, <1>6, <1>7, <1>8, <2>1 DEF ReplacesInOrder, Finishes
  <2>. QED
    BY <2>2, <2>3
<1>11. ReplacesInOrder'
  BY <1>5, <1>9, <1>10 DEF ReplacesInOrder
<1>. QED
  BY <1>3, <1>11, ReplacingKeeps


LEMMA InstallTransitionKeeps ==
  ASSUME CleanupInv, InstallTransition
  PROVE  CleanupInv'
<1> DEFINE candidate == TransitionCandidate(stale)
           target == Transition(stale)
<1>1. /\ at = "replace" /\ ReplacesInOrder /\ ~MyTransition /\ stale # me
      /\ InstallFile(candidate, target, me, Nil)
  BY Replaces DEF InstallTransition, Replacing
<1>2. ~Has(Quarantine(stale)) /\ HasClaim(stale) /\ ~HasClaim(me)
  BY <1>1 DEF ReplacesInOrder, HasClaim
<1>3. UNCHANGED <<at, me, stale, handle, goal, outcome>>
  BY <1>1 DEF InstallFile, Stays, Proceeds
<1>4. /\ candidate \in TransitionNames(stale) /\ target \in TransitionNames(stale)
      /\ TransitionNames(stale) = {candidate, target} /\ candidate # target
  BY DEF TransitionNames, TransitionCandidate, Transition
<1>5. PICK n \in TransitionNames(stale) :
        /\ DOMAIN dir' \ {n} = DOMAIN dir \ {n}
        /\ \A m \in DOMAIN dir \ {n} : dir'[m] = dir[m]
        /\ Has(n)' => By(n)' = me
  <2>1. CASE Write(candidate, me, Nil)
    BY <1>4, <2>1, WriteIs DEF By
  <2>2. CASE Link(candidate, target)
    <3>1. By(candidate) = me
      BY <1>1, <1>4, <2>2, LinkIs DEF ReplacesInOrder
    <3>. QED
      BY <1>4, <2>2, <3>1, LinkIs DEF By
  <2>3. CASE Unlink(candidate)
    BY <1>4, <2>3, UnlinkIs DEF Has
  <2>. QED
    BY <1>1, <2>1, <2>2, <2>3 DEF InstallFile
<1>6. n # ClaimFile /\ n # Quarantine(stale)
  <2>1. ClaimFile # candidate /\ ClaimFile # target
    BY DEF ClaimFile, TransitionCandidate, Transition
  <2>2. Quarantine(stale) # candidate /\ Quarantine(stale) # target
    BY DEF Quarantine, TransitionCandidate, Transition
  <2>. QED
    BY <1>4, <2>1, <2>2
<1>7. HasClaim(stale)' /\ ~Has(Quarantine(stale))' /\ By(ClaimFile)' = stale
  BY <1>2, <1>3, <1>5, <1>6 DEF HasClaim, Has, By
<1>. QED
  BY <1>1, <1>2, <1>3, <1>5, <1>7, FilesReplaceKeep

(* The quarantine comes after the transition, the dead claim goes after the *)
(* quarantine, and the own claim after that.                                *)
LEMMA SucceedKeeps ==
  ASSUME CleanupInv, QuarantineClaim \/ UnlinkDeadClaim \/ Succeed \/ DropQuarantine
  PROVE  CleanupInv'
<1>1. /\ at = "replace" /\ ReplacesInOrder /\ stale # me
      /\ UNCHANGED <<at, me, stale, handle, goal, outcome>>
  BY Replaces DEF QuarantineClaim, UnlinkDeadClaim, Succeed, DropQuarantine, Replacing, Stays,
                  Proceeds
<1>2. MyTransition
  <2>1. UnlinkDeadClaim \/ DropQuarantine => Has(Quarantine(stale))
    BY UnlinkIs DEF UnlinkDeadClaim, DropQuarantine, HardLinked
  <2>. QED
    BY <1>1, <2>1 DEF ReplacesInOrder, QuarantineClaim, Succeed
<1>3. /\ ClaimFile \notin TransitionNames(stale) /\ Quarantine(stale) \notin TransitionNames(stale)
      /\ ClaimFile # Quarantine(stale)
  BY DEF ClaimFile, Quarantine, TransitionNames, Transition, TransitionCandidate
<1>4. PICK n \in {ClaimFile, Quarantine(stale)} :
        /\ DOMAIN dir' \ {n} = DOMAIN dir \ {n}
        /\ \A m \in DOMAIN dir \ {n} : dir'[m] = dir[m]
        /\ n = ClaimFile /\ Has(n)' => ~Has(n) /\ By(n)' = me
        /\ n = Quarantine(stale) => HasClaim(stale) \/ ~Has(n)'
        /\ n = ClaimFile => HasClaim(stale) \/ ~Has(ClaimFile)
  <2>1. CASE QuarantineClaim
    BY <1>3, <2>1, LinkIs DEF QuarantineClaim
  <2>2. CASE UnlinkDeadClaim
    BY <2>2, UnlinkIs DEF UnlinkDeadClaim, Has
  <2>3. CASE Succeed
    BY <1>3, <2>3, WriteIs DEF Succeed, By, Has
  <2>4. CASE DropQuarantine
    BY <1>3, <2>4, UnlinkIs DEF DropQuarantine, Has
  <2>. QED
    BY <2>1, <2>2, <2>3, <2>4
<1>5. MyTransition'
  BY <1>1, <1>2, <1>3, <1>4 DEF MyTransition, Installed, Has, TransitionNames
<1>6. Has(ClaimFile)' => By(ClaimFile)' \in {stale, me}
  BY <1>1, <1>3, <1>4 DEF ReplacesInOrder, Has, By
<1>7. \/ HasClaim(me)' /\ (Has(Quarantine(stale))' => Has(Quarantine(stale)))
      \/ ~HasClaim(me)
  BY <1>1, <1>3, <1>4 DEF HasClaim, Has, By
<1>. QED
  BY <1>1, <1>3, <1>4, <1>5, <1>6, <1>7, FilesReplaceKeep

LEMMA ReleaseElectionKeeps ==
  ASSUME CleanupInv, ReleaseElection
  PROVE  CleanupInv'
<1> DEFINE n == Election(handle)
<1>1. /\ at = "replace" /\ handle # 0 /\ UNCHANGED <<at, me, stale, handle, goal, outcome>>
      /\ DOMAIN dir' = DOMAIN dir \ {n} /\ \A m \in DOMAIN dir \ {n} : dir'[m] = dir[m]
  BY UnlinkIs DEF ReleaseElection, Replacing, Phase, Stays, Proceeds
<1>2. /\ ReplacesInOrder /\ Has(HandoffFile) /\ stale \in Claimants /\ handle \in Claimants
  BY <1>1, Replaces DEF CleanupInv, CleanupTypeOK
<1>3. \A m \in {ClaimFile, HandoffFile, Quarantine(stale)} \cup TransitionNames(stale)
          \cup JournalNames(handle) : m # n
  <2>1. ClaimFile # n /\ HandoffFile # n
    BY <1>2, NamesDiffer DEF NamesOf
  <2>2. \A m \in JournalNames(handle) : m # n
    BY DEF JournalNames, Journal, Prior, Next_, Election
  <2>. QED
    BY <2>1, <2>2, ReplacementNames
<1>4. \A m \in {ClaimFile, HandoffFile, Quarantine(stale)} \cup TransitionNames(stale)
          \cup JournalNames(handle) : (Has(m)' <=> Has(m)) /\ (Has(m) => dir'[m] = dir[m])
  BY <1>1, <1>3 DEF Has
<1>5. /\ HasClaim(stale)' <=> HasClaim(stale)
      /\ HasClaim(me)' <=> HasClaim(me)
      /\ MyTransition' <=> MyTransition
  BY <1>1, <1>4 DEF HasClaim, By, MyTransition, Installed, TransitionNames
<1>6. \A rec : Finishes(rec) => Finishes(rec)'
  BY <1>1, <1>4, <1>5 DEF Finishes
<1>7. Leftovers' \subseteq Leftovers
  BY <1>1 DEF Leftovers
<1>8. Prior(handle) \in JournalNames(handle) /\ Next_(handle) \in JournalNames(handle)
  BY DEF JournalNames
<1>9. /\ \A m \in JournalNames(handle) : Has(m)' => Finishes(dir[m].rec)'
      /\ (Has(Prior(handle)) /\ ~Has(Next_(handle)))' => Finishes(goal)'
  BY <1>1, <1>2, <1>4, <1>6, <1>8 DEF ReplacesInOrder, Finishes
<1>10. ReplacesInOrder'
  BY <1>1, <1>2, <1>4, <1>5, <1>7, <1>9 DEF ReplacesInOrder, By
<1>. QED
  BY <1>1, <1>2, <1>4, <1>10, ReplacingKeeps

(* A claimant that has the claim and no quarantine leaves its transition.   *)
LEMMA ReplacedKeeps ==
  ASSUME CleanupInv, Replaced \/ DropJournal
  PROVE  CleanupInv'
<1>1. /\ at = "replace" /\ ReplacesInOrder /\ stale # me /\ at' = "release"
      /\ UNCHANGED <<moved, me, stale, handle, goal, undone, outcome>>
      /\ handle # 0 => Has(Journal(handle)) /\ ~Swapping(handle)
  BY Replaces DEF Replaced, DropJournal, Replacing, Proceeds
<1>2. stale \in 1..(me - 1) /\ stale \in Claimants /\ me \in Claimants /\ handle \in Claimants \cup {0}
      /\ Has(HandoffFile) /\ By(HandoffFile) = me
  BY <1>1, Replaces DEF CleanupInv, CleanupTypeOK
<1>n. stale # 0
  BY <1>2, CleanupAssumption DEF Claimants
<1>3. HasClaim(me) /\ ~Has(Quarantine(stale))
  <2>1. CASE Replaced
    BY <2>1 DEF Replaced
  <2>2. CASE DropJournal
    <3>1. handle # 0 /\ Has(Journal(handle)) /\ JournalRecord(handle).phase = "finalizing"
      BY <1>1, <2>2 DEF DropJournal, Phase
    <3>2. Finishes(JournalRecord(handle))
      BY <1>1, <3>1 DEF ReplacesInOrder, JournalNames, JournalRecord
    <3>. QED
      BY <3>1, <3>2 DEF Finishes
  <2>. QED
    BY <2>1, <2>2
<1>4. MyTransition
  BY <1>1, <1>3 DEF ReplacesInOrder, HasClaim
<1>5. Leftovers' \subseteq {Transition(stale)}
  <2>1. handle # 0 => ~Has(Prior(handle)) /\ ~Has(Next_(handle))
    BY <1>1 DEF Swapping
  <2>2. Leftovers \subseteq {Transition(stale)}
          \cup (IF handle = 0 THEN {} ELSE {Election(handle), Journal(handle)})
    BY <1>1, <1>3, <1>4, <2>1
       DEF ReplacesInOrder, TransitionNames, JournalNames, MyTransition, Installed,
          Leftovers, Has
  <2>3. CASE Replaced
    BY <2>2, <2>3 DEF Replaced, Leftovers
  <2>4. CASE DropJournal
    <3>1. /\ ~Has(Election(handle)) /\ handle # 0
          /\ DOMAIN dir' = DOMAIN dir \ {Journal(handle)}
      BY <2>4, UnlinkIs DEF DropJournal, Phase
    <3>2. \A m \in Leftovers' : m \in Leftovers /\ m # Journal(handle) /\ m # Election(handle)
      BY <3>1 DEF Leftovers, Has
    <3>. QED
      BY <2>2, <3>2
  <2>. QED
    BY <2>3, <2>4
<1>6. \A m \in {ClaimFile, HandoffFile, Transition(stale)} : Has(m)' /\ dir'[m] = dir[m]
  <2>1. CASE Replaced
    BY <1>2, <1>3, <1>4, <2>1 DEF Replaced, HasClaim, MyTransition, Installed, Has
  <2>2. CASE DropJournal
    <3>1. /\ handle \in Claimants /\ DOMAIN dir' = DOMAIN dir \ {Journal(handle)}
          /\ \A m \in DOMAIN dir \ {Journal(handle)} : dir'[m] = dir[m]
      BY <1>2, <2>2, UnlinkIs DEF DropJournal, Phase
    <3>2. ClaimFile # Journal(handle) /\ HandoffFile # Journal(handle)
      BY <3>1, NamesDiffer DEF NamesOf, JournalNames
    <3>3. Transition(stale) # Journal(handle)
      BY DEF Transition, Journal
    <3>. QED
      BY <1>2, <1>3, <1>4, <3>1, <3>2, <3>3 DEF HasClaim, MyTransition, Installed, Has
  <2>. QED
    BY <2>1, <2>2
<1>7. By(ClaimFile)' = me /\ By(HandoffFile)' = me /\ By(Transition(stale))' = me
  BY <1>1, <1>2, <1>3, <1>4, <1>6
     DEF HasClaim, By, ReplacesInOrder, MyTransition, Installed, TransitionNames
<1>8. Leftovers' = {Transition(stale)}
  BY <1>5, <1>6 DEF Leftovers, Has, Transition, ClaimFile, HandoffFile
<1>9. \A s \in Claimants : \A m \in TransitionNames(s) : Has(m)' => s = stale /\ m = Transition(stale)
  <2>1. ASSUME NEW s \in Claimants, NEW m \in TransitionNames(s), Has(m)'
        PROVE  s = stale /\ m = Transition(stale)
    <3>1. m = Transition(stale)
      BY <1>8, <2>1, ReplacementNames DEF Leftovers, Has
    <3>2. m \in NamesOf(s) /\ m \in NamesOf(stale)
      BY <2>1, <3>1 DEF NamesOf, TransitionNames
    <3>. QED
      BY <1>2, <3>1, <3>2, NamesDiffer
  <2>. QED
    BY <2>1
<1>10. CleanupTypeOK'
  BY <1>1, <1>2, <1>8 DEF CleanupInv, CleanupTypeOK, NamesOf, TransitionNames
<1>11. HandoffIsOwn' /\ ClaimIsKnown'
  BY <1>1, <1>6, <1>7 DEF HandoffIsOwn, ClaimIsKnown
<1>12. FilesAreOld'
  <2>1. me \in 1..me
    BY <1>2, CleanupAssumption DEF Claimants
  <2>. QED
    BY <1>1, <1>7, <1>9, <2>1 DEF FilesAreOld
<1>13. OneTransition'
  BY <1>2, <1>9 DEF OneTransition, TransitionNames
<1>14. LeavesTheTransition'
  BY <1>1, <1>6, <1>7, <1>8, <1>n DEF LeavesTheTransition, HasClaim
<1>15. SuccessorIsThere' /\ NothingIsInTheWay'
  BY <1>1, <1>6 DEF SuccessorIsThere, CleanupInv, NothingIsInTheWay
<1>16. OwnElection' /\ ElectionIsFull' /\ JournalIsFull' /\ ReplacesInOrder'
  BY <1>1 DEF OwnElection, ElectionIsFull, JournalIsFull, ReplacesInOrder
<1>. QED
  BY <1>10, <1>11, <1>12, <1>13, <1>14, <1>15, <1>16 DEF CleanupInv


(* A step that touches only the claim and the handoff.                      *)
LEMMA OutsideKeeps ==
  ASSUME CleanupInv,
         at' \in {"arrive", "claim", "recover", "release", "quarantine", "done"},
         me' \in Claimants, stale' \in Claimants \cup {0}, handle' \in Claimants \cup {0},
         DOMAIN dir' \ {ClaimFile, HandoffFile} = Leftovers,
         \A n \in Leftovers : dir'[n] = dir[n],
         HandoffIsOwn', FilesAreOld', ClaimIsKnown', LeavesTheTransition', SuccessorIsThere',
         NothingIsInTheWay'
  PROVE  CleanupInv'
<1>1. Leftovers' = Leftovers
  BY DEF Leftovers
<1>2. CleanupTypeOK'
  BY <1>1 DEF CleanupInv, CleanupTypeOK
<1>3. OneTransition'
  <2>1. \A s \in Claimants : Has(Transition(s))' <=> Has(Transition(s))
    <3>1. \A s \in Claimants : Transition(s) \notin {ClaimFile, HandoffFile}
      BY DEF Transition, ClaimFile, HandoffFile
    <3>. QED
      BY <3>1 DEF Has, Leftovers
  <2>. QED
    BY <2>1 DEF CleanupInv, OneTransition
<1>4. OwnElection' /\ ElectionIsFull' /\ JournalIsFull' /\ ReplacesInOrder'
  BY DEF OwnElection, ElectionIsFull, JournalIsFull, ReplacesInOrder
<1>. QED
  BY <1>2, <1>3, <1>4 DEF CleanupInv

(* The transitions such a step leaves alone.                                *)
LEMMA TransitionsStay ==
  ASSUME DOMAIN dir' \ {ClaimFile, HandoffFile} = Leftovers,
         \A n \in Leftovers : dir'[n] = dir[n]
  PROVE  \A s \in Claimants : \A n \in TransitionNames(s) :
           (Has(n)' <=> Has(n)) /\ (Has(n) => dir'[n] = dir[n])
<1>1. \A s \in Claimants : \A n \in TransitionNames(s) : n \notin {ClaimFile, HandoffFile}
  BY ReplacementNames
<1>. QED
  BY <1>1 DEF Has, Leftovers

LEMMA ArriveKeeps ==
  ASSUME CleanupInv, WriteHandoff \/ FindClaim
  PROVE  CleanupInv'
<1>0. /\ me \in Claimants /\ handle \in Claimants \cup {0} /\ ClaimFile # HandoffFile
      /\ me \in Nat /\ me >= 1
  BY CleanupAssumption DEF CleanupInv, CleanupTypeOK, ClaimFile, HandoffFile, Claimants
<1>1. CASE WriteHandoff
  <2>1. /\ at = "arrive" /\ at' = "claim" /\ UNCHANGED <<moved, me, stale, handle, goal, undone, outcome>>
        /\ ~Has(HandoffFile) /\ DOMAIN dir' = DOMAIN dir \cup {HandoffFile}
        /\ dir'[HandoffFile].by = me /\ \A x \in DOMAIN dir : dir'[x] = dir[x]
    BY <1>1, WriteIs DEF WriteHandoff, Proceeds
  <2>2. DOMAIN dir' \ {ClaimFile, HandoffFile} = Leftovers /\ \A n \in Leftovers : dir'[n] = dir[n]
    BY <2>1 DEF Leftovers
  <2>3. HandoffIsOwn' /\ ClaimIsKnown' /\ LeavesTheTransition'
    BY <2>1 DEF CleanupInv, HandoffIsOwn, ClaimIsKnown, LeavesTheTransition, Has, By
  <2>4. SuccessorIsThere'
    BY <2>1, <2>2 DEF CleanupInv, SuccessorIsThere, Leftovers, Has
  <2>5. FilesAreOld'
    <3>1. By(HandoffFile)' \in 1..me
      BY <1>0, <2>1 DEF By
    <3>2. Has(ClaimFile)' => By(ClaimFile)' \in 1..(me - 1)
      BY <1>0, <2>1 DEF CleanupInv, FilesAreOld, Has, By
    <3>3. \A s \in Claimants : \A n \in TransitionNames(s) : Has(n)' => By(n)' \in 1..(me - 1)
      BY <2>1, <2>2, TransitionsStay DEF CleanupInv, FilesAreOld, By
    <3>. QED
      BY <2>1, <3>1, <3>2, <3>3 DEF FilesAreOld
  <2>6. NothingIsInTheWay'
    BY <2>1 DEF CleanupInv, NothingIsInTheWay
  <2>. QED
    BY <1>0, <2>1, <2>2, <2>3, <2>4, <2>5, <2>6, OutsideKeeps DEF CleanupInv, CleanupTypeOK
<1>2. CASE FindClaim
  <2>1. /\ at = "claim" /\ at' = "recover" /\ Has(ClaimFile) /\ stale' = By(ClaimFile)
        /\ UNCHANGED <<dir, moved, me, handle, outcome>>
    BY <1>2 DEF FindClaim
  <2>2. stale' \in 1..(me - 1) /\ stale' \in Claimants /\ handle = 0
    <3>1. stale' \in 1..(me - 1) /\ handle = 0
      BY <2>1 DEF CleanupInv, FilesAreOld, ClaimIsKnown
    <3>. QED
      BY <1>0, <3>1, CleanupAssumption DEF Claimants
  <2>3. HandoffIsOwn' /\ ClaimIsKnown' /\ LeavesTheTransition' /\ SuccessorIsThere' /\ NothingIsInTheWay'
    BY <2>1, <2>2 DEF CleanupInv, HandoffIsOwn, ClaimIsKnown, LeavesTheTransition, Has, By,
                      SuccessorIsThere, NothingIsInTheWay
  <2>4. FilesAreOld'
    BY <2>1 DEF CleanupInv, FilesAreOld, Has, By
  <2>. QED
    BY <1>0, <2>1, <2>2, <2>3, <2>4, OutsideKeeps DEF Leftovers
<1>. QED
  BY <1>1, <1>2

(* The claim of a dead successor is written in its name.                    *)
LEMMA RecoverHandoffKeeps ==
  ASSUME CleanupInv, RecoverHandoff
  PROVE  CleanupInv'
<1>0. /\ me \in Claimants /\ handle \in Claimants \cup {0} /\ ClaimFile # HandoffFile
      /\ stale \in Claimants \cup {0}
  BY DEF CleanupInv, CleanupTypeOK, ClaimFile, HandoffFile
<1>1. /\ at = "arrive" /\ Has(HandoffFile) /\ By(HandoffFile) \in 1..(me - 1)
      /\ UNCHANGED <<at, moved, me, stale, handle, goal, undone, outcome>>
  BY DEF RecoverHandoff, Stays, Proceeds, CleanupInv, HandoffIsOwn
<1>2. \/ Has(ClaimFile) /\ Unlink(HandoffFile)
      \/ ~Has(ClaimFile) /\ Write(ClaimFile, By(HandoffFile), Nil)
  BY DEF RecoverHandoff
<1>3. /\ Has(ClaimFile)' /\ DOMAIN dir' \ {ClaimFile, HandoffFile} = Leftovers
      /\ \A n \in Leftovers : dir'[n] = dir[n]
      /\ By(ClaimFile)' \in 1..(me - 1)
      /\ Has(HandoffFile)' => dir'[HandoffFile] = dir[HandoffFile]
  <2>1. CASE Has(ClaimFile) /\ Unlink(HandoffFile)
    BY <1>0, <1>1, <2>1, UnlinkIs DEF Has, Leftovers, By, CleanupInv, FilesAreOld
  <2>2. CASE ~Has(ClaimFile) /\ Write(ClaimFile, By(HandoffFile), Nil)
    BY <1>1, <2>2, WriteIs DEF Has, Leftovers, By
  <2>. QED
    BY <1>2, <2>1, <2>2
<1>4. HandoffIsOwn' /\ ClaimIsKnown' /\ LeavesTheTransition' /\ SuccessorIsThere' /\ NothingIsInTheWay'
  BY <1>1, <1>3 DEF CleanupInv, HandoffIsOwn, ClaimIsKnown, LeavesTheTransition, By,
                    SuccessorIsThere, NothingIsInTheWay
<1>5. FilesAreOld'
  <2>1. Has(HandoffFile)' => By(HandoffFile)' \in 1..me
    BY <1>1, <1>3, CleanupAssumption DEF CleanupInv, FilesAreOld, By
  <2>2. \A s \in Claimants : \A n \in TransitionNames(s) : Has(n)' => By(n)' \in 1..(me - 1)
    BY <1>1, <1>3, TransitionsStay DEF CleanupInv, FilesAreOld, By
  <2>. QED
    BY <1>1, <1>3, <2>1, <2>2 DEF FilesAreOld
<1>. QED
  BY <1>0, <1>1, <1>3, <1>4, <1>5, OutsideKeeps

(* A claimant without anybody's claim before it finds an empty directory:   *)
(* of a replacement there would be a transition made by itself.             *)
LEMMA ClaimIsFirst ==
  ASSUME CleanupInv, WriteClaim
  PROVE  Leftovers = {} /\ stale = 0
<1>1. at = "claim" /\ ~Has(ClaimFile)
  BY WriteIs DEF WriteClaim
<1>2. By(HandoffFile) = me /\ stale = 0
  BY <1>1 DEF CleanupInv, HandoffIsOwn, ClaimIsKnown
<1>3. ASSUME Leftovers # {}
      PROVE  FALSE
  <2>1. PICK s \in Claimants : Has(Transition(s)) /\ By(Transition(s)) = me
    BY <1>1, <1>2, <1>3 DEF CleanupInv, SuccessorIsThere, Transitions
  <2>2. me \in 1..(me - 1)
    BY <1>1, <2>1 DEF CleanupInv, FilesAreOld, TransitionNames
  <2>. QED
    BY <2>2, CleanupAssumption DEF CleanupInv, CleanupTypeOK, Claimants
<1>. QED
  BY <1>2, <1>3

LEMMA WriteClaimKeeps ==
  ASSUME CleanupInv, WriteClaim
  PROVE  CleanupInv'
<1>1. /\ at = "claim" /\ at' = "release" /\ UNCHANGED <<moved, me, stale, handle, goal, undone, outcome>>
      /\ DOMAIN dir' = DOMAIN dir \cup {ClaimFile}
      /\ dir'[ClaimFile].by = me /\ \A x \in DOMAIN dir : dir'[x] = dir[x]
      /\ me \in Claimants /\ handle \in Claimants \cup {0}
  BY WriteIs DEF WriteClaim, Proceeds, CleanupInv, CleanupTypeOK
<1>2. Leftovers = {} /\ stale = 0
  BY ClaimIsFirst
<1>3. DOMAIN dir' \ {ClaimFile, HandoffFile} = Leftovers /\ \A n \in Leftovers : dir'[n] = dir[n]
  BY <1>1 DEF Leftovers
<1>4. Has(HandoffFile)' /\ By(HandoffFile)' = me /\ HasClaim(me)'
  BY <1>1 DEF CleanupInv, HandoffIsOwn, Has, By, HasClaim
<1>5. HandoffIsOwn' /\ ClaimIsKnown' /\ LeavesTheTransition' /\ SuccessorIsThere' /\ NothingIsInTheWay'
  BY <1>1, <1>2, <1>3, <1>4 DEF CleanupInv, HandoffIsOwn, ClaimIsKnown, LeavesTheTransition,
     SuccessorIsThere, NothingIsInTheWay, HasClaim, Leftovers
<1>6. FilesAreOld'
  <2>1. me \in 1..me
    BY <1>1, CleanupAssumption DEF Claimants
  <2>2. \A s \in Claimants : \A n \in TransitionNames(s) : ~Has(n)'
    BY <1>2, <1>3, ReplacementNames DEF Has, Leftovers
  <2>. QED
    BY <1>1, <1>4, <2>1, <2>2 DEF FilesAreOld, HasClaim
<1>. QED
  BY <1>1, <1>2, <1>3, <1>5, <1>6, OutsideKeeps

LEMMA LeaveKeeps ==
  ASSUME CleanupInv, GiveUpHandoff \/ MoveAway
  PROVE  CleanupInv'
<1>0. /\ at \in {"release", "quarantine"} /\ at' \in {"quarantine", "done"}
      /\ UNCHANGED <<me, stale, handle>>
  BY DEF GiveUpHandoff, MoveAway, Proceeds
<1>1. /\ me \in Claimants /\ handle \in Claimants \cup {0} /\ stale \in Claimants \cup {0}
      /\ HasClaim(me) /\ Leftovers = IF stale = 0 THEN {} ELSE {Transition(stale)}
  BY <1>0 DEF CleanupInv, CleanupTypeOK, LeavesTheTransition
<1>2. /\ DOMAIN dir' \ {ClaimFile, HandoffFile} = Leftovers /\ \A n \in Leftovers : dir'[n] = dir[n]
      /\ HasClaim(me)' /\ (Has(HandoffFile)' => Has(HandoffFile) /\ dir'[HandoffFile] = dir[HandoffFile])
  <2>1. CASE GiveUpHandoff
    <3>1. ClaimFile # HandoffFile
      BY DEF ClaimFile, HandoffFile
    <3>. QED
      <4>1. /\ DOMAIN dir' = DOMAIN dir \ {HandoffFile} /\ me' = me
            /\ \A n \in DOMAIN dir \ {HandoffFile} : dir'[n] = dir[n]
        BY <1>0, <2>1, UnlinkIs DEF GiveUpHandoff
      <4>2. HasClaim(me)'
        BY <1>1, <3>1, <4>1 DEF HasClaim, Has, By
      <4>. QED
        BY <4>1, <4>2 DEF Leftovers, Has
  <2>2. CASE MoveAway
    BY <1>0, <1>1, <2>2 DEF MoveAway, Leftovers, HasClaim, Has, By
  <2>. QED
    BY <2>1, <2>2
<1>3. NothingIsInTheWay'
  <2>1. CASE GiveUpHandoff
    BY <2>1 DEF CleanupInv, NothingIsInTheWay, GiveUpHandoff, Proceeds
  <2>2. CASE MoveAway
    <3>1. ~Has(HandoffFile)
      BY <2>2 DEF CleanupInv, HandoffIsOwn, MoveAway
    <3>2. DOMAIN dir = {ClaimFile} \cup Leftovers
      BY <1>1, <3>1 DEF HasClaim, Has, Leftovers
    <3>3. outcome' = [outcome EXCEPT ![me] = "acquired"]
      BY <1>1, <2>2, <3>2 DEF MoveAway
    <3>. QED
      BY <3>3 DEF CleanupInv, NothingIsInTheWay
  <2>. QED
    BY <2>1, <2>2
<1>4. HandoffIsOwn' /\ ClaimIsKnown' /\ SuccessorIsThere'
  <2>1. at' = "quarantine" => ~Has(HandoffFile)'
    BY UnlinkIs DEF GiveUpHandoff, MoveAway, Has
  <2>. QED
    BY <1>0, <1>2, <2>1 DEF HandoffIsOwn, ClaimIsKnown, SuccessorIsThere, HasClaim
<1>5. LeavesTheTransition'
  BY <1>0, <1>1, <1>2 DEF LeavesTheTransition, Leftovers
<1>6. FilesAreOld'
  <2>1. Has(HandoffFile)' => By(HandoffFile)' \in 1..me
    BY <1>0, <1>2 DEF CleanupInv, FilesAreOld, By
  <2>2. \A s \in Claimants : \A n \in TransitionNames(s) : Has(n)' => By(n)' \in 1..me
    BY <1>0, <1>2, TransitionsStay DEF CleanupInv, FilesAreOld, By
  <2>3. me \in 1..me
    BY <1>1, CleanupAssumption DEF Claimants
  <2>. QED
    BY <1>0, <1>2, <2>1, <2>2, <2>3 DEF FilesAreOld, HasClaim
<1>. QED
  BY <1>0, <1>1, <1>2, <1>3, <1>4, <1>5, <1>6, OutsideKeeps

(* The next claimant finds what there is, made by earlier ones.             *)
LEMMA NextClaimantKeeps ==
  ASSUME CleanupInv, ClaimantDies \/ Refuses
  PROVE  CleanupInv'
<1>1. /\ \E how \in {"died", "refused"} : NextClaimant(how)
      /\ \/ UNCHANGED dir
         \/ /\ Has(ClaimFile) /\ DOMAIN dir' = DOMAIN dir \ {HandoffFile}
            /\ \A n \in DOMAIN dir' : dir'[n] = dir[n]
  BY DEF ClaimantDies, Refuses
<1>2. /\ me \in Claimants /\ me' \in Claimants /\ stale' = 0 /\ handle' = 0
      /\ \/ me' = me + 1 /\ at' = "arrive"
         \/ me' = me /\ at' = "done"
  BY <1>1, CleanupAssumption DEF NextClaimant, CleanupInv, CleanupTypeOK, Claimants
<1>3. /\ DOMAIN dir' \ {ClaimFile, HandoffFile} = Leftovers /\ \A n \in Leftovers : dir'[n] = dir[n]
      /\ Has(ClaimFile)' <=> Has(ClaimFile)
      /\ Has(ClaimFile) => dir'[ClaimFile] = dir[ClaimFile]
      /\ Has(HandoffFile)' => Has(HandoffFile) /\ dir'[HandoffFile] = dir[HandoffFile]
      /\ ~Has(ClaimFile) => UNCHANGED dir
  <2>1. ClaimFile # HandoffFile
    BY DEF ClaimFile, HandoffFile
  <2>. QED
    BY <1>1, <2>1 DEF Leftovers, Has
<1>4. NothingIsInTheWay'
  BY <1>1 DEF CleanupInv, NothingIsInTheWay, NextClaimant
<1>5. /\ Has(HandoffFile)' => By(HandoffFile)' \in 1..me
      /\ Has(ClaimFile)' => By(ClaimFile)' \in 1..me
      /\ \A s \in Claimants : \A n \in TransitionNames(s) : Has(n)' => By(n)' \in 1..me
  <2>1. me \in Nat /\ \A i : i \in 1..(me - 1) => i \in 1..me
    BY <1>2, CleanupAssumption DEF Claimants
  <2>2. \A s \in Claimants : \A n \in TransitionNames(s) : Has(n) => By(n) \in 1..me
    BY <2>1 DEF CleanupInv, FilesAreOld
  <2>3. \A s \in Claimants : \A n \in TransitionNames(s) : Has(n)' => By(n)' \in 1..me
    BY <1>3, <2>2, TransitionsStay DEF By
  <2>. QED
    BY <1>3, <2>1, <2>3 DEF CleanupInv, FilesAreOld, By
<1>6. FilesAreOld'
  <2>1. CASE me' = me /\ at' = "done"
    BY <1>5, <2>1 DEF FilesAreOld
  <2>2. CASE me' = me + 1 /\ at' = "arrive"
    <3>1. me' - 1 = me /\ \A i : i \in 1..me => i \in 1..me'
      BY <1>2, <2>2, CleanupAssumption DEF Claimants
    <3>. QED
      BY <1>5, <2>2, <3>1 DEF FilesAreOld
  <2>. QED
    BY <1>2, <2>1, <2>2
<1>7. HandoffIsOwn'
  <2>1. me' = me + 1 => me' - 1 = me
    BY <1>2, CleanupAssumption DEF Claimants
  <2>. QED
    BY <1>2, <1>5, <2>1 DEF HandoffIsOwn
<1>8. ClaimIsKnown' /\ LeavesTheTransition'
  BY <1>2 DEF ClaimIsKnown, LeavesTheTransition
<1>9. SuccessorIsThere'
  BY <1>3 DEF CleanupInv, SuccessorIsThere, Leftovers, Transitions, Has, By
<1>. QED
  BY <1>2, <1>3, <1>4, <1>6, <1>7, <1>8, <1>9, OutsideKeeps

LEMMA CleanupInitHolds ==
  ASSUME CleanupInit
  PROVE  CleanupInv
<1>1. DOMAIN dir = {}
  BY DEF CleanupInit
<1>2. 1 \in Claimants
  BY CleanupAssumption DEF Claimants
<1>. QED
  BY <1>1, <1>2
     DEF CleanupInit, CleanupInv, CleanupTypeOK, HandoffIsOwn, FilesAreOld, ClaimIsKnown,
         OneTransition, OwnElection, ElectionIsFull, JournalIsFull, ReplacesInOrder,
         LeavesTheTransition, SuccessorIsThere, NothingIsInTheWay, Leftovers, Has

(* A recovery step is of a clean-up, or of the own journal while replacing. *)
LEMMA RecoverPlaces ==
  ASSUME NEW s \in Claimants, RecoverStep(s)
  PROVE  at \in {"recover", "elect", "work", "replace"}
BY DEF RecoverStep, DropCandidate, RecoverSwap, TakeUp, DropOrphan, Elect, Quiet, AllSettled,
       Electing, OpenJournal, Opened, Remove, Advance, CompleteOwn, Adopt, Adoptable, Resume,
       Begun, Dismiss, DismissJournal, Working, ClaimArtifact

LEMMA CleanupStepKeeps ==
  ASSUME CleanupInv, [CleanupNext]_cleanupVars
  PROVE  CleanupInv'
<1>1. CASE WriteHandoff \/ FindClaim
  BY <1>1, ArriveKeeps
<1>2. CASE RecoverHandoff
  BY <1>2, RecoverHandoffKeeps
<1>3. CASE WriteClaim
  BY <1>3, WriteClaimKeeps
<1>4. CASE \E s \in Claimants : RecoverStep(s)
  BY <1>4, RecoverPlaces, RecoverKeeps, ReplaceSwapKeeps
<1>5. CASE RecoveredAll
  BY <1>5, RecoveredAllKeeps
<1>6. CASE ReplaceStep
  BY <1>6, RecordsKeep, InstallTransitionKeeps, SucceedKeeps, ReleaseElectionKeeps, ReplacedKeeps
     DEF ReplaceStep
<1>7. CASE GiveUpHandoff \/ MoveAway
  BY <1>7, LeaveKeeps
<1>8. CASE ClaimantDies \/ Refuses
  BY <1>8, NextClaimantKeeps
<1>9. CASE UNCHANGED cleanupVars
  BY <1>9 DEF cleanupVars, CleanupInv, CleanupTypeOK, HandoffIsOwn, FilesAreOld, ClaimIsKnown,
     OneTransition, OwnElection, ElectionIsFull, JournalIsFull, ReplacesInOrder,
     LeavesTheTransition, SuccessorIsThere, NothingIsInTheWay, Leftovers, Has, By, HasClaim,
     MyTransition, Installed, Finishes, Lists, Retains, JournalRecord, Transitions
<1>. QED
  BY <1>1, <1>2, <1>3, <1>4, <1>5, <1>6, <1>7, <1>8, <1>9 DEF CleanupNext, ClaimantStep


(* No step of the replacement brings the dead claim back.                   *)
LEMMA DeadClaimStaysGone ==
  ASSUME CleanupInv, at = "replace", ReplaceStep \/ \E s \in Claimants : RecoverStep(s)
  PROVE  HasClaim(stale)' => HasClaim(stale)
<1>1. stale # me /\ stale \in Claimants /\ handle \in Claimants \cup {0}
  BY Replaces DEF CleanupInv, CleanupTypeOK
<1>2. CASE \/ Announce \/ RecordTransition \/ RecordQuarantine \/ Finalize
           \/ \E s \in Claimants : RecoverStep(s)
  <2>1. handle = 0 => ~(Announce \/ RecordTransition \/ RecordQuarantine \/ Finalize)
    BY DEF Announce, RecordTransition, RecordQuarantine, Finalize, Phase
  <2>2. \E s \in Claimants : SwapStep(s) \/ \E rec : Swap(s, rec)
    BY <1>1, <1>2, <2>1, ReplaceSwapKeeps DEF Announce, RecordTransition,
       RecordQuarantine, Finalize
  <2>3. Cleans
    BY <2>2, SwapCleans
  <2>. QED
    BY <2>3 DEF Cleans, HasClaim, By
<1>3. CASE Succeed
  BY <1>1, <1>3, WriteIs DEF Succeed, Stays, Proceeds, HasClaim, By
<1>4. CASE UnlinkDeadClaim
  BY <1>4 DEF UnlinkDeadClaim
<1>5. CASE InstallTransition \/ QuarantineClaim
  <2>1. PICK n : n # ClaimFile /\ ((\E by, rec : Write(n, by, rec)) \/ (\E x : Link(x, n)) \/ Unlink(n))
    BY <1>5 DEF InstallTransition, InstallFile, QuarantineClaim, ClaimFile, Transition,
                TransitionCandidate, Quarantine
  <2>2. UNCHANGED stale
    BY <1>5 DEF InstallTransition, InstallFile, QuarantineClaim, Stays, Proceeds
  <2>3. DOMAIN dir' \subseteq DOMAIN dir \cup {n} /\ \A x \in DOMAIN dir \ {n} : dir'[x] = dir[x]
    BY <2>1, WriteIs, LinkIs, UnlinkIs
  <2>. QED
    BY <2>1, <2>2, <2>3 DEF HasClaim, Has, By
<1>6. CASE DropQuarantine \/ ReleaseElection \/ DropJournal \/ Replaced
  <2>1. (\E n : Unlink(n)) \/ UNCHANGED dir
    BY <1>6 DEF DropQuarantine, ReleaseElection, DropJournal, Replaced
  <2>2. UNCHANGED stale
    BY <1>6 DEF DropQuarantine, ReleaseElection, DropJournal, Replaced, Stays, Proceeds
  <2>. QED
    BY <2>1, <2>2, UnlinkIs DEF HasClaim, Has, By
<1>. QED
  BY <1>2, <1>3, <1>4, <1>5, <1>6 DEF ReplaceStep

(* While one replaces, the claim is the dead claimant's or its own; later,  *)
(* it is its own.                                                           *)
HolderIsKnown ==
  /\ at = "replace" => ClaimHolder = IF HasClaim(stale) THEN stale ELSE me
  /\ at \in {"release", "quarantine"} => ClaimHolder = me

LEMMA ReplacingHolds == CleanupInv => HolderIsKnown
<1>. SUFFICES ASSUME CleanupInv
              PROVE  HolderIsKnown
  OBVIOUS
<1>1. ASSUME at = "replace"
      PROVE  ClaimHolder = IF HasClaim(stale) THEN stale ELSE me
  <2>1. ReplacesInOrder /\ By(HandoffFile) = me
    BY <1>1, Replaces
  <2>2. ~Has(ClaimFile) => Leftovers # {}
    <3>1. ~Has(ClaimFile) => Transition(stale) \in DOMAIN dir
      BY <1>1, <2>1 DEF ReplacesInOrder, HasClaim, MyTransition, Installed, Has
    <3>2. Transition(stale) \notin {ClaimFile, HandoffFile}
      BY DEF Transition, ClaimFile, HandoffFile
    <3>. QED
      BY <3>1, <3>2 DEF Leftovers
  <2>. QED
    BY <1>1, <2>1, <2>2 DEF ClaimHolder, HasClaim, ReplacesInOrder
<1>2. at \in {"release", "quarantine"} => ClaimHolder = me
  BY DEF CleanupInv, LeavesTheTransition, HasClaim, ClaimHolder
<1>. QED
  BY <1>1, <1>2 DEF HolderIsKnown

LEMMA ReplacingHoldsNext == CleanupInv' => HolderIsKnown'
BY ReplacingHolds, PTL

LEMMA ClaimStepsHandOver ==
  ASSUME CleanupInv, [CleanupNext]_cleanupVars
  PROVE  ClaimHolder' # ClaimHolder => ClaimHolder' = me
<1>1. CASE WriteHandoff
  <2>1. /\ ~Has(HandoffFile) /\ DOMAIN dir' = DOMAIN dir \cup {HandoffFile}
        /\ \A x \in DOMAIN dir : dir'[x] = dir[x]
    BY <1>1, WriteIs DEF WriteHandoff
  <2>2. ClaimFile # HandoffFile
    BY DEF ClaimFile, HandoffFile
  <2>3. Leftovers' = Leftovers /\ (Has(ClaimFile)' <=> Has(ClaimFile))
        /\ (Has(ClaimFile) => dir'[ClaimFile] = dir[ClaimFile])
    BY <2>1, <2>2 DEF Leftovers, Has
  <2>. QED
    BY <2>1, <2>3 DEF CleanupInv, SuccessorIsThere, ClaimHolder, By
<1>2. CASE RecoverHandoff
  <2>1. CASE Has(ClaimFile)
    <3>1. ClaimFile # HandoffFile
      BY DEF ClaimFile, HandoffFile
    <3>2. Has(ClaimFile)' /\ dir'[ClaimFile] = dir[ClaimFile]
      BY <1>2, <2>1, <3>1, UnlinkIs DEF RecoverHandoff, Has
    <3>. QED
      BY <2>1, <3>2 DEF ClaimHolder, By
  <2>2. CASE ~Has(ClaimFile)
    <3>1. /\ Has(ClaimFile)' /\ By(ClaimFile)' = By(HandoffFile)
          /\ \E s \in Transitions : TRUE
      BY <1>2, <2>2, WriteIs DEF RecoverHandoff, Has, By
    <3>2. Leftovers # {}
      <4>1. PICK s : Transition(s) \in DOMAIN dir
        BY <3>1 DEF Transitions, Has
      <4>2. Transition(s) \notin {ClaimFile, HandoffFile}
        BY DEF Transition, ClaimFile, HandoffFile
      <4>. QED
        BY <4>1, <4>2 DEF Leftovers
    <3>. QED
      BY <2>2, <3>1, <3>2 DEF ClaimHolder
  <2>. QED
    BY <2>1, <2>2
<1>3. CASE WriteClaim
  BY <1>3, WriteIs DEF WriteClaim, ClaimHolder, Has, By
<1>4. CASE \E s \in Claimants : RecoverStep(s) /\ at # "replace"
  <2>1. Cleans /\ Has(ClaimFile)
    BY <1>4, RecoverPlaces, RecoverCleans DEF CleanupInv, ClaimIsKnown
  <2>. QED
    BY <2>1 DEF Cleans, ClaimHolder, By
<1>5. CASE ReplaceStep \/ \E s \in Claimants : RecoverStep(s) /\ at = "replace"
  <2>1. at = "replace" /\ at' \in {"replace", "release"} /\ UNCHANGED <<me, stale>>
    <3>1. CASE ReplaceStep
      BY <3>1 DEF ReplaceStep, Announce, InstallTransition, InstallFile, RecordTransition,
         QuarantineClaim, RecordQuarantine, UnlinkDeadClaim, Succeed, DropQuarantine, Finalize,
         ReleaseElection, DropJournal, Replaced, Replacing, Swap, Stays, Proceeds
    <3>2. CASE \E s \in Claimants : RecoverStep(s) /\ at = "replace"
      BY <3>2, ReplaceSwapKeeps, SwapCleans DEF Cleans
    <3>. QED
      BY <1>5, <3>1, <3>2
  <2>2. CleanupInv'
    BY CleanupStepKeeps
  <2>3. HasClaim(stale)' => HasClaim(stale)
    BY <1>5, <2>1, DeadClaimStaysGone
  <2>4. ClaimHolder = IF HasClaim(stale) THEN stale ELSE me
    BY <2>1, ReplacingHolds DEF HolderIsKnown
  <2>5. /\ at' = "replace" => ClaimHolder' = IF HasClaim(stale)' THEN stale ELSE me
        /\ at' = "release" => ClaimHolder' = me
    BY <2>1, <2>2, ReplacingHoldsNext DEF HolderIsKnown
  <2>. QED
    BY <2>1, <2>3, <2>4, <2>5
<1>6. CASE GiveUpHandoff
  <2>1. at' = "quarantine" /\ me' = me
    BY <1>6 DEF GiveUpHandoff, Proceeds
  <2>2. CleanupInv'
    BY CleanupStepKeeps
  <2>. QED
    BY <2>1, <2>2, ReplacingHoldsNext DEF HolderIsKnown
<1>7. CASE FindClaim \/ RecoveredAll \/ MoveAway \/ ClaimantDies \/ UNCHANGED cleanupVars
  <2>1. UNCHANGED dir
    BY <1>7 DEF FindClaim, RecoveredAll, MoveAway, ClaimantDies, cleanupVars
  <2>. QED
    BY <2>1 DEF ClaimHolder, Has, By, Leftovers
<1>8. CASE Refuses
  <2>1. \/ UNCHANGED dir
        \/ /\ Has(ClaimFile) /\ DOMAIN dir' = DOMAIN dir \ {HandoffFile}
           /\ \A n \in DOMAIN dir' : dir'[n] = dir[n]
    BY <1>8 DEF Refuses
  <2>2. ClaimFile # HandoffFile
    BY DEF ClaimFile, HandoffFile
  <2>. QED
    BY <2>1, <2>2 DEF ClaimHolder, Has, By, Leftovers
<1>. QED
  BY <1>1, <1>2, <1>3, <1>4, <1>5, <1>6, <1>7, <1>8 DEF CleanupNext, ClaimantStep

LEMMA CleanupIsInvariant == CleanupSpec => []CleanupInv
<1>. QED
  BY CleanupInitHolds, CleanupStepKeeps, PTL DEF CleanupSpec

(* A transition is linked from a file that its maker has filled.  A handoff *)
(* that is empty was the first file of its maker, who had not come to the   *)
(* claim, and nobody comes past it.                                         *)
NamesHaveContents ==
  /\ HandoffFile \in torn =>
       at \in {"arrive", "done"} /\ Has(HandoffFile) /\ (Has(ClaimFile) \/ Leftovers = {})
  /\ HandoffFile \in writing => at = "claim" /\ (Has(ClaimFile) \/ Leftovers = {})
  /\ \A s \in Claimants : Transition(s) \notin torn \cup writing

(* Only the arrival writes a handoff, and nobody writes a transition.       *)
OthersAreWritten ==
  torn' = torn /\ HandoffFile \notin writing' /\ \A s \in Claimants : Transition(s) \notin writing'

LEMMA WritesOthers ==
  ASSUME ClaimantStep, ~WriteHandoff
  PROVE  OthersAreWritten
<1>1. (\E x, y : Link(x, y)) \/ (\E x : Unlink(x)) \/ Untouched => OthersAreWritten
  BY DEF Link, Unlink, OthersAreWritten
<1>2. ASSUME NEW n, NEW by, NEW rec, Write(n, by, rec),
             n = ClaimFile \/ \E s : n \in Candidates(s) \cup {Next_(s)}
      PROVE  OthersAreWritten
  <2>1. \E s : n \in {ClaimFile, TransitionCandidate(s), ElectionCandidate(s), JournalCandidate(s),
                    Next_(s)}
    BY <1>2 DEF Candidates
  <2>2. n # HandoffFile /\ \A s : n # Transition(s)
    BY <2>1 DEF TransitionCandidate, ElectionCandidate, JournalCandidate, Next_, Transition,
                ClaimFile, HandoffFile
  <2>. QED
    BY <1>2, <2>2 DEF Write, OthersAreWritten
<1>3. ASSUME NEW s, NEW c \in Candidates(s), NEW t, NEW by, NEW rec, InstallFile(c, t, by, rec)
      PROVE  OthersAreWritten
  BY <1>1, <1>2, <1>3 DEF InstallFile
<1>4. ASSUME NEW s, NEW rec, Swap(s, rec) PROVE OthersAreWritten
  BY <1>1, <1>4 DEF Swap
<1>5. ASSUME NEW s, SwapStep(s) PROVE OthersAreWritten
  BY <1>1, <1>2, <1>5 DEF SwapStep
<1>6. CASE RecoverHandoff \/ WriteClaim \/ FindClaim \/ RecoveredAll \/ GiveUpHandoff \/ MoveAway
  BY <1>1, <1>2, <1>6 DEF RecoverHandoff, WriteClaim, FindClaim, RecoveredAll, GiveUpHandoff,
                          MoveAway
<1>7. CASE ReplaceStep
  <2>1. TransitionCandidate(stale) \in Candidates(stale)
    BY DEF Candidates
  <2>. QED
    BY <1>1, <1>2, <1>3, <1>4, <1>7, <2>1
       DEF ReplaceStep, Announce, InstallTransition, RecordTransition, QuarantineClaim,
           RecordQuarantine, UnlinkDeadClaim, Succeed, DropQuarantine, Finalize,
           ReleaseElection, DropJournal, Replaced
<1>8. CASE \E s \in Claimants : RecoverStep(s)
  <2>1. PICK s \in Claimants : RecoverStep(s)
    BY <1>8
  <2>2. ElectionCandidate(s) \in Candidates(s) /\ JournalCandidate(s) \in Candidates(s)
    BY DEF Candidates
  <2>3. CASE \/ TakeUp(s) \/ DropOrphan(s) \/ Opened(s) \/ CompleteOwn(s) \/ Remove(s)
             \/ Dismiss(s) \/ DismissJournal(s)
    BY <1>1, <2>3 DEF TakeUp, DropOrphan, Opened, CompleteOwn, Remove, Dismiss, DismissJournal
  <2>6. CASE \/ \E c \in Candidates(s) : DropCandidate(c)
             \/ \E k \in {"t", "q"} : ClaimArtifact(s, k)
    BY <1>1, <2>6 DEF DropCandidate, ClaimArtifact
  <2>7. CASE \E p \in IF Begun(s) THEN ToUnlink(s) ELSE {} : Undo(s, p)
    BY <1>1, <2>7 DEF Undo
  <2>4. CASE Elect(s) \/ Electing(s) \/ OpenJournal(s)
    BY <1>2, <1>3, <2>2, <2>4 DEF Elect, Electing, OpenJournal
  <2>5. CASE \/ Advance(s) \/ Adopt(s) \/ Resume(s) \/ RecoverSwap(s)
             \/ (at \in {"work", "replace"} /\ Swapping(s) /\ SwapStep(s))
    BY <1>4, <1>5, <2>5 DEF Advance, Adopt, Resume, RecoverSwap
  <2>. QED
    BY <2>1, <2>3, <2>4, <2>5, <2>6, <2>7 DEF RecoverStep
<1>. QED
  BY <1>6, <1>7, <1>8 DEF ClaimantStep

LEMMA ContentsKeep ==
  ASSUME CleanupInv, NamesHaveContents, [CleanupNext]_cleanupVars
  PROVE  NamesHaveContents'
<1>1. CASE WriteHandoff
  <2>1. /\ ~Has(HandoffFile) /\ DOMAIN dir' = DOMAIN dir \cup {HandoffFile}
        /\ writing' = {HandoffFile} /\ torn' = torn /\ at' = "claim" /\ at = "arrive"
    BY <1>1, WriteIs DEF WriteHandoff, Write, Proceeds
  <2>2. HandoffFile \notin torn' /\ \A s \in Claimants : Transition(s) \notin torn' \cup writing'
    BY <2>1 DEF NamesHaveContents, HandoffFile, Transition
  <2>3. Leftovers' = Leftovers /\ (Has(ClaimFile) => Has(ClaimFile)')
    BY <2>1 DEF Leftovers, Has
  <2>. QED
    BY <2>1, <2>2, <2>3 DEF NamesHaveContents, CleanupInv, SuccessorIsThere
<1>2. CASE ClaimantStep /\ ~WriteHandoff
  <2>1. HandoffFile \notin torn
    <3>1. SUFFICES ASSUME HandoffFile \in torn
                   PROVE  FALSE
      OBVIOUS
    <3>2. at \in {"arrive", "done"}
      BY <3>1 DEF NamesHaveContents
    <3>3. ~RecoverHandoff
      BY <3>1 DEF RecoverHandoff
    <3>4. ~ReplaceStep
      BY <3>2 DEF ReplaceStep, Announce, InstallTransition, RecordTransition, QuarantineClaim,
           RecordQuarantine, UnlinkDeadClaim, Succeed, DropQuarantine, Finalize,
           ReleaseElection, DropJournal, Replaced, Replacing
    <3>. QED
      BY <1>2, <3>2, <3>3, <3>4, RecoverPlaces
         DEF ClaimantStep, WriteClaim, FindClaim, RecoveredAll, AllSettled,
            GiveUpHandoff, MoveAway
  <2>. QED
    BY <1>2, <2>1, WritesOthers DEF NamesHaveContents, OthersAreWritten
<1>3. CASE ClaimantDies
  <2>1. /\ UNCHANGED dir /\ writing' = {} /\ torn' \subseteq torn \cup writing
        /\ at' \in {"arrive", "done"}
    BY <1>3 DEF ClaimantDies, NextClaimant
  <2>2. at = "claim" => Has(HandoffFile)
    BY DEF CleanupInv, HandoffIsOwn
  <2>. QED
    BY <2>1, <2>2 DEF NamesHaveContents, Leftovers, Has
<1>4. CASE Refuses
  <2>1. /\ writing' = {} /\ torn' = torn /\ at' \in {"arrive", "done"} /\ at # "done"
        /\ dir' = dir \/ (Has(HandoffFile) /\ By(HandoffFile) = me)
    BY <1>4 DEF Refuses, NextClaimant, Stuck
  <2>2. at = "arrive" /\ Has(HandoffFile) => By(HandoffFile) # me
    BY CleanupAssumption DEF CleanupInv, HandoffIsOwn, CleanupTypeOK, Claimants
  <2>. QED
    BY <2>1, <2>2 DEF NamesHaveContents, Leftovers, Has
<1>5. CASE UNCHANGED cleanupVars
  BY <1>5 DEF cleanupVars, NamesHaveContents, Leftovers, Has
<1>. QED
  BY <1>1, <1>2, <1>3, <1>4, <1>5 DEF CleanupNext

(* Whatever step a claimant or several died at, a directory without claim   *)
(* names its one successor, in files that have contents: the process of the *)
(* handoff made the transition.                                             *)
THEOREM DeadTakeOversAreNamed == CleanupSpec => []SuccessorIsNamed
<1>1. CleanupInit => NamesHaveContents
  BY DEF CleanupInit, NamesHaveContents
<1>2. CleanupInv /\ NamesHaveContents => SuccessorIsNamed
  BY DEF CleanupInv, SuccessorIsThere, NamesHaveContents, SuccessorIsNamed, Transitions
<1>. QED
  BY <1>1, <1>2, CleanupIsInvariant, ContentsKeep, PTL DEF CleanupSpec

(* The directory that is renamed away holds nothing of an earlier recovery. *)
THEOREM RecoveryLeavesNothing == CleanupSpec => []NothingIsInTheWay
<1>. QED
  BY CleanupIsInvariant, PTL DEF CleanupInv

(* No step, of a recovery or a death, moves the claim to anybody but the    *)
(* claimant that runs, however many have died before it.                    *)
THEOREM TakeOverIsAtomic == CleanupSpec => ClaimIsHandedOver
<1>1. CleanupInv /\ [CleanupNext]_cleanupVars
        => [ClaimHolder' # ClaimHolder => ClaimHolder' = me]_cleanupVars
  BY ClaimStepsHandOver
<1>. QED
  BY <1>1, CleanupIsInvariant, PTL DEF CleanupSpec, ClaimIsHandedOver

=============================================================================
