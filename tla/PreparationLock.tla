--------------------------- MODULE PreparationLock ---------------------------
(***************************************************************************)
(* scripts/cloudflare/provision.ts, withPreparationLock: one `prepare` at  *)
(* a time.  The lock is a directory with the file of its owner, renamed    *)
(* into place.  A process that finds the lock of a dead owner takes the    *)
(* handoff file, then the recovery claim in that directory, looks again    *)
(* at the owner, and renames the directory away.  The owner itself does    *)
(* the same to release it.                                                 *)
(*                                                                         *)
(* Every file is reached by the path of the lock, so a step may land in    *)
(* another directory than the one the process has looked at: a file is     *)
(* compared in one step and unlinked in another.  A directory is named     *)
(* here by its owner.  Every process may die at any time.  What the        *)
(* replacement of a dead claim leaves in a directory besides its           *)
(* transition file, and how that is cleaned up, is RecoveryCleanup.        *)
(***************************************************************************)
EXTENDS Naturals, FiniteSets

CONSTANTS
  Processes,   \* runs of the command, on one host
  Mortal,      \* those that may die
  NoProcess

ASSUME LockAssumption == NoProcess \notin Processes /\ Mortal \subseteq Processes

MaxInstalls == 3

VARIABLES
  lock,      \* the owner of the directory at the path of the lock
  handoff,   \* directory -> the process its handoff file names
  claim,     \* directory -> the process its recovery claim names
  transition,  \* process -> the directory its transition file lies in
  alive,
  lockStep,
  observed,  \* the owner a process has read, and later the directory it moves
  judged,    \* the dead process whose handoff or claim it has read; the
             \* transition file carries that name
  installs

lockFiles == <<handoff, claim, transition>>
lockProcesses == <<alive, observed, judged, installs>>
lockVars == <<lock, lockFiles, lockStep, lockProcesses>>

LockSteps == {
  "install", "missing", "read", "judge",
  "handoff", "judge_handoff", "restore_claim", "known_handoff",
  "unlink_dead_handoff",
  "claim", "judge_claim", "announce", "dead_claim", "unlink_dead_claim",
  "write_claim", "hand_over", "unlink_handoff", "recheck", "check", "move",
  "sweep", "hold", "leave", "move_own", "released",
  "drop_handoff", "unlink_handoff_dropping", "undo_handoff",
  "unlink_handoff_undoing", "undo_claim", "unlink_claim", "undo_transition",
  "failed"}

OrNone == Processes \cup {NoProcess}

LockTypeOK ==
  /\ lock \in OrNone
  /\ handoff \in [Processes -> OrNone] /\ claim \in [Processes -> OrNone]
  /\ transition \in [Processes -> OrNone]
  /\ alive \in [Processes -> BOOLEAN]
  /\ lockStep \in [Processes -> LockSteps]
  /\ observed \in [Processes -> OrNone] /\ judged \in [Processes -> OrNone]
  /\ installs \in [Processes -> 0..MaxInstalls]

Nowhere == [p \in Processes |-> NoProcess]

LockInit ==
  /\ lock = NoProcess
  /\ handoff = Nowhere /\ claim = Nowhere /\ transition = Nowhere
  /\ alive = [p \in Processes |-> TRUE]
  /\ lockStep = [p \in Processes |-> "install"]
  /\ observed = Nowhere /\ judged = Nowhere
  /\ installs = [p \in Processes |-> 0]

At(p, step) == alive[p] /\ lockStep[p] = step
Goto(p, step) == lockStep' = [lockStep EXCEPT ![p] = step]

-----------------------------------------------------------------------------
(* acquirePreparationLock *)

(* tryInstallPreparationLock: the candidate directory is renamed over the   *)
(* path of the lock, which fails while there is a directory.                *)
Install(p) ==
  /\ At(p, "install") /\ installs[p] < MaxInstalls
  /\ installs' = [installs EXCEPT ![p] = @ + 1]
  /\ IF lock = NoProcess THEN lock' = p /\ Goto(p, "hold")
                         ELSE Goto(p, "missing") /\ UNCHANGED lock
  /\ UNCHANGED <<lockFiles, alive, observed, judged>>

(* The rename has failed; without a lock by now, that is an error. *)
Missing(p) ==
  /\ At(p, "missing") /\ lock # NoProcess /\ Goto(p, "read")
  /\ UNCHANGED <<lock, lockFiles, lockProcesses>>

ReadOwner(p) ==
  /\ At(p, "read") /\ lock # NoProcess
  /\ observed' = [observed EXCEPT ![p] = lock] /\ Goto(p, "judge")
  /\ UNCHANGED <<lock, lockFiles, alive, judged, installs>>

Judge(p) ==
  /\ At(p, "judge") /\ ~alive[observed[p]] /\ Goto(p, "handoff")
  /\ UNCHANGED <<lock, lockFiles, lockProcesses>>

-----------------------------------------------------------------------------
(* acquireRecoveryClaimHandoff: into whatever directory is at the path now. *)

Announced(d) == {q \in Processes : transition[q] = d}
HasAClaim == lock # NoProcess /\ claim[lock] # NoProcess

TakeHandoff(p) ==
  /\ At(p, "handoff") /\ lock # NoProcess /\ handoff[lock] = NoProcess
  /\ handoff' = [handoff EXCEPT ![lock] = p] /\ Goto(p, "claim")
  /\ UNCHANGED <<lock, claim, transition, lockProcesses>>

ReadHandoff(p) ==
  /\ At(p, "handoff") /\ lock # NoProcess /\ handoff[lock] # NoProcess
  /\ judged' = [judged EXCEPT ![p] = handoff[lock]] /\ Goto(p, "judge_handoff")
  /\ UNCHANGED <<lock, lockFiles, alive, observed, installs>>

(* recoverDeadRecoveryClaimHandoff: without a claim, the transition must be *)
(* of the process of the handoff ...                                        *)
JudgeHandoff(p) ==
  /\ At(p, "judge_handoff") /\ ~alive[judged[p]]
  /\ lock # NoProcess /\ Cardinality(Announced(lock)) <= 1
  /\ \/ HasAClaim /\ Goto(p, "known_handoff")
     \/ /\ ~HasAClaim /\ judged[p] \in Announced(lock) /\ handoff[lock] = judged[p]
        /\ Goto(p, "restore_claim")
  /\ UNCHANGED <<lock, lockFiles, lockProcesses>>

(* ... for which the claim is written, unless there is one by now.          *)
RestoreClaim(p) ==
  /\ At(p, "restore_claim") /\ lock # NoProcess
  /\ claim' = [claim EXCEPT ![lock] = IF @ = NoProcess THEN judged[p] ELSE @]
  /\ Goto(p, "known_handoff")
  /\ UNCHANGED <<lock, handoff, transition, lockProcesses>>

CompareHandoff(p) ==
  /\ At(p, "known_handoff") /\ HasAClaim
  /\ claim[lock] # judged[p] => \A q \in Announced(lock) : judged[q] = claim[lock]
  /\ handoff[lock] = judged[p]
  /\ Goto(p, "unlink_dead_handoff")
  /\ UNCHANGED <<lock, lockFiles, lockProcesses>>

(* What is unlinked is the handoff that is at the path by then. *)
UnlinkDeadHandoff(p) ==
  /\ At(p, "unlink_dead_handoff") /\ lock # NoProcess /\ handoff[lock] # NoProcess
  /\ handoff' = [handoff EXCEPT ![lock] = NoProcess]
  /\ judged' = [judged EXCEPT ![p] = NoProcess] /\ Goto(p, "handoff")
  /\ UNCHANGED <<lock, claim, transition, alive, observed, installs>>

-----------------------------------------------------------------------------
(* reclaimDeadPreparationLock, replaceDeadRecoveryClaim *)

(* Slip: a claim that is already there is overwritten, whoever made it. *)
TakeAnyClaim(p) ==
  /\ At(p, "claim") /\ lock # NoProcess
  /\ claim' = [claim EXCEPT ![lock] = p] /\ Goto(p, "hand_over")
  /\ UNCHANGED <<lock, handoff, transition, lockProcesses>>

TakeClaim(p) ==
  /\ At(p, "claim") /\ lock # NoProcess /\ claim[lock] = NoProcess
  /\ claim' = [claim EXCEPT ![lock] = p] /\ Goto(p, "hand_over")
  /\ UNCHANGED <<lock, handoff, transition, lockProcesses>>

ReadClaim(p) ==
  /\ At(p, "claim") /\ HasAClaim
  /\ judged' = [judged EXCEPT ![p] = claim[lock]] /\ Goto(p, "judge_claim")
  /\ UNCHANGED <<lock, lockFiles, alive, observed, installs>>

(* Its claimant is dead.  What dead claimants have left is removed          *)
(* (recoverExistingRecoveryQuarantine), in many calls: but every file it    *)
(* removes carries the name of a dead claimant, and in a directory that is  *)
(* at the path later nobody needs one of that name.                         *)
JudgeClaim(p) ==
  /\ At(p, "judge_claim") /\ ~alive[judged[p]]
  /\ lock # NoProcess /\ Cardinality(Announced(lock)) <= 1
  /\ \A q \in Announced(lock) : ~alive[q] /\ judged[p] \in {q, judged[q]}
  /\ transition' = [q \in Processes |->
       IF transition[q] = lock THEN NoProcess ELSE transition[q]]
  /\ Goto(p, "announce")
  /\ UNCHANGED <<lock, handoff, claim, lockProcesses>>

(* installRecoveryTransitionOwner: there is one file of that name. *)
AnnounceSuccessor(p) ==
  /\ At(p, "announce") /\ lock # NoProcess
  /\ \A q \in Announced(lock) : judged[q] # judged[p]
  /\ transition' = [transition EXCEPT ![p] = lock] /\ Goto(p, "dead_claim")
  /\ UNCHANGED <<lock, handoff, claim, lockProcesses>>

(* The dead claim is compared, hard-linked as the quarantine, and compared  *)
(* again ...                                                                *)
CompareDeadClaim(p) ==
  /\ At(p, "dead_claim") /\ HasAClaim /\ claim[lock] = judged[p]
  /\ Goto(p, "unlink_dead_claim")
  /\ UNCHANGED <<lock, lockFiles, lockProcesses>>

(* ... and the claim that is at the path by then is unlinked.               *)
UnlinkClaimOfDead(p) ==
  /\ At(p, "unlink_dead_claim") /\ HasAClaim
  /\ claim' = [claim EXCEPT ![lock] = NoProcess] /\ Goto(p, "write_claim")
  /\ UNCHANGED <<lock, handoff, transition, lockProcesses>>

WriteOwnClaim(p) ==
  /\ At(p, "write_claim") /\ lock # NoProcess /\ claim[lock] = NoProcess
  /\ claim' = [claim EXCEPT ![lock] = p] /\ Goto(p, "hand_over")
  /\ UNCHANGED <<lock, handoff, transition, lockProcesses>>

(* A call or a check of the replacement fails.  Where the dead claim is     *)
(* gone, its end writes the own claim all the same; else it removes the own *)
(* transition; either may fail as well.                                     *)
ReplacementFails(p) ==
  /\ alive[p] /\ lockStep[p] \in {"dead_claim", "unlink_dead_claim", "write_claim"}
  /\ \/ /\ lockStep[p] = "write_claim" /\ lock # NoProcess /\ claim[lock] = NoProcess
        /\ claim' = [claim EXCEPT ![lock] = p] /\ UNCHANGED transition
     \/ /\ lockStep[p] = "write_claim" => HasAClaim
        /\ transition[p] = lock
        /\ transition' = [transition EXCEPT ![p] = NoProcess]
        /\ UNCHANGED claim
     \/ UNCHANGED <<claim, transition>>
  /\ Goto(p, "drop_handoff")
  /\ UNCHANGED <<lock, handoff, lockProcesses>>

-----------------------------------------------------------------------------
(* releaseRecoveryClaimHandoff: the file is compared, then unlinked by its  *)
(* path.                                                                    *)
ReleaseHandoff(p) ==
  /\ At(p, "hand_over") /\ lock # NoProcess /\ handoff[lock] = p
  /\ Goto(p, "unlink_handoff")
  /\ UNCHANGED <<lock, lockFiles, lockProcesses>>

AfterHandoff(step) ==
  CASE step = "unlink_handoff" -> "recheck"
    [] step \in {"undo_handoff", "unlink_handoff_undoing"} -> "undo_claim"
    [] step \in {"drop_handoff", "unlink_handoff_dropping"} -> "failed"

UnlinkHandoff(p) ==
  /\ alive[p]
  /\ lockStep[p] \in
       {"unlink_handoff", "unlink_handoff_undoing", "unlink_handoff_dropping"}
  /\ lock # NoProcess /\ handoff[lock] # NoProcess
  /\ handoff' = [handoff EXCEPT ![lock] = NoProcess]
  /\ Goto(p, AfterHandoff(lockStep[p]))
  /\ UNCHANGED <<lock, claim, transition, lockProcesses>>

(* The owner is read again: it must be the one observed, and dead. *)
Recheck(p) ==
  /\ At(p, "recheck") /\ lock # NoProcess /\ lock = observed[p] /\ ~alive[lock]
  /\ Goto(p, "check")
  /\ UNCHANGED <<lock, lockFiles, lockProcesses>>

(* The claim of p stands in the place of a dead one. *)
HasReplaced(p) == judged[p] # NoProcess

(* quarantineOwnedPreparationLock reads owner, claim and transition ...     *)
Check(p) ==
  /\ At(p, "check") /\ lock # NoProcess /\ lock = observed[p] /\ claim[lock] = p
  /\ HasReplaced(p) => transition[p] = lock
  /\ Goto(p, "move")
  /\ UNCHANGED <<lock, lockFiles, lockProcesses>>

(* ... and renames the directory that is at the path by then.               *)
Move(p) ==
  /\ At(p, "move") /\ lock # NoProcess
  /\ lock' = NoProcess /\ observed' = [observed EXCEPT ![p] = lock]
  /\ Goto(p, "sweep")
  /\ UNCHANGED <<lockFiles, alive, judged, installs>>

(* The own transition is unlinked, and cleanupPreparationLockDirectory      *)
(* unlinks the claim and the owner; any other file in the directory makes   *)
(* the removal fail.                                                        *)
Sweep(p) ==
  /\ At(p, "sweep") /\ handoff[observed[p]] = NoProcess
  /\ HasReplaced(p) => transition[p] = observed[p]
  /\ Announced(observed[p]) \subseteq {p}
  /\ transition' = [transition EXCEPT ![p] = NoProcess]
  /\ judged' = [judged EXCEPT ![p] = NoProcess]
  /\ Goto(p, IF observed[p] = p THEN "released" ELSE "install")
  /\ UNCHANGED <<lock, handoff, claim, alive, observed, installs>>

-----------------------------------------------------------------------------
(* withPreparationLock, releasePreparationLock *)

(* The work under the lock has ended, one way or the other. *)
Leave(p) ==
  /\ At(p, "hold") /\ Goto(p, "leave")
  /\ UNCHANGED <<lock, lockFiles, lockProcesses>>

ReleaseLock(p) ==
  /\ At(p, "leave") /\ lock = p /\ Goto(p, "move_own")
  /\ UNCHANGED <<lock, lockFiles, lockProcesses>>

MoveOwn(p) ==
  /\ At(p, "move_own") /\ lock # NoProcess
  /\ lock' = NoProcess /\ observed' = [observed EXCEPT ![p] = lock]
  /\ Goto(p, "sweep")
  /\ UNCHANGED <<lockFiles, alive, judged, installs>>

-----------------------------------------------------------------------------

(* A system call or a check fails.  A process that reclaims then gives back *)
(* the handoff, if the lock has a claim by then, and the claim and the      *)
(* transition, if it knows them to be its own.                              *)
Throws(p) ==
  /\ alive[p]
  /\ lockStep[p] \notin {"hold", "released", "failed",
                         "dead_claim", "unlink_dead_claim", "write_claim"}
  /\ Goto(p, CASE lockStep[p] \in {"claim", "judge_claim", "announce"} -> "drop_handoff"
               [] lockStep[p] \in {"hand_over", "unlink_handoff"} -> "undo_handoff"
               [] lockStep[p] \in {"recheck", "check", "move"} -> "undo_claim"
               [] OTHER -> "failed")
  /\ UNCHANGED <<lock, lockFiles, lockProcesses>>

GiveBackHandoff(p) ==
  /\ alive[p] /\ lockStep[p] \in {"undo_handoff", "drop_handoff"}
  /\ HasAClaim => handoff[lock] = p
  /\ Goto(p, CASE ~HasAClaim -> AfterHandoff(lockStep[p])
               [] HasAClaim /\ lockStep[p] = "undo_handoff" -> "unlink_handoff_undoing"
               [] HasAClaim /\ lockStep[p] = "drop_handoff" -> "unlink_handoff_dropping")
  /\ UNCHANGED <<lock, lockFiles, lockProcesses>>

(* unlinkExactOwnedRecoveryArtifact: again compared, then unlinked by path. *)
UndoClaim(p) ==
  /\ At(p, "undo_claim")
  /\ HasAClaim => claim[lock] = p
  /\ Goto(p, IF HasAClaim THEN "unlink_claim" ELSE "undo_transition")
  /\ UNCHANGED <<lock, lockFiles, lockProcesses>>

UnlinkClaim(p) ==
  /\ At(p, "unlink_claim") /\ HasAClaim
  /\ claim' = [claim EXCEPT ![lock] = NoProcess] /\ Goto(p, "undo_transition")
  /\ UNCHANGED <<lock, handoff, transition, lockProcesses>>

(* Here the name tells the file from one that matters.                      *)
UndoTransition(p) ==
  /\ At(p, "undo_transition")
  /\ transition' = [transition EXCEPT ![p] = IF @ = lock THEN NoProcess ELSE @]
  /\ Goto(p, "failed")
  /\ UNCHANGED <<lock, handoff, claim, lockProcesses>>

(* The end of a process, at the end of the command or before. *)
Dies(p) ==
  /\ p \in Mortal /\ alive[p] /\ alive' = [alive EXCEPT ![p] = FALSE]
  /\ UNCHANGED <<lock, lockFiles, lockStep, observed, judged, installs>>

ReplacesDeadClaim(p) ==
  \/ ReadClaim(p) \/ JudgeClaim(p) \/ AnnounceSuccessor(p) \/ CompareDeadClaim(p)
  \/ UnlinkClaimOfDead(p) \/ WriteOwnClaim(p) \/ ReplacementFails(p)

LockNext == \E p \in Processes :
  \/ Install(p) \/ Missing(p) \/ ReadOwner(p) \/ Judge(p)
  \/ TakeHandoff(p) \/ ReadHandoff(p) \/ JudgeHandoff(p) \/ RestoreClaim(p)
  \/ CompareHandoff(p) \/ UnlinkDeadHandoff(p) \/ TakeClaim(p)
  \/ ReplacesDeadClaim(p) \/ ReleaseHandoff(p) \/ UnlinkHandoff(p)
  \/ Recheck(p) \/ Check(p) \/ Move(p) \/ Sweep(p)
  \/ Leave(p) \/ ReleaseLock(p) \/ MoveOwn(p)
  \/ Throws(p) \/ GiveBackHandoff(p) \/ UndoClaim(p) \/ UnlinkClaim(p)
  \/ UndoTransition(p) \/ Dies(p)

LockSpec == LockInit /\ [][LockNext]_lockVars

-----------------------------------------------------------------------------

Holding == {"hold", "leave", "move_own"}

(* A process that works on the files of staging owns the lock: no two do,   *)
(* and nobody takes the lock from it, whatever the claimants of an earlier  *)
(* owner still do through the path of the lock ("reclaims a provably dead   *)
(* owner atomically and blocks a concurrent claimant").                     *)
HoldersOwnTheLock ==
  \A p \in Processes : alive[p] /\ lockStep[p] \in Holding => lock = p

=============================================================================
