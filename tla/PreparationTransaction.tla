----------------------- MODULE PreparationTransaction ------------------------
(***************************************************************************)
(* scripts/cloudflare/provision.ts, prepareStagingFilesLocked: the files   *)
(* of a rotation are replaced through a journal.  New contents and the     *)
(* backups are staged beside the journal, the journal is marked prepared,  *)
(* the staged files are renamed over the destinations, the journal is      *)
(* marked committed, and everything staged is removed, the journal last.   *)
(* An error is handled in the same process: it rolls back a prepared       *)
(* journal and cleans up any other.  The next run does the same with a     *)
(* journal it finds.                                                       *)
(*                                                                         *)
(* Any system call may fail and the process may stop between any two of    *)
(* them.  The loops visit the entries in one order; here in any.  Only the *)
(* holder of the preparation lock runs (PreparationLock).                  *)
(***************************************************************************)
EXTENDS SecretRotation, FiniteSets

CONSTANT MaxRuns   \* starts of the command (bound of the model)

VARIABLES
  \* on disk, beside `files`
  journal,    \* "none" or the journal's status
  entries,    \* the destinations of its entries
  existed,    \* those that existed when it was opened
  staged,     \* <n>.staged
  backup,     \* <n>.backup
  restoring,  \* the entries with a <n>.restore.pending
  \* the process
  doing,      \* what it is doing
  mode,       \* "commit", "catch" (handling an error) or "recover" (an old journal)
  status,     \* journal.status in its memory
  left,       \* entries its loop has still to visit
  drawn,      \* the generation it has drawn
  verdict,    \* how the last run ended
  before,     \* the files as the last run found them
  runs

disk == <<journal, entries, existed, staged, backup, restoring>>
processVars == <<mode, status, drawn, before, runs>>
transactionVars == <<files, disk, doing, left, verdict, processVars>>

Nothing == [d \in Destinations |-> Absent]
Transient == {"prepared", "rolling_back"}

TransactionInit ==
  /\ RotationInit
  /\ journal = "none" /\ entries = {} /\ existed = {}
  /\ staged = Nothing /\ backup = Nothing /\ restoring = {}
  /\ doing = "idle" /\ mode = "commit" /\ status = "none" /\ left = {}
  /\ drawn = Absent /\ verdict = "none" /\ before = files /\ runs = 0

(* A loop over the entries begins. *)
Loop(step) == doing' = step /\ left' = entries
RunEnds(how) == doing' = "idle" /\ left' = {} /\ verdict' = how

-----------------------------------------------------------------------------

(* recoverPreparationTransaction, first thing under the lock. *)
Start ==
  /\ doing = "idle" /\ runs < MaxRuns
  /\ runs' = runs + 1 /\ drawn' = Absent
  /\ status' = journal
  /\ IF journal = "none"
       THEN mode' = "commit" /\ doing' = "read" /\ left' = {}
       ELSE mode' = "recover" /\ Loop(IF journal \in Transient THEN "rollback" ELSE "clean")
  /\ UNCHANGED <<files, disk, verdict, before>>

(* Existing secret files ask for --rotate and for the confirmation that the *)
(* data is empty; kept secrets are not overwritten.                         *)
Allowed(rotate, confirmed) ==
  /\ (\E d \in SecretFiles : files[d] # Absent) => rotate /\ confirmed
  /\ HoldsSecrets(files) => files[Kept] = Absent

(* The inputs are read, the secrets drawn and the journal is written. *)
OpenTransaction(g) ==
  /\ doing = "read"
  /\ \E rotate, confirmed \in BOOLEAN : Allowed(rotate, confirmed)
  /\ g \in Generations /\ g \notin {files[d] : d \in Destinations}
  /\ drawn' = g /\ before' = files
  /\ entries' = Outputs \cup (IF HoldsSecrets(files) THEN {Kept} ELSE {})
  /\ existed' = {d \in entries' : files[d] # Absent}
  /\ journal' = "staging" /\ status' = "staging"
  /\ doing' = "stage" /\ left' = entries'
  /\ UNCHANGED <<files, staged, backup, restoring, mode, verdict, runs>>

Stage(d) ==
  /\ doing = "stage" /\ d \in left
  /\ staged' = [staged EXCEPT ![d] = Rotated(before, drawn)[d]]
  /\ backup' = [backup EXCEPT ![d] = IF d \in existed THEN files[d] ELSE @]
  /\ left' = left \ {d}
  /\ UNCHANGED <<files, journal, entries, existed, restoring, doing, verdict, processVars>>

(* The second half of Stage fails: the staged file is there, the backup not. *)
StageHalf(d) ==
  /\ doing = "stage" /\ d \in left \cap existed
  /\ staged' = [staged EXCEPT ![d] = Rotated(before, drawn)[d]]
  /\ mode' = "catch" /\ Loop("clean")
  /\ UNCHANGED <<files, journal, entries, existed, backup, restoring, status, drawn,
                 verdict, before, runs>>

(* writeAtomic of the journal, then the copy in memory. *)
Mark(new) == journal' = new /\ status' = new

MarkPrepared ==
  /\ doing = "stage" /\ left = {}
  /\ Mark("prepared") /\ Loop("replace")
  /\ UNCHANGED <<files, entries, existed, staged, backup, restoring,
                 mode, drawn, verdict, before, runs>>

Replace(d) ==
  /\ doing = "replace" /\ d \in left
  /\ files' = [files EXCEPT ![d] = staged[d]]
  /\ staged' = [staged EXCEPT ![d] = Absent]
  /\ left' = left \ {d}
  /\ UNCHANGED <<journal, entries, existed, backup, restoring, doing, verdict, processVars>>

(* Slip: the journal is not marked committed before the backups go. *)
CommittedInMemory ==
  /\ doing = "replace" /\ left = {}
  /\ status' = "committed" /\ Loop("clean")
  /\ UNCHANGED <<files, disk, mode, drawn, verdict, before, runs>>

MarkCommitted ==
  /\ doing = "replace" /\ left = {}
  /\ Mark("committed") /\ Loop("clean")
  /\ UNCHANGED <<files, entries, existed, staged, backup, restoring,
                 mode, drawn, verdict, before, runs>>

-----------------------------------------------------------------------------
(* rollbackPreparationTransaction *)

RollBack ==
  /\ doing = "rollback" /\ status = "prepared"
  /\ Mark("rolling_back") /\ Loop("rollback")
  /\ UNCHANGED <<files, entries, existed, staged, backup, restoring,
                 mode, drawn, verdict, before, runs>>

(* A copy of the backup, to be renamed. *)
Copy(d) ==
  /\ doing = "rollback" /\ status = "rolling_back"
  /\ d \in (left \cap existed) \ restoring /\ backup[d] # Absent
  /\ restoring' = restoring \cup {d}
  /\ UNCHANGED <<files, journal, entries, existed, staged, backup, doing, left, verdict, processVars>>

(* What existed is renamed over the destination; what did not is unlinked. *)
Restore(d) ==
  /\ doing = "rollback" /\ status = "rolling_back" /\ d \in left
  /\ d \in existed => d \in restoring
  /\ files' = [files EXCEPT ![d] = IF d \in existed THEN backup[d] ELSE Absent]
  /\ restoring' = restoring \ {d}
  /\ left' = left \ {d}
  /\ UNCHANGED <<journal, entries, existed, staged, backup, doing, verdict, processVars>>

MarkRolledBack ==
  /\ doing = "rollback" /\ status = "rolling_back" /\ left = {}
  /\ Mark("rolled_back") /\ Loop("clean")
  /\ UNCHANGED <<files, entries, existed, staged, backup, restoring,
                 mode, drawn, verdict, before, runs>>

-----------------------------------------------------------------------------
(* cleanupPreparationTransaction *)

(* Slip: what was to be renamed over the destinations is taken to be gone. *)
CleanBackups(d) ==
  /\ doing = "clean" /\ d \in left
  /\ backup' = [backup EXCEPT ![d] = Absent]
  /\ restoring' = restoring \ {d}
  /\ left' = left \ {d}
  /\ UNCHANGED <<files, journal, entries, existed, staged, doing, verdict, processVars>>

Clean(d) ==
  /\ doing = "clean" /\ d \in left
  /\ staged' = [staged EXCEPT ![d] = Absent]
  /\ backup' = [backup EXCEPT ![d] = Absent]
  /\ restoring' = restoring \ {d}
  /\ left' = left \ {d}
  /\ UNCHANGED <<files, journal, entries, existed, doing, verdict, processVars>>

(* The directory and the journal are gone; the run goes on, or says how it  *)
(* ended: after an error "undone", with the words "all prior replacements   *)
(* were rolled back".                                                       *)
Cleaned ==
  /\ doing = "clean" /\ left = {}
  /\ journal' = "none" /\ entries' = {} /\ existed' = {}
  /\ left' = {}
  /\ CASE mode = "recover" -> doing' = "read" /\ mode' = "commit" /\ UNCHANGED verdict
       [] mode = "commit"  -> doing' = "idle" /\ verdict' = "done" /\ UNCHANGED mode
       [] mode = "catch"   -> doing' = "idle" /\ verdict' = "undone" /\ UNCHANGED mode
  /\ UNCHANGED <<files, staged, backup, restoring, status, drawn, before, runs>>

-----------------------------------------------------------------------------

(* A system call, or one of the checks of the inputs, fails.  Within        *)
(* commitPreparationTransaction the error is caught.                        *)
CallFails ==
  /\ doing # "idle"
  /\ IF mode = "commit" /\ doing # "read"
       THEN mode' = "catch" /\ UNCHANGED verdict
            /\ Loop(IF status \in Transient THEN "rollback" ELSE "clean")
       ELSE RunEnds("failed") /\ UNCHANGED mode
  /\ UNCHANGED <<files, disk, status, drawn, before, runs>>

Stops ==
  /\ doing # "idle"
  /\ RunEnds("stopped")
  /\ UNCHANGED <<files, disk, processVars>>

(* The operator removes the file of kept secrets, between two runs. *)
Discarded ==
  /\ doing = "idle" /\ journal = "none" /\ files[Kept] # Absent
  /\ Discard /\ verdict' = "none"
  /\ UNCHANGED <<disk, doing, left, processVars>>

TransactionNext ==
  \/ Start \/ MarkPrepared \/ MarkCommitted \/ RollBack \/ MarkRolledBack \/ Cleaned
  \/ CallFails \/ Stops \/ Discarded
  \/ \E g \in Generations : OpenTransaction(g)
  \/ \E d \in Destinations :
       Stage(d) \/ StageHalf(d) \/ Replace(d) \/ Copy(d) \/ Restore(d) \/ Clean(d)

TransactionSpec == TransactionInit /\ [][TransactionNext]_transactionVars

-----------------------------------------------------------------------------

(* What the files are once any journal on the disk has been recovered: a    *)
(* prepared one is rolled back to its backups.                              *)
AfterRecovery ==
  [d \in Destinations |->
     IF journal \in Transient /\ d \in entries
       THEN IF d \in existed THEN backup[d] ELSE Absent
       ELSE files[d]]

Promise == INSTANCE SecretRotation WITH files <- AfterRecovery

(* Whatever fails and wherever the process stops, the files of a staging    *)
(* environment rotate in one step, or not at all, and the replaced secrets  *)
(* are kept: the journal implements SecretRotation.                         *)
RotatesAtomically == Promise!RotationSpec

(* Without a journal nothing of a transaction is left in its directory, so  *)
(* that no copy of a secret survives the run that made it.                  *)
NothingLeftBehind ==
  journal = "none" => staged = Nothing /\ backup = Nothing /\ restoring = {}

(* A run that reports that everything was rolled back has left the files as *)
(* it found them; one that reports success has rotated them.                *)
ReportsTruthfully ==
  /\ verdict = "undone" /\ doing = "idle" => AfterRecovery = before
  /\ verdict = "done" /\ doing = "idle" => AfterRecovery = Rotated(before, drawn)

=============================================================================
