--------------------------- MODULE StagingProofs ----------------------------
(* What the journal of staging:prepare and the provisioning of the          *)
(* Hyperdrives promise, for any files, generations, bindings and runs.      *)
EXTENDS PreparationTransaction, HyperdriveProvision, FiniteSetTheorems, TLAPS

-----------------------------------------------------------------------------
(* The journal rotates the files in one step.                               *)

Journals == {"none", "staging", "prepared", "rolling_back", "committed", "rolled_back"}

TransactionTypeOK ==
  /\ files \in [Destinations -> Contents]
  /\ staged \in [Destinations -> Contents] /\ backup \in [Destinations -> Contents]
  /\ entries \subseteq Destinations
  /\ existed \subseteq entries /\ left \subseteq entries /\ restoring \subseteq entries

(* What the process does fits the journal on the disk, which it knows. *)
KnowsItsJournal ==
  /\ journal \in Journals /\ mode \in {"commit", "catch", "recover"}
  /\ doing \in {"idle", "read", "stage", "replace", "rollback", "clean"}
  /\ doing = "read" => journal = "none"
  /\ doing = "stage" => journal = "staging"
  /\ doing = "replace" => journal = "prepared"
  /\ doing = "rollback" => journal \in Transient
  /\ doing = "clean" => journal \in {"staging", "committed", "rolled_back"}
  /\ doing \notin {"idle", "read"} => status = journal

(* The directory holds only what is of an entry not yet cleaned up. *)
HoldsEntriesOnly ==
  /\ journal = "none" => entries = {} /\ existed = {}
  /\ \A d \in Destinations : d \notin entries \/ (doing = "clean" /\ d \notin left) =>
       staged[d] = Absent /\ backup[d] = Absent /\ d \notin restoring

(* While it stages and replaces, what is done and what is left. *)
RotatesWhatItFound ==
  doing \in {"stage", "replace"} =>
    /\ drawn \in Generations /\ before \in [Destinations -> Contents]
    /\ HoldsSecrets(before) => before[Kept] = Absent
    /\ entries = Outputs \cup (IF HoldsSecrets(before) THEN {Kept} ELSE {})
    /\ existed = {d \in entries : before[d] # Absent}
    /\ \A d \in Destinations :
         IF doing = "replace" /\ d \in entries \ left
         THEN files[d] = Rotated(before, drawn)[d] ELSE files[d] = before[d]
    /\ \A d \in entries : (doing = "stage" /\ d \notin left) \/ (doing = "replace" /\ d \in left) =>
         staged[d] = Rotated(before, drawn)[d]
    /\ \A d \in existed : doing = "replace" \/ d \notin left => backup[d] = before[d]

(* While it rolls back, what is restored. *)
RestoresBackups ==
  doing = "rollback" /\ journal = "rolling_back" =>
    \A d \in entries \ left : files[d] = IF d \in existed THEN backup[d] ELSE Absent

TransactionInv ==
  /\ TransactionTypeOK /\ KnowsItsJournal /\ HoldsEntriesOnly
  /\ RotatesWhatItFound /\ RestoresBackups

LEMMA RotatedIsContents ==
  ASSUME NEW content \in [Destinations -> Contents], NEW g \in Generations
  PROVE  Rotated(content, g) \in [Destinations -> Contents]
BY DEF Rotated, Contents, Destinations, Outputs

LEMMA DestinationsAre ==
  /\ Kept \in Destinations /\ Environment \in Destinations /\ Outputs \subseteq Destinations
  /\ Absent \in Contents /\ Template \in Contents /\ Absent \notin Generations
BY RotationAssumption DEF Destinations, Outputs, Contents, Absent, Template

-----------------------------------------------------------------------------
(* Between two runs *)

LEMMA StartKeeps ==
  ASSUME TransactionInv, Start
  PROVE  TransactionInv' /\ AfterRecovery' = AfterRecovery
<1> USE DEF TransactionInv, Start, Loop, disk
<1>1. TransactionTypeOK' /\ KnowsItsJournal'
  BY DEF TransactionTypeOK, KnowsItsJournal, Journals, Transient
<1>2. HoldsEntriesOnly'
  BY DEF HoldsEntriesOnly, TransactionTypeOK
<1>3. RotatesWhatItFound' /\ RestoresBackups'
  BY DEF RotatesWhatItFound, RestoresBackups
<1> QED
  BY <1>1, <1>2, <1>3 DEF AfterRecovery

LEMMA EndsKeep ==
  ASSUME TransactionInv, CallFails \/ Stops
  PROVE  TransactionInv' /\ AfterRecovery' = AfterRecovery
<1> USE DEF TransactionInv, CallFails, Stops, Loop, RunEnds, disk, processVars
<1>1. TransactionTypeOK' /\ KnowsItsJournal'
  BY DEF TransactionTypeOK, KnowsItsJournal, Journals, Transient
<1>2. HoldsEntriesOnly'
  BY DEF HoldsEntriesOnly, TransactionTypeOK
<1>3. RotatesWhatItFound' /\ RestoresBackups'
  BY DEF RotatesWhatItFound, RestoresBackups
<1> QED
  BY <1>1, <1>2, <1>3 DEF AfterRecovery

-----------------------------------------------------------------------------
(* The rotation *)

LEMMA OpenKeeps ==
  ASSUME TransactionInv, NEW g \in Generations, OpenTransaction(g)
  PROVE  TransactionInv' /\ AfterRecovery' = AfterRecovery
<1> USE DEF TransactionInv, OpenTransaction
<1>1. journal = "none" /\ entries = {} /\ HoldsSecrets(files) => files[Kept] = Absent
  BY DEF KnowsItsJournal, HoldsEntriesOnly, Allowed
<1>2. entries' \subseteq Destinations
  BY DestinationsAre
<1>3. \A d \in Destinations : staged[d] = Absent /\ backup[d] = Absent /\ d \notin restoring
  BY <1>1 DEF KnowsItsJournal, HoldsEntriesOnly
<1>4. TransactionTypeOK' /\ KnowsItsJournal'
  BY <1>1, <1>2 DEF TransactionTypeOK, KnowsItsJournal, Journals, HoldsEntriesOnly
<1>5. HoldsEntriesOnly'
  BY <1>3 DEF HoldsEntriesOnly
<1>6. RotatesWhatItFound'
  BY DEF RotatesWhatItFound, TransactionTypeOK, Allowed, HoldsSecrets
<1>7. RestoresBackups'
  BY DEF RestoresBackups
<1>8. AfterRecovery' = AfterRecovery
  BY <1>1 DEF AfterRecovery, KnowsItsJournal, Transient
<1> QED
  BY <1>4, <1>5, <1>6, <1>7, <1>8

LEMMA StageKeeps ==
  ASSUME TransactionInv, NEW d \in Destinations, Stage(d)
  PROVE  TransactionInv' /\ AfterRecovery' = AfterRecovery
<1> USE DEF TransactionInv, Stage, processVars
<1>1. journal = "staging" /\ d \in entries /\ Rotated(before, drawn) \in [Destinations -> Contents]
  BY RotatedIsContents DEF KnowsItsJournal, RotatesWhatItFound, TransactionTypeOK
<1>2. TransactionTypeOK' /\ KnowsItsJournal'
  BY <1>1 DEF TransactionTypeOK, KnowsItsJournal
<1>3. HoldsEntriesOnly'
  BY <1>1 DEF HoldsEntriesOnly, TransactionTypeOK
<1>4. RotatesWhatItFound'
  BY <1>1 DEF RotatesWhatItFound, TransactionTypeOK
<1>5. RestoresBackups'
  BY DEF RestoresBackups
<1>6. AfterRecovery' = AfterRecovery
  BY <1>1 DEF AfterRecovery, Transient
<1> QED
  BY <1>2, <1>3, <1>4, <1>5, <1>6

LEMMA StageHalfKeeps ==
  ASSUME TransactionInv, NEW d \in Destinations, StageHalf(d)
  PROVE  TransactionInv' /\ AfterRecovery' = AfterRecovery
<1> USE DEF TransactionInv, StageHalf, Loop
<1>1. journal = "staging" /\ d \in entries /\ Rotated(before, drawn) \in [Destinations -> Contents]
  BY RotatedIsContents DEF KnowsItsJournal, RotatesWhatItFound, TransactionTypeOK
<1>2. TransactionTypeOK' /\ KnowsItsJournal'
  BY <1>1 DEF TransactionTypeOK, KnowsItsJournal
<1>3. HoldsEntriesOnly'
  BY <1>1 DEF HoldsEntriesOnly, TransactionTypeOK
<1>4. RotatesWhatItFound' /\ RestoresBackups'
  BY DEF RotatesWhatItFound, RestoresBackups
<1>5. AfterRecovery' = AfterRecovery
  BY <1>1 DEF AfterRecovery, Transient
<1> QED
  BY <1>2, <1>3, <1>4, <1>5

LEMMA PreparedKeeps ==
  ASSUME TransactionInv, MarkPrepared
  PROVE  TransactionInv' /\ AfterRecovery' = AfterRecovery
<1> USE DEF TransactionInv, MarkPrepared, Mark, Loop
<1>1. TransactionTypeOK' /\ KnowsItsJournal' /\ journal = "staging"
  BY DEF TransactionTypeOK, KnowsItsJournal, Journals
<1>2. HoldsEntriesOnly'
  BY DEF HoldsEntriesOnly, KnowsItsJournal
<1>3. RotatesWhatItFound' /\ RestoresBackups'
  BY DEF RotatesWhatItFound, RestoresBackups
<1>4. \A d \in entries : files[d] = IF d \in existed THEN backup[d] ELSE Absent
  BY DEF RotatesWhatItFound, TransactionTypeOK
<1>5. AfterRecovery' = AfterRecovery
  BY <1>1, <1>4 DEF AfterRecovery, Transient
<1> QED
  BY <1>1, <1>2, <1>3, <1>5

LEMMA ReplaceKeeps ==
  ASSUME TransactionInv, NEW d \in Destinations, Replace(d)
  PROVE  TransactionInv' /\ AfterRecovery' = AfterRecovery
<1> USE DEF TransactionInv, Replace, processVars
<1>1. journal = "prepared" /\ d \in entries /\ Absent \in Contents
  BY DestinationsAre DEF KnowsItsJournal, TransactionTypeOK
<1>2. TransactionTypeOK' /\ KnowsItsJournal'
  BY <1>1 DEF TransactionTypeOK, KnowsItsJournal
<1>3. HoldsEntriesOnly'
  BY <1>1 DEF HoldsEntriesOnly, TransactionTypeOK
<1>4. RotatesWhatItFound'
  BY <1>1 DEF RotatesWhatItFound, TransactionTypeOK
<1>5. RestoresBackups'
  BY DEF RestoresBackups
<1>6. AfterRecovery' = AfterRecovery
  BY <1>1 DEF AfterRecovery, Transient, TransactionTypeOK
<1> QED
  BY <1>2, <1>3, <1>4, <1>5, <1>6

(* The one step in which the files rotate. *)
LEMMA CommittedKeeps ==
  ASSUME TransactionInv, MarkCommitted
  PROVE  TransactionInv' /\ Promise!Rotate(drawn) /\ drawn \in Generations
<1> USE DEF TransactionInv, MarkCommitted, Mark, Loop
<1>1. TransactionTypeOK' /\ KnowsItsJournal' /\ journal = "prepared"
  BY DEF TransactionTypeOK, KnowsItsJournal, Journals
<1>2. HoldsEntriesOnly' /\ RotatesWhatItFound' /\ RestoresBackups'
  BY DEF HoldsEntriesOnly, RotatesWhatItFound, RestoresBackups
<1>3. /\ drawn \in Generations /\ before \in [Destinations -> Contents]
      /\ HoldsSecrets(before) => before[Kept] = Absent
      /\ entries = Outputs \cup (IF HoldsSecrets(before) THEN {Kept} ELSE {})
  BY DEF RotatesWhatItFound
<1>4. AfterRecovery = before
  <2>1. \A d \in Destinations : AfterRecovery[d] = before[d]
    BY <1>1 DEF AfterRecovery, Transient, RotatesWhatItFound
  <2> QED
    BY <1>3, <2>1 DEF AfterRecovery
<1>5. AfterRecovery' = Rotated(before, drawn)
  <2>1. \A d \in entries : files[d] = Rotated(before, drawn)[d]
    BY DEF RotatesWhatItFound, TransactionTypeOK
  <2>2. \A d \in Destinations \ entries : files[d] = before[d]
    BY DEF RotatesWhatItFound
  <2>3. \A d \in Destinations \ entries : Rotated(before, drawn)[d] = before[d]
    BY <1>3 DEF Rotated, Destinations
  <2>4. AfterRecovery' = [d \in Destinations |-> files[d]]
    BY DEF AfterRecovery, Transient
  <2>5. \A d \in Destinations : files[d] = Rotated(before, drawn)[d]
    BY <2>1, <2>2, <2>3
  <2> QED
    BY <2>4, <2>5 DEF Rotated
<1> QED
  BY <1>1, <1>2, <1>3, <1>4, <1>5 DEF Promise!Rotate, Rotated, HoldsSecrets, Promise!Rotated,
     Promise!HoldsSecrets, Promise!Destinations, Destinations, Promise!Outputs, Outputs,
     Promise!Absent, Absent

-----------------------------------------------------------------------------
(* The way back *)

LEMMA RollBackKeeps ==
  ASSUME TransactionInv, RollBack
  PROVE  TransactionInv' /\ AfterRecovery' = AfterRecovery
<1> USE DEF TransactionInv, RollBack, Mark, Loop
<1>1. TransactionTypeOK' /\ KnowsItsJournal' /\ journal = "prepared"
  BY DEF TransactionTypeOK, KnowsItsJournal, Journals, Transient
<1>2. HoldsEntriesOnly' /\ RotatesWhatItFound' /\ RestoresBackups'
  BY DEF HoldsEntriesOnly, RotatesWhatItFound, RestoresBackups
<1>3. AfterRecovery' = AfterRecovery
  BY <1>1 DEF AfterRecovery, Transient
<1> QED
  BY <1>1, <1>2, <1>3

LEMMA CopyKeeps ==
  ASSUME TransactionInv, NEW d \in Destinations, Copy(d)
  PROVE  TransactionInv' /\ AfterRecovery' = AfterRecovery
<1> USE DEF TransactionInv, Copy, processVars
<1>1. TransactionTypeOK' /\ KnowsItsJournal' /\ d \in entries
  BY DEF TransactionTypeOK, KnowsItsJournal
<1>2. HoldsEntriesOnly'
  BY <1>1 DEF HoldsEntriesOnly, TransactionTypeOK
<1>3. RotatesWhatItFound' /\ RestoresBackups'
  BY DEF RotatesWhatItFound, RestoresBackups
<1>4. AfterRecovery' = AfterRecovery
  BY DEF AfterRecovery
<1> QED
  BY <1>1, <1>2, <1>3, <1>4

LEMMA RestoreKeeps ==
  ASSUME TransactionInv, NEW d \in Destinations, Restore(d)
  PROVE  TransactionInv' /\ AfterRecovery' = AfterRecovery
<1> USE DEF TransactionInv, Restore, processVars
<1>1. journal = "rolling_back" /\ d \in entries /\ Absent \in Contents
  BY DestinationsAre DEF KnowsItsJournal, TransactionTypeOK
<1>2. TransactionTypeOK' /\ KnowsItsJournal'
  BY <1>1 DEF TransactionTypeOK, KnowsItsJournal
<1>3. HoldsEntriesOnly'
  BY <1>1 DEF HoldsEntriesOnly, TransactionTypeOK
<1>4. RotatesWhatItFound'
  BY DEF RotatesWhatItFound
<1>5. RestoresBackups'
  BY <1>1 DEF RestoresBackups, TransactionTypeOK
<1>6. AfterRecovery' = AfterRecovery
  BY <1>1 DEF AfterRecovery, Transient, TransactionTypeOK
<1> QED
  BY <1>2, <1>3, <1>4, <1>5, <1>6

LEMMA RolledBackKeeps ==
  ASSUME TransactionInv, MarkRolledBack
  PROVE  TransactionInv' /\ AfterRecovery' = AfterRecovery
<1> USE DEF TransactionInv, MarkRolledBack, Mark, Loop
<1>1. TransactionTypeOK' /\ KnowsItsJournal' /\ journal = "rolling_back"
  BY DEF TransactionTypeOK, KnowsItsJournal, Journals
<1>2. HoldsEntriesOnly' /\ RotatesWhatItFound' /\ RestoresBackups'
  BY DEF HoldsEntriesOnly, RotatesWhatItFound, RestoresBackups
<1>3. \A d \in entries : files[d] = IF d \in existed THEN backup[d] ELSE Absent
  BY <1>1 DEF RestoresBackups
<1>4. AfterRecovery' = AfterRecovery
  BY <1>1, <1>3 DEF AfterRecovery, Transient
<1> QED
  BY <1>1, <1>2, <1>4

LEMMA CleanKeeps ==
  ASSUME TransactionInv, NEW d \in Destinations, Clean(d)
  PROVE  TransactionInv' /\ AfterRecovery' = AfterRecovery
<1> USE DEF TransactionInv, Clean, processVars
<1>1. journal \notin Transient /\ Absent \in Contents
  BY DestinationsAre DEF KnowsItsJournal, Transient
<1>2. TransactionTypeOK' /\ KnowsItsJournal'
  BY <1>1 DEF TransactionTypeOK, KnowsItsJournal
<1>3. HoldsEntriesOnly'
  BY <1>1 DEF HoldsEntriesOnly, TransactionTypeOK
<1>4. RotatesWhatItFound' /\ RestoresBackups'
  BY DEF RotatesWhatItFound, RestoresBackups
<1>5. AfterRecovery' = AfterRecovery
  BY <1>1 DEF AfterRecovery
<1> QED
  BY <1>2, <1>3, <1>4, <1>5

LEMMA CleanedKeeps ==
  ASSUME TransactionInv, Cleaned
  PROVE  TransactionInv' /\ AfterRecovery' = AfterRecovery
<1> USE DEF TransactionInv, Cleaned
<1>1. /\ journal \notin Transient
      /\ \A d \in Destinations : staged[d] = Absent /\ backup[d] = Absent /\ d \notin restoring
  BY DEF KnowsItsJournal, HoldsEntriesOnly, Transient
<1>2. restoring = {}
  BY <1>1 DEF TransactionTypeOK
<1>3. TransactionTypeOK' /\ KnowsItsJournal' /\ doing' \in {"idle", "read"}
  BY <1>2 DEF TransactionTypeOK, KnowsItsJournal, Journals
<1>4. HoldsEntriesOnly'
  BY <1>1 DEF HoldsEntriesOnly
<1>5. RotatesWhatItFound' /\ RestoresBackups'
  BY <1>3 DEF RotatesWhatItFound, RestoresBackups
<1>6. AfterRecovery' = AfterRecovery
  BY <1>1 DEF AfterRecovery, Transient
<1> QED
  BY <1>3, <1>4, <1>5, <1>6

LEMMA DiscardedKeeps ==
  ASSUME TransactionInv, Discarded
  PROVE  TransactionInv' /\ Promise!Discard
<1> USE DEF TransactionInv, Discarded, Discard, disk, processVars
<1>1. TransactionTypeOK' /\ KnowsItsJournal'
  BY DestinationsAre DEF TransactionTypeOK, KnowsItsJournal
<1>2. HoldsEntriesOnly' /\ RotatesWhatItFound' /\ RestoresBackups'
  BY DEF HoldsEntriesOnly, RotatesWhatItFound, RestoresBackups
<1>3. AfterRecovery = files /\ AfterRecovery' = files'
  BY <1>1 DEF AfterRecovery, Transient, TransactionTypeOK
<1> QED
  BY <1>1, <1>2, <1>3 DEF Promise!Discard, Promise!Absent, Absent

-----------------------------------------------------------------------------

LEMMA InitHolds ==
  ASSUME TransactionInit
  PROVE  TransactionInv /\ Promise!RotationInit
<1> USE DEF TransactionInit, RotationInit, Nothing
<1>1. TransactionTypeOK /\ KnowsItsJournal
  BY DestinationsAre DEF TransactionTypeOK, KnowsItsJournal, Journals
<1>2. HoldsEntriesOnly /\ RotatesWhatItFound /\ RestoresBackups
  BY DEF HoldsEntriesOnly, RotatesWhatItFound, RestoresBackups
<1>3. AfterRecovery = files
  BY <1>1 DEF AfterRecovery, Transient, TransactionTypeOK
<1> QED
  BY <1>1, <1>2, <1>3 DEF TransactionInv, Promise!RotationInit, Promise!Destinations, Destinations,
     Promise!Outputs, Outputs, Promise!Template, Template, Promise!Absent, Absent

(* Every step is a step of the promise, or changes nothing it sees. *)
LEMMA StepKeeps ==
  ASSUME TransactionInv, [TransactionNext]_transactionVars
  PROVE  TransactionInv' /\ [Promise!RotationNext]_AfterRecovery
<1>1. CASE Start
  BY <1>1, StartKeeps
<1>2. CASE CallFails \/ Stops
  BY <1>2, EndsKeep
<1>3. CASE \E g \in Generations : OpenTransaction(g)
  BY <1>3, OpenKeeps
<1>4. CASE \E d \in Destinations : Stage(d) \/ StageHalf(d) \/ Replace(d)
  BY <1>4, StageKeeps, StageHalfKeeps, ReplaceKeeps
<1>5. CASE \E d \in Destinations : Copy(d) \/ Restore(d) \/ Clean(d)
  BY <1>5, CopyKeeps, RestoreKeeps, CleanKeeps
<1>6. CASE MarkPrepared \/ RollBack \/ MarkRolledBack \/ Cleaned
  BY <1>6, PreparedKeeps, RollBackKeeps, RolledBackKeeps, CleanedKeeps
<1>7. CASE MarkCommitted
  BY <1>7, CommittedKeeps DEF Promise!RotationNext
<1>8. CASE Discarded
  BY <1>8, DiscardedKeeps DEF Promise!RotationNext
<1>9. CASE UNCHANGED transactionVars
  <2>1. TransactionInv'
    BY <1>9 DEF transactionVars, disk, processVars, TransactionInv, TransactionTypeOK,
       KnowsItsJournal, HoldsEntriesOnly, RotatesWhatItFound, RestoresBackups
  <2>2. AfterRecovery' = AfterRecovery
    BY <1>9 DEF transactionVars, disk, AfterRecovery
  <2> QED
    BY <2>1, <2>2
<1> QED
  BY <1>1, <1>2, <1>3, <1>4, <1>5, <1>6, <1>7, <1>8, <1>9 DEF TransactionNext

THEOREM TransactionInvHolds == TransactionSpec => []TransactionInv
<1>1. TransactionInit => TransactionInv
  BY InitHolds
<1>2. TransactionInv /\ [TransactionNext]_transactionVars => TransactionInv'
  BY StepKeeps
<1> QED
  BY <1>1, <1>2, PTL DEF TransactionSpec

(* No copy of a secret survives the run that made it, once its journal is   *)
(* gone: cleanupPreparationTransaction removes everything of every entry    *)
(* before the journal, however often it is interrupted.                     *)
THEOREM NothingIsLeft == TransactionSpec => []NothingLeftBehind
<1>1. TransactionInv => NothingLeftBehind
  <2> SUFFICES ASSUME TransactionInv, journal = "none"
               PROVE  staged = Nothing /\ backup = Nothing /\ restoring = {}
    BY DEF NothingLeftBehind
  <2>1. \A d \in Destinations : staged[d] = Absent /\ backup[d] = Absent /\ d \notin restoring
    BY DEF TransactionInv, HoldsEntriesOnly
  <2> QED
    BY <2>1 DEF TransactionInv, TransactionTypeOK, Nothing
<1> QED
  BY <1>1, TransactionInvHolds, PTL

(* The journal of staging:prepare implements SecretRotation: seen through   *)
(* recovery the files rotate in the one step that marks the journal         *)
(* committed, wherever the command fails or stops.                          *)
THEOREM RotationIsAtomic == TransactionSpec => RotatesAtomically
<1>1. TransactionInit => Promise!RotationInit
  BY InitHolds
<1>2. TransactionInv /\ [TransactionNext]_transactionVars => [Promise!RotationNext]_AfterRecovery
  BY StepKeeps
<1> QED
  BY <1>1, <1>2, TransactionInvHolds, PTL DEF TransactionSpec, RotatesAtomically, Promise!RotationSpec

-----------------------------------------------------------------------------
(* The provisioning of the Hyperdrives.                                     *)

States == {"none", "pending", "attempted", "created", "reused"}
RecordedEntries == [state : States, id : Nat]

OursFor(b) == {r \in made : r.of = b /\ r.ours}

(* Every resource has an id of its own. *)
AccountOK ==
  /\ IsFiniteSet(made)
  /\ \A r \in made : r.id \in Nat /\ r.id <= Cardinality(made) /\ r.of \in Bindings
  /\ \A r, s \in made : r.id = s.id => r = s
  /\ shown \subseteq made

(* The command has recorded what it knows, an attempt before it is made,   *)
(* and a create that answers has made what it answers with.                *)
CommandOK ==
  /\ operation \in [Bindings -> RecordedEntries] /\ known \in [Bindings -> RecordedEntries]
  /\ step # "idle" => known = operation
  /\ step = "create" => \E b \in Bindings : /\ target = {b} /\ OursFor(b) = {}
                                            /\ operation[b].state = "attempted"
  /\ step = "created" => answer # 0
  /\ answer # 0 => \E r \in made : r.id = answer /\ r.ours

(* A binding is created at most once, and only after it was attempted; what *)
(* is recorded as created is the command's own.                             *)
CreatesOK ==
  /\ \A b \in Bindings : OursFor(b) # {} => operation[b].state \notin {"none", "pending"}
  /\ \A r, s \in made : r.of = s.of /\ r.ours /\ s.ours => r = s
  /\ \A b \in Bindings : operation[b].state = "created" =>
       \E r \in made : r.id = operation[b].id /\ r.ours

HyperdriveInv == AccountOK /\ CommandOK /\ CreatesOK

LEMMA NewIsNew ==
  ASSUME AccountOK, NEW b \in Bindings, NEW ours \in BOOLEAN, NEW exact \in BOOLEAN,
         made' = made \cup {NewResource(b, ours, exact)}, shown' = shown
  PROVE  /\ AccountOK' /\ NewResource(b, ours, exact) \notin made
         /\ NewResource(b, ours, exact).id \in Nat \ {0}
         /\ NewResource(b, ours, exact).of = b /\ NewResource(b, ours, exact).ours = ours
<1> DEFINE r == NewResource(b, ours, exact)
<1>1. IsFiniteSet(made) /\ Cardinality(made) \in Nat
  BY FS_CardinalityType DEF AccountOK
<1>2. r.id = Cardinality(made) + 1 /\ r.of = b /\ r.ours = ours
  BY DEF NewResource
<1> HIDE DEF r
<1>3. r \notin made
  BY <1>1, <1>2 DEF AccountOK
<1>4. IsFiniteSet(made') /\ Cardinality(made') = Cardinality(made) + 1
  BY <1>1, <1>3, FS_AddElement DEF r
<1>5. \A s \in made' : s.id \in Nat /\ s.id <= Cardinality(made') /\ s.of \in Bindings
  BY <1>1, <1>2, <1>4 DEF AccountOK, r
<1>6. \A s, t \in made' : s.id = t.id => s = t
  BY <1>1, <1>2 DEF AccountOK, r
<1>7. AccountOK'
  BY <1>4, <1>5, <1>6 DEF AccountOK
<1> QED
  BY <1>1, <1>2, <1>3, <1>7 DEF r

(* The command records an entry: what it creates or reuses, or an attempt. *)
LEMMA RecordKeeps ==
  ASSUME HyperdriveInv, NEW b \in Bindings, step # "idle", NEW entry \in RecordedEntries,
         UNCHANGED <<made, shown>>,
         known' = [known EXCEPT ![b] = entry], operation' = known', step' = "next", answer' = 0,
         entry.state \in {"created", "reused"},
         entry.state = "created" => \E r \in made : r.id = entry.id /\ r.ours
  PROVE  HyperdriveInv'
<1> USE DEF HyperdriveInv
<1>1. known = operation
  BY DEF CommandOK
<1>2. operation'[b] = entry /\ \A c \in Bindings \ {b} : operation'[c] = operation[c]
  BY <1>1 DEF CommandOK
<1>3. AccountOK' /\ CommandOK'
  BY DEF AccountOK, CommandOK
<1>4. CreatesOK'
  BY <1>2 DEF CreatesOK, OursFor
<1> QED
  BY <1>3, <1>4

LEMMA BeginKeeps ==
  ASSUME HyperdriveInv, Begin
  PROVE  HyperdriveInv'
<1> USE DEF HyperdriveInv, Begin
<1>1. ASSUME NEW b \in Bindings
      PROVE  /\ known'[b] \in RecordedEntries
             /\ OursFor(b) # {} => known'[b].state \notin {"none", "pending"}
             /\ known'[b].state = "created" => \E r \in made : r.id = known'[b].id /\ r.ours
  <2> DEFINE entry == operation[b]
  <2>1. entry \in RecordedEntries /\ Resumable(entry, b) /\ known'[b] = Found(entry, b)
    BY DEF CommandOK
  <2>2. \A r \in Listed(b) : r \in made /\ r.id \in Nat
    BY DEF Listed, AccountOK
  <2>3. CASE Resolved(entry)
    BY <2>1, <2>3 DEF Found, Resolved, CreatesOK
  <2>4. CASE ~Resolved(entry) /\ Listed(b) # {}
    <3>1. known'[b] = [state |-> "reused", id |-> (CHOOSE r \in Listed(b) : TRUE).id]
      BY <2>1, <2>4 DEF Found
    <3>2. (CHOOSE r \in Listed(b) : TRUE) \in Listed(b)
      BY <2>4
    <3> QED
      BY <2>2, <3>1, <3>2 DEF RecordedEntries, States
  <2>5. CASE ~Resolved(entry) /\ Listed(b) = {}
    <3>1. known'[b] = IF entry.state = "none" THEN Pending ELSE entry
      BY <2>1, <2>5 DEF Found
    <3>2. entry.state # "attempted"
      BY <2>1, <2>5 DEF Resumable
    <3>3. entry.state \in {"none", "pending"}
      BY <2>1, <2>5, <3>2 DEF RecordedEntries, States, Resolved
    <3>4. OursFor(b) = {}
      BY <3>3 DEF CreatesOK
    <3> QED
      BY <2>1, <3>1, <3>3, <3>4 DEF RecordedEntries, States, Pending
  <2> QED
    BY <2>3, <2>4, <2>5
<1>2. AccountOK'
  BY DEF AccountOK, cloudflare
<1>3. CommandOK'
  <2>1. known' \in [Bindings -> RecordedEntries]
    BY <1>1
  <2> QED
    BY <2>1 DEF CommandOK, cloudflare
<1>4. CreatesOK'
  BY <1>1 DEF CreatesOK, OursFor, cloudflare
<1> QED
  BY <1>2, <1>3, <1>4

LEMMA AttemptKeeps ==
  ASSUME HyperdriveInv, NEW b \in Bindings, Attempt(b)
  PROVE  HyperdriveInv'
<1> USE DEF HyperdriveInv, Attempt
<1>1. known = operation /\ Attempted \in RecordedEntries
      /\ Attempted.state = "attempted" /\ Pending.state = "pending"
  BY DEF CommandOK, RecordedEntries, States, Attempted, Pending
<1>2. operation'[b] = Attempted /\ \A c \in Bindings \ {b} : operation'[c] = operation[c]
  BY <1>1 DEF CommandOK
<1>3. UNCHANGED <<made, shown, answer>>
  BY DEF cloudflare
<1>4. OursFor(b) = {} /\ \A c \in Bindings : OursFor(c)' = OursFor(c)
  BY <1>1, <1>3 DEF CreatesOK, OursFor
<1>5. AccountOK'
  BY <1>3 DEF AccountOK
<1>6. CommandOK'
  BY <1>1, <1>2, <1>3, <1>4 DEF CommandOK
<1>7. CreatesOK'
  BY <1>1, <1>2, <1>3, <1>4 DEF CreatesOK
<1> QED
  BY <1>5, <1>6, <1>7

LEMMA CreateKeeps ==
  ASSUME HyperdriveInv, NEW b \in Bindings, NEW answered \in BOOLEAN, NEW got \in BOOLEAN,
         Create(b, answered, got)
  PROVE  HyperdriveInv'
<1> USE DEF HyperdriveInv, Create
<1> DEFINE r == NewResource(b, TRUE, TRUE)
<1>1. OursFor(b) = {} /\ operation[b].state = "attempted"
  BY DEF CommandOK
<1>2. AccountOK' /\ r \notin made /\ r.id \in Nat \ {0} /\ r.of = b /\ r.ours = TRUE
  BY NewIsNew
<1> HIDE DEF r
<1>3. made' = made \cup {r} /\ answer' = (IF answered THEN r.id ELSE 0)
  BY DEF r
<1>4. CommandOK'
  BY <1>2, <1>3 DEF CommandOK
<1>5. CreatesOK'
  <2>1. \A s, t \in made' : s.of = t.of /\ s.ours /\ t.ours => s = t
    BY <1>1, <1>2, <1>3 DEF CreatesOK, OursFor
  <2>2. \A c \in Bindings : OursFor(c)' # {} => c = b \/ OursFor(c) # {}
    BY <1>2, <1>3 DEF OursFor
  <2> QED
    BY <1>1, <1>3, <2>1, <2>2 DEF CreatesOK
<1> QED
  BY <1>2, <1>4, <1>5

LEMMA AccountMoves ==
  ASSUME HyperdriveInv,
         \/ \E b \in Bindings, exact \in BOOLEAN : SomebodyCreates(b, exact)
         \/ \E r \in made : SomebodyDeletes(r) \/ Appears(r)
  PROVE  HyperdriveInv'
<1> USE DEF HyperdriveInv
<1>1. ASSUME NEW b \in Bindings, NEW exact \in BOOLEAN, SomebodyCreates(b, exact)
      PROVE  HyperdriveInv'
  <2> DEFINE r == NewResource(b, FALSE, exact)
  <2>1. AccountOK' /\ r.ours = FALSE
    BY <1>1, NewIsNew DEF SomebodyCreates
  <2>2. made' = made \cup {r}
    BY <1>1 DEF SomebodyCreates
  <2> HIDE DEF r
  <2>3. \A c \in Bindings : OursFor(c)' = OursFor(c)
    BY <2>1, <2>2 DEF OursFor
  <2>4. CommandOK'
    BY <1>1, <2>2, <2>3 DEF CommandOK, SomebodyCreates
  <2>5. CreatesOK'
    BY <1>1, <2>1, <2>2, <2>3 DEF CreatesOK, SomebodyCreates
  <2> QED
    BY <2>1, <2>4, <2>5
<1>2. ASSUME NEW r \in made, SomebodyDeletes(r) \/ Appears(r) PROVE HyperdriveInv'
  BY <1>2 DEF SomebodyDeletes, Appears, InAccount, AccountOK, CommandOK, CreatesOK, OursFor
<1> QED
  BY <1>1, <1>2

LEMMA ReconcileKeeps ==
  ASSUME HyperdriveInv, NEW b \in Bindings, Confirm(b) \/ Reconcile(b)
  PROVE  HyperdriveInv'
<1> USE DEF HyperdriveInv
<1>1. CASE Confirm(b)
  <2> DEFINE entry == [state |-> "created", id |-> answer]
  <2>1. \E r \in made : r.id = answer /\ r.ours
    BY <1>1 DEF Confirm, CommandOK
  <2>2. entry \in RecordedEntries /\ entry.state = "created" /\ entry.id = answer
    BY <2>1 DEF RecordedEntries, States, AccountOK
  <2>3. /\ step # "idle" /\ UNCHANGED <<made, shown>>
        /\ known' = [known EXCEPT ![b] = entry] /\ operation' = known'
        /\ step' = "next" /\ answer' = 0
    BY <1>1 DEF Confirm, Record, cloudflare
  <2> HIDE DEF entry
  <2> QED
    BY <2>1, <2>2, <2>3, RecordKeeps
<1>2. CASE Reconcile(b)
  <2>1. PICK r \in Listed(b) : /\ answer # 0 => r.id = answer
                               /\ Record(b, IF answer = 0 THEN "reused" ELSE "created", r.id)
    BY <1>2 DEF Reconcile
  <2> DEFINE entry == [state |-> IF answer = 0 THEN "reused" ELSE "created", id |-> r.id]
  <2>2. r.id \in Nat
    BY DEF Listed, AccountOK
  <2>3. /\ entry \in RecordedEntries /\ entry.id = r.id
        /\ entry.state \in {"created", "reused"} /\ (entry.state = "created" => answer # 0)
    BY <2>2 DEF RecordedEntries, States
  <2>4. /\ step # "idle" /\ UNCHANGED <<made, shown>>
        /\ known' = [known EXCEPT ![b] = entry] /\ operation' = known'
        /\ step' = "next" /\ answer' = 0
    BY <1>2, <2>1 DEF Reconcile, Record, cloudflare
  <2>5. answer # 0 => \E s \in made : s.id = r.id /\ s.ours
    BY <2>1 DEF CommandOK
  <2> HIDE DEF entry
  <2> QED
    BY <2>3, <2>4, <2>5, RecordKeeps
<1> QED
  BY <1>1, <1>2

LEMMA HyperdriveInvariant == HyperdriveSpec => []HyperdriveInv
<1>1. HyperdriveInit => HyperdriveInv
  <2> SUFFICES ASSUME HyperdriveInit PROVE HyperdriveInv
    OBVIOUS
  <2>1. None \in [Bindings -> RecordedEntries] /\ \A b \in Bindings : None[b].state = "none"
    BY DEF None, RecordedEntries, States
  <2> QED
    BY <2>1, FS_EmptySet DEF HyperdriveInit, HyperdriveInv, AccountOK, CommandOK, CreatesOK, OursFor
<1>2. ASSUME HyperdriveInv, [HyperdriveNext]_hyperdriveVars PROVE HyperdriveInv'
  <2> USE <1>2 DEF HyperdriveInv
  <2>1. CASE CreateFails \/ CommandEnds
    <3>1. None \in [Bindings -> RecordedEntries]
      BY DEF None, RecordedEntries, States
    <3> QED
      BY <2>1, <3>1 DEF CreateFails, CommandEnds, cloudflare, AccountOK, CommandOK, CreatesOK, OursFor
  <2>2. CASE Ages \/ Verify \/ (\E c \in Configs : BindConfig(c)) \/ UNCHANGED hyperdriveVars
    BY <2>2 DEF Ages, Verify, BindConfig, hyperdriveVars, cloudflare, AccountOK, CommandOK,
                CreatesOK, OursFor
  <2> QED
    BY <2>1, <2>2, BeginKeeps, AttemptKeeps, CreateKeeps, AccountMoves, ReconcileKeeps
       DEF HyperdriveNext
<1> QED
  BY <1>1, <1>2, PTL DEF HyperdriveSpec

(* However often the command fails, is stopped and is started again, it    *)
(* creates at most one resource for a binding (provisionHyperdrives).      *)
THEOREM OneCreatePerBinding == HyperdriveSpec => []AtMostOneCreate
<1>1. HyperdriveInv => AtMostOneCreate
  <2> SUFFICES ASSUME HyperdriveInv, NEW b \in Bindings
               PROVE  Cardinality({r \in made : r.of = b /\ r.ours}) <= 1
    BY DEF AtMostOneCreate
  <2>1. CASE OursFor(b) = {}
    BY <2>1, FS_EmptySet DEF OursFor
  <2>2. CASE OursFor(b) # {}
    <3>1. PICK r : OursFor(b) = {r}
      BY <2>2 DEF OursFor, HyperdriveInv, CreatesOK
    <3> QED
      BY <3>1, FS_Singleton DEF OursFor
  <2> QED
    BY <2>1, <2>2
<1> QED
  BY <1>1, HyperdriveInvariant, PTL

(* The clean-up deletes only what the command has created: a resource      *)
(* somebody else made under the same name is never a target                *)
(* (createdHyperdriveCleanupTargets).                                      *)
THEOREM CleanupTargetsAreOwn == HyperdriveSpec => []CleanupIsOwn
<1>1. HyperdriveInv => CleanupIsOwn
  BY DEF HyperdriveInv, AccountOK, CreatesOK, CleanupIsOwn, CleanupTargets
<1> QED
  BY <1>1, HyperdriveInvariant, PTL

=============================================================================
