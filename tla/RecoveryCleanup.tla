--------------------------- MODULE RecoveryCleanup ---------------------------
(***************************************************************************)
(* scripts/cloudflare/provision.ts: what `prepare` does when the lock it   *)
(* finds belongs to a dead process.  It takes the handoff file, then the   *)
(* recovery claim.  A claim left by another dead process is replaced       *)
(* through a transition file and a hard link (the quarantine), and         *)
(* whatever an earlier replacement left behind is removed first, under an  *)
(* election and a journal that is itself replaced by compare-and-swap.     *)
(* At the end the whole directory is renamed away.                         *)
(*                                                                         *)
(* The model is the directory, file by file.  A file is an inode, and      *)
(* keeps its number of links; each step of a claimant is one call that     *)
(* changes the directory, with the checks made since the step before it.   *)
(* writeFile is two of them: who dies between the creation of a file and   *)
(* its contents leaves it empty, and nobody can read it ever after.  The   *)
(* claimants run one after another and each may die after any step (that   *)
(* live ones exclude each other is PreparationLock's subject).             *)
(***************************************************************************)
EXTENDS Naturals, FiniteSets

CONSTANT MaxClaimants   \* runs of the command (bound of the model)

ASSUME CleanupAssumption == MaxClaimants \in Nat \ {0}

Claimants == 1..MaxClaimants
Nil == [none |-> TRUE]

(* Names of the lock directory.  Those after the first two carry the id of  *)
(* the stale owner whose claim is being replaced.                           *)
ClaimFile == <<"claim", 0>>
HandoffFile == <<"handoff", 0>>
Quarantine(s) == <<"q", s>>
Transition(s) == <<"t", s>>
TransitionCandidate(s) == <<"t_candidate", s>>
Election(s) == <<"election", s>>
ElectionCandidate(s) == <<"election_candidate", s>>
Journal(s) == <<"journal", s>>
JournalCandidate(s) == <<"journal_candidate", s>>
Prior(s) == <<"prior", s>>
Next_(s) == <<"next", s>>
Artifact(k, s) == <<k, s>>                                   \* k = "t" or "q"
ClaimedName(k, s) == <<IF k = "t" THEN "t_claimed" ELSE "q_claimed", s>>

Candidates(s) == {TransitionCandidate(s), ElectionCandidate(s), JournalCandidate(s)}
TargetOf(c) == CASE c[1] = "t_candidate" -> Transition(c[2])
                 [] c[1] = "election_candidate" -> Election(c[2])
                 [] c[1] = "journal_candidate" -> Journal(c[2])

VARIABLES
  dir,       \* name -> file, for the names that exist: [ino, by, rec]
  inodes,    \* inodes used so far
  writing,   \* the file the last call of the claimant has created, if it was that
  torn,      \* the files whose makers died before they had contents
  moved,     \* the directory has been renamed away
  me,        \* the claimant that runs now
  at,        \* where it is
  stale,     \* the dead claimant it replaces, 0 if none
  handle,    \* the election and journal it keeps, by their stale id; 0 if none
  goal,      \* the journal record a compare-and-swap of its own installs
  undone,    \* it has unlinked what its journal still lists
  outcome    \* claimant -> how it ended

cleanupVars == <<dir, inodes, writing, torn, moved, me, at, stale, handle, goal, undone, outcome>>

CleanupInit ==
  /\ dir = <<>> /\ inodes = 0 /\ writing = {} /\ torn = {} /\ moved = FALSE
  /\ me = 1 /\ at = "arrive" /\ stale = 0 /\ handle = 0 /\ goal = Nil /\ undone = FALSE
  /\ outcome = [c \in Claimants |-> "none"]

-----------------------------------------------------------------------------
(* The file system *)

Has(n) == n \in DOMAIN dir
By(n) == dir[n].by
Links(n) == Cardinality({x \in DOMAIN dir : dir[x].ino = dir[n].ino})
Identity(n) == [ino |-> dir[n].ino, links |-> Links(n), by |-> By(n)]
SameFile(n, x) == dir[n].ino = dir[x].ino

Readable(n) == Has(n) /\ n \notin torn

Entered(n, file) ==
  ~Has(n) /\ dir' = [x \in DOMAIN dir \cup {n} |-> IF x = n THEN file ELSE dir[x]]
Write(n, by, rec) ==
  /\ Entered(n, [ino |-> inodes + 1, by |-> by, rec |-> rec]) /\ inodes' = inodes + 1
  /\ writing' = {n} /\ UNCHANGED torn
Link(n, x) == Has(n) /\ Entered(x, dir[n]) /\ writing' = {} /\ UNCHANGED <<inodes, torn>>
Unlink(n) ==
  /\ Has(n) /\ dir' = [x \in DOMAIN dir \ {n} |-> dir[x]]
  /\ writing' = {} /\ UNCHANGED <<inodes, torn>>
Untouched == writing' = {} /\ UNCHANGED <<dir, inodes, torn>>

Proceeds(step) == at' = step /\ UNCHANGED <<moved, me, stale, handle, goal, undone, outcome>>
Stays == Proceeds(at)

(* writeFile of a candidate, link to its target, unlink of the candidate:   *)
(* three steps, of which the directory shows the next.                      *)
InstallFile(candidate, target, by, rec) ==
  \/ ~Has(candidate) /\ ~Has(target) /\ Write(candidate, by, rec) /\ Stays
  \/ Has(candidate) /\ Link(candidate, target) /\ Stays
  \/ Has(candidate) /\ Has(target) /\ SameFile(candidate, target) /\ Unlink(candidate) /\ Stays
Installed(candidate, target) == Has(target) /\ ~Has(candidate)

(* findExistingRecoveryQuarantine: everything that is left must carry one   *)
(* stale id, and claimed artifacts need an election.                        *)
Leftovers == DOMAIN dir \ {ClaimFile, HandoffFile}
Ambiguous ==
  \/ Cardinality({n[2] : n \in Leftovers}) > 1
  \/ \E k \in {"t", "q"}, s \in Claimants : Has(ClaimedName(k, s)) /\ ~Has(Election(s))

-----------------------------------------------------------------------------
(* The journal of a clean-up.  What the phases still have to remove:        *)
(* artifacts and claims, by kind, with the identity each must have.         *)

JournalRecord(s) == dir[Journal(s)].rec
Kinds(f) == DOMAIN f
First(f) == IF "t" \in DOMAIN f THEN "t" ELSE "q"    \* the transition comes first
Minus(f, k) == [x \in DOMAIN f \ {k} |-> f[x]]
SuccessorPhases == {"installing", "quarantined", "finalizing"}

(* validateRecoveryCleanupJournalFilesystem *)
FitsTheDirectory(rec, s) ==
  LET election == dir[Election(s)]
      kinds == Kinds(election.rec.artifacts)
      recorded(k) == IF k = "t" THEN rec.transition ELSE rec.quarantine
      rightful(k) == IF k = "t" THEN election.by ELSE election.rec.active
  IN
  /\ Has(Election(s)) /\ Has(ClaimFile)
  /\ rec.by = election.by /\ rec.election = election.ino
  /\ By(ClaimFile) \in {election.rec.active, election.by}
  /\ rec.phase = "artifacts" => Kinds(rec.claims) = kinds
  /\ {k \in {"t", "q"} : Has(ClaimedName(k, s))} = Kinds(rec.claims)
  /\ \A k \in Kinds(rec.claims) : Identity(ClaimedName(k, s)) = rec.claims[k]
  /\ \A k \in Kinds(rec.artifacts) :
       Has(Artifact(k, s)) /\ Identity(Artifact(k, s)) = rec.artifacts[k]
  /\ \A k \in kinds \ Kinds(rec.artifacts) : Has(Artifact(k, s)) =>
       /\ rec.phase \in SuccessorPhases
       /\ recorded(k) # Nil \/ k = "t"
            \/ (rec.phase = "installing" /\ By(ClaimFile) = election.rec.active)
       /\ By(Artifact(k, s)) = rightful(k)
       /\ recorded(k) # Nil => Identity(Artifact(k, s)) = recorded(k)
  /\ rec.phase = "finalizing" =>
       /\ ~Has(Quarantine(rec.quarantine.by))
       /\ By(ClaimFile) = election.by
       /\ Has(Transition(rec.quarantine.by))
       /\ Identity(Transition(rec.quarantine.by)) = rec.transition

(* What a live process makes of its journal next, once it has unlinked the  *)
(* first thing the journal lists (executeRecoveryCleanupJournal).           *)
Worked(rec, s) ==
  CASE rec.phase = "artifacts" /\ Kinds(rec.artifacts) # {} ->
         LET k == First(rec.artifacts) IN
         [rec EXCEPT !.artifacts = Minus(@, k),
                     !.claims = [@ EXCEPT ![k] = Identity(ClaimedName(k, s))]]
    [] rec.phase = "artifacts" /\ Kinds(rec.artifacts) = {} -> [rec EXCEPT !.phase = "claims"]
    [] rec.phase = "claims" /\ Kinds(rec.claims) # {} ->
         [rec EXCEPT !.claims = Minus(@, First(@))]
    [] rec.phase = "claims" /\ Kinds(rec.claims) = {} -> [rec EXCEPT !.phase = "complete"]

HardLinked(n, x) == Has(n) /\ Has(x) /\ SameFile(n, x)

(* The evidence deriveRecoveryCleanupJournalTransition asks for.            *)
Derivable(rec, s) ==
  LET k == First(rec.artifacts)
      c == First(rec.claims)
  IN
  CASE rec.phase = "artifacts" /\ Kinds(rec.artifacts) # {} ->
         /\ ~Has(Artifact(k, s)) /\ Has(ClaimedName(k, s))
         /\ dir[ClaimedName(k, s)].ino = rec.claims[k].ino
         /\ Links(ClaimedName(k, s)) + 1 = rec.claims[k].links
    [] rec.phase = "claims" /\ Kinds(rec.claims) # {} -> ~Has(ClaimedName(c, s))
    [] rec.phase = "installing" /\ rec.transition = Nil ->
         Has(Transition(s)) /\ By(Transition(s)) = rec.by
    [] rec.phase = "installing" /\ rec.transition # Nil ->
         /\ Has(Quarantine(s)) /\ By(Quarantine(s)) = rec.active
         /\ By(ClaimFile) = rec.active => HardLinked(ClaimFile, Quarantine(s))
    [] OTHER -> rec.phase # "finalizing"

Derived(rec, s) ==
  CASE rec.phase \in {"artifacts", "claims"} -> Worked(rec, s)
    [] rec.phase = "complete" -> [rec EXCEPT !.phase = "installing"]
    [] rec.phase = "installing" /\ rec.transition = Nil ->
         [rec EXCEPT !.transition = Identity(Transition(s))]
    [] rec.phase = "installing" /\ rec.transition # Nil ->
         [rec EXCEPT !.phase = "quarantined", !.quarantine = Identity(Quarantine(s))]
    [] rec.phase = "quarantined" -> [rec EXCEPT !.phase = "finalizing"]

(* updateRecoveryCleanupJournal begins: the journal is linked as prior.     *)
Swap(s, rec) ==
  /\ Has(Journal(s)) /\ Has(Election(s))
  /\ Link(Journal(s), Prior(s))
  /\ goal' = rec /\ undone' = FALSE
  /\ UNCHANGED <<moved, me, at, stale, handle, outcome>>

(* The rest of it; recoverRecoveryCleanupJournalCas takes the same steps,   *)
(* with a goal derived from the prior.                                      *)
Swapping(s) == Has(Prior(s)) \/ Has(Next_(s))

SwapStep(s) ==
  LET old == dir[Prior(s)].rec
      new == dir[Next_(s)].rec
  IN
  /\ Has(Election(s)) /\ Next_(s) \notin torn
  /\ \/ /\ Has(Prior(s)) /\ ~Has(Next_(s))
        /\ goal = Nil => Derivable(old, s) /\ FitsTheDirectory(Derived(old, s), s)
        /\ Write(Next_(s), old.by, IF goal = Nil THEN Derived(old, s) ELSE goal)
        /\ Stays
     \/ /\ Has(Prior(s)) /\ Has(Next_(s)) /\ HardLinked(Journal(s), Prior(s))
        /\ goal = Nil => FitsTheDirectory(new, s)
        /\ Unlink(Journal(s)) /\ Stays
     \/ /\ Has(Prior(s)) /\ Has(Next_(s)) /\ ~Has(Journal(s))
        /\ goal = Nil => FitsTheDirectory(new, s)
        /\ Link(Next_(s), Journal(s)) /\ Stays
     \/ /\ Has(Prior(s)) /\ HardLinked(Journal(s), Next_(s))
        /\ FitsTheDirectory(new, s)
        /\ Unlink(Prior(s)) /\ Stays
     \/ /\ ~Has(Prior(s)) /\ HardLinked(Journal(s), Next_(s))
        /\ FitsTheDirectory(new, s)
        /\ Unlink(Next_(s)) /\ goal' = Nil
        /\ UNCHANGED <<moved, me, at, stale, handle, undone, outcome>>

-----------------------------------------------------------------------------
(* The claimant *)

(* acquireRecoveryClaimHandoff; a handoff of a dead process is released     *)
(* once the claim is known (recoverDeadRecoveryClaimHandoff).               *)
WriteHandoff ==
  /\ at = "arrive" /\ Write(HandoffFile, me, Nil) /\ Proceeds("claim")

Transitions == {s \in Claimants : Has(Transition(s))}

(* Slip: a claim that is missing is never written for its new owner. *)
RecoverHandoffWithClaim ==
  /\ at = "arrive" /\ Readable(HandoffFile) /\ Readable(ClaimFile)
  /\ By(ClaimFile) # By(HandoffFile) => Transitions \subseteq {By(ClaimFile)}
  /\ Unlink(HandoffFile) /\ Stays

(* Slip: a missing claim is restored to its dead owner, not its successor. *)
RecoverHandoffBackwards ==
  /\ at = "arrive" /\ Readable(HandoffFile) /\ ClaimFile \notin torn
  /\ Cardinality(Transitions) <= 1
  /\ IF Has(ClaimFile)
       THEN /\ By(ClaimFile) # By(HandoffFile) => Transitions \subseteq {By(ClaimFile)}
            /\ Unlink(HandoffFile)
       ELSE \E s \in Transitions :
              By(Transition(s)) = By(HandoffFile) /\ Write(ClaimFile, s, Nil)
  /\ Stays

RecoverHandoff ==
  /\ at = "arrive" /\ Readable(HandoffFile) /\ ClaimFile \notin torn
  /\ Cardinality(Transitions) <= 1
  /\ IF Has(ClaimFile)
       THEN /\ By(ClaimFile) # By(HandoffFile) => Transitions \subseteq {By(ClaimFile)}
            /\ Unlink(HandoffFile)
       ELSE /\ \E s \in Transitions : By(Transition(s)) = By(HandoffFile)
            /\ Write(ClaimFile, By(HandoffFile), Nil)
  /\ Stays

WriteClaim == at = "claim" /\ Write(ClaimFile, me, Nil) /\ Proceeds("release")

FindClaim ==
  /\ at = "claim" /\ Readable(ClaimFile)
  /\ at' = "recover" /\ stale' = By(ClaimFile)
  /\ Untouched /\ UNCHANGED <<moved, me, handle, goal, undone, outcome>>

(* recoverRecoveryInstallationCandidate *)
DropCandidate(c) ==
  /\ at = "recover" /\ ~Ambiguous /\ Readable(c)
  /\ Has(TargetOf(c)) => SameFile(c, TargetOf(c))
  /\ Unlink(c) /\ Stays

AllSettled == at = "recover" /\ ~Ambiguous /\ \A s \in Claimants : ~\E c \in Candidates(s) : Has(c)

RecoverSwap(s) == AllSettled /\ Swapping(s) /\ SwapStep(s)

Quiet(s) == AllSettled /\ ~Swapping(s)

(* recoverRetainedRecoveryCleanup: an election is taken up where it stands. *)
TakeUp(s) ==
  /\ Quiet(s) /\ Has(Election(s))
  /\ By(ClaimFile) \in {dir[Election(s)].rec.active, By(Election(s))}
  /\ at' = IF Has(Journal(s)) THEN "work" ELSE "elect"
  /\ Untouched /\ UNCHANGED <<moved, me, stale, handle, goal, undone, outcome>>

(* recoverOrphanedRecoveryCleanupJournal *)
DropOrphan(s) ==
  /\ Quiet(s) /\ ~Has(Election(s)) /\ Has(Journal(s))
  /\ LET rec == JournalRecord(s) IN
     /\ rec.phase \in {"complete", "finalizing"}
     /\ By(ClaimFile) \in {rec.active, rec.by}
     /\ rec.phase = "finalizing" =>
          /\ ~Has(Quarantine(rec.quarantine.by)) /\ By(ClaimFile) = rec.by
          /\ Has(Transition(rec.quarantine.by))
          /\ Identity(Transition(rec.quarantine.by)) = rec.transition
  /\ Unlink(Journal(s)) /\ Stays

Present(s) == {k \in {"t", "q"} : Has(Artifact(k, s))}

(* A quarantine and a transition without election: the claim must be the    *)
(* one that was quarantined, or already the successor's.                    *)
Elect(s) ==
  /\ Quiet(s) /\ ~Has(Election(s)) /\ ~Has(Journal(s)) /\ Present(s) # {}
  /\ Has(Quarantine(s)) => By(Quarantine(s)) = s
  /\ CASE Present(s) = {"q"} -> HardLinked(ClaimFile, Quarantine(s))
       [] Present(s) = {"t"} -> By(ClaimFile) \in {s, By(Transition(s))}
       [] OTHER -> IF By(ClaimFile) = s THEN HardLinked(ClaimFile, Quarantine(s))
                                    ELSE By(ClaimFile) = By(Transition(s))
  /\ Write(ElectionCandidate(s), me,
       [active |-> By(ClaimFile), artifacts |-> [k \in Present(s) |-> dir[Artifact(k, s)].ino]])
  /\ at' = "elect" /\ handle' = s /\ undone' = FALSE
  /\ UNCHANGED <<moved, me, stale, goal, outcome>>

(* installRecoveryCleanupElection, claimRecoveryArtifact for each artifact, *)
(* installRecoveryCleanupWorkJournal.                                       *)
Electing(s) ==
  /\ at = "elect" /\ Has(ElectionCandidate(s))
  /\ InstallFile(ElectionCandidate(s), Election(s), me, Nil)

Retained(s) == dir[Election(s)].rec.artifacts
SourceIs(k, s) == Has(Artifact(k, s)) /\ dir[Artifact(k, s)].ino = Retained(s)[k]

ClaimArtifact(s, k) ==
  /\ at = "elect" /\ Installed(ElectionCandidate(s), Election(s)) /\ k \in Kinds(Retained(s))
  /\ SourceIs(k, s)
  /\ k = "q" /\ "t" \in Kinds(Retained(s)) => Has(ClaimedName("t", s))
  /\ Link(Artifact(k, s), ClaimedName(k, s)) /\ Stays

OpenJournal(s) ==
  /\ at = "elect" /\ Installed(ElectionCandidate(s), Election(s))
  /\ ~Installed(JournalCandidate(s), Journal(s))
  /\ \A k \in Kinds(Retained(s)) :
       SourceIs(k, s) /\ HardLinked(Artifact(k, s), ClaimedName(k, s))
  /\ InstallFile(JournalCandidate(s), Journal(s), By(Election(s)),
       [phase |-> "artifacts", by |-> By(Election(s)), election |-> dir[Election(s)].ino,
        active |-> dir[Election(s)].rec.active,
        artifacts |-> [k \in Kinds(Retained(s)) |-> Identity(Artifact(k, s))],
        claims |-> [k \in Kinds(Retained(s)) |-> Identity(ClaimedName(k, s))],
        transition |-> Nil, quarantine |-> Nil])

Opened(s) ==
  /\ at = "elect" /\ Installed(ElectionCandidate(s), Election(s))
  /\ Installed(JournalCandidate(s), Journal(s))
  /\ Proceeds("work") /\ Untouched

Working(s) == at = "work" /\ Has(Journal(s)) /\ Has(Election(s)) /\ ~Swapping(s)

(* executeRecoveryCleanupJournal *)
Remove(s) ==
  /\ Working(s) /\ ~undone
  /\ LET rec == JournalRecord(s) IN
     /\ FitsTheDirectory(rec, s)
     /\ \/ rec.phase = "artifacts" /\ Kinds(rec.artifacts) # {}
             /\ Unlink(Artifact(First(rec.artifacts), s))
        \/ rec.phase = "claims" /\ Kinds(rec.claims) # {}
             /\ Unlink(ClaimedName(First(rec.claims), s))
  /\ undone' = TRUE
  /\ UNCHANGED <<moved, me, at, stale, handle, goal, outcome>>

Advance(s) ==
  /\ Working(s)
  /\ LET rec == JournalRecord(s) IN
     /\ \/ undone
        \/ rec.phase = "artifacts" /\ Kinds(rec.artifacts) = {}
        \/ rec.phase = "claims" /\ Kinds(rec.claims) = {}
     /\ Swap(s, Worked(rec, s))

CompleteOwn(s) ==
  /\ Working(s) /\ handle = s /\ JournalRecord(s).phase = "complete"
  /\ Proceeds("replace") /\ Untouched

(* adoptRecoveryCleanupSuccessorState: the dead claimant had begun to       *)
(* install itself.                                                          *)
Adoptable(s) ==
  /\ Working(s) /\ handle # s /\ JournalRecord(s).phase = "installing"
  /\ \/ JournalRecord(s).transition = Nil /\ Has(Transition(s))
     \/ Has(Quarantine(s))

Adopt(s) ==
  /\ Adoptable(s) /\ Derivable(JournalRecord(s), s)
  /\ Swap(s, Derived(JournalRecord(s), s))

(* The end of recoverRetainedRecoveryCleanup: a replacement that had not    *)
(* reached the claim is undone, one that had is finished.                   *)
Begun(s) ==
  /\ Working(s) /\ handle # s /\ ~Adoptable(s)
  /\ JournalRecord(s).phase \in {"installing", "quarantined"}
  /\ \/ By(ClaimFile) = JournalRecord(s).active
     \/ By(ClaimFile) = JournalRecord(s).by /\ JournalRecord(s).phase = "quarantined"

ToUnlink(s) ==
  LET rec == JournalRecord(s)
      x == IF rec.quarantine = Nil THEN s ELSE rec.quarantine.by
  IN {p \in {<<Quarantine(x), rec.quarantine>>}
            \cup (IF By(ClaimFile) = rec.active THEN {<<Transition(x), rec.transition>>} ELSE {}) :
        p[2] # Nil /\ Has(p[1])}

Undo(s, p) ==
  /\ Begun(s) /\ p \in ToUnlink(s)
  /\ p[1][1] = "t" => \A o \in ToUnlink(s) : o[1][1] = "t"
  /\ Identity(p[1]) = p[2]
  /\ Unlink(p[1]) /\ Stays

Resume(s) ==
  /\ Begun(s) /\ ToUnlink(s) = {}
  /\ LET rec == JournalRecord(s) IN
     Swap(s, IF By(ClaimFile) = rec.by
               THEN [rec EXCEPT !.phase = "finalizing"]
               ELSE [rec EXCEPT !.phase = "complete", !.transition = Nil, !.quarantine = Nil])

Dismiss(s) ==
  /\ Working(s) /\ handle # s /\ JournalRecord(s).phase \in {"complete", "finalizing"}
  /\ Unlink(Election(s)) /\ Stays

DismissJournal(s) ==
  /\ at = "work" /\ handle # s /\ ~Has(Election(s)) /\ Has(Journal(s))
  /\ Unlink(Journal(s)) /\ Proceeds("recover")

RecoveredAll == AllSettled /\ Leftovers = {} /\ Proceeds("replace") /\ Untouched

-----------------------------------------------------------------------------
(* replaceDeadRecoveryClaim, once the past is cleaned up *)

Phase == IF handle = 0 THEN "no_journal" ELSE JournalRecord(handle).phase
Replacing == at = "replace" /\ (handle # 0 => Has(Journal(handle)) /\ ~Swapping(handle))
MyTransition == Installed(TransitionCandidate(stale), Transition(stale))
HasClaim(c) == Has(ClaimFile) /\ By(ClaimFile) = c

Announce == Replacing /\ Phase = "complete"
            /\ Swap(handle, [JournalRecord(handle) EXCEPT !.phase = "installing"])

InstallTransition ==
  /\ Replacing /\ Phase \in {"no_journal", "installing"} /\ ~MyTransition
  /\ InstallFile(TransitionCandidate(stale), Transition(stale), me, Nil)

RecordTransition ==
  /\ Replacing /\ Phase = "installing" /\ MyTransition
  /\ JournalRecord(handle).transition = Nil
  /\ Swap(handle, [JournalRecord(handle) EXCEPT !.transition = Identity(Transition(stale))])

(* Slip: the dead claim is quarantined before a transition names its successor. *)
QuarantineUnannounced ==
  /\ Replacing /\ HasClaim(stale)
  /\ Phase = "no_journal" \/ (Phase = "installing" /\ JournalRecord(handle).transition # Nil)
  /\ Link(ClaimFile, Quarantine(stale)) /\ Stays

QuarantineClaim ==
  /\ Replacing /\ MyTransition /\ HasClaim(stale)
  /\ Phase = "no_journal" \/ (Phase = "installing" /\ JournalRecord(handle).transition # Nil)
  /\ Link(ClaimFile, Quarantine(stale)) /\ Stays

RecordQuarantine ==
  /\ Replacing /\ Phase = "installing" /\ Has(Quarantine(stale))
  /\ Swap(handle, [JournalRecord(handle) EXCEPT
             !.phase = "quarantined", !.quarantine = Identity(Quarantine(stale))])

UnlinkDeadClaim ==
  /\ Replacing /\ HasClaim(stale) /\ Phase \in {"no_journal", "quarantined"}
  /\ HardLinked(ClaimFile, Quarantine(stale))
  /\ Unlink(ClaimFile) /\ Stays

Succeed == Replacing /\ MyTransition /\ Write(ClaimFile, me, Nil) /\ Stays

DropQuarantine ==
  /\ Replacing /\ HasClaim(me) /\ Unlink(Quarantine(stale)) /\ Stays

Finalize ==
  /\ Replacing /\ Phase = "quarantined" /\ HasClaim(me) /\ ~Has(Quarantine(stale))
  /\ Swap(handle, [JournalRecord(handle) EXCEPT !.phase = "finalizing"])

ReleaseElection ==
  /\ Replacing /\ Phase = "finalizing" /\ Unlink(Election(handle)) /\ Stays

DropJournal ==
  /\ Replacing /\ Phase = "finalizing" /\ ~Has(Election(handle))
  /\ Unlink(Journal(handle)) /\ Proceeds("release")

(* Slip: the quarantine of the dead claim is left where it is. *)
ReplacedInPart ==
  /\ Replacing /\ handle = 0 /\ HasClaim(me)
  /\ Proceeds("release") /\ Untouched

Replaced ==
  /\ Replacing /\ handle = 0 /\ HasClaim(me) /\ ~Has(Quarantine(stale))
  /\ Proceeds("release") /\ Untouched

GiveUpHandoff == at = "release" /\ Unlink(HandoffFile) /\ Proceeds("quarantine")

(* quarantineOwnedPreparationLock: the directory is renamed away; what is   *)
(* in it besides the owner, the claim and the claimant's transition makes   *)
(* its removal fail.                                                        *)
MoveAway ==
  /\ at = "quarantine" /\ HasClaim(me)
  /\ stale # 0 => Has(Transition(stale)) /\ By(Transition(stale)) = me
  /\ moved' = TRUE /\ at' = "done"
  /\ outcome' = [outcome EXCEPT ![me] =
       IF DOMAIN dir = {ClaimFile} \cup (IF stale = 0 THEN {} ELSE {Transition(stale)})
         THEN "acquired" ELSE "leftovers"]
  /\ Untouched /\ UNCHANGED <<me, stale, handle, goal, undone>>

-----------------------------------------------------------------------------

RecoverStep(s) ==
  \/ \E c \in Candidates(s) : DropCandidate(c)
  \/ RecoverSwap(s) \/ TakeUp(s) \/ DropOrphan(s) \/ Elect(s) \/ Electing(s)
  \/ OpenJournal(s) \/ Opened(s) \/ Remove(s) \/ Advance(s) \/ CompleteOwn(s)
  \/ Adopt(s) \/ Resume(s) \/ Dismiss(s) \/ DismissJournal(s)
  \/ \E k \in {"t", "q"} : ClaimArtifact(s, k)
  \/ \E p \in IF Begun(s) THEN ToUnlink(s) ELSE {} : Undo(s, p)
  \/ at \in {"work", "replace"} /\ Swapping(s) /\ SwapStep(s)

ReplaceStep ==
  \/ Announce \/ InstallTransition \/ RecordTransition \/ QuarantineClaim
  \/ RecordQuarantine \/ UnlinkDeadClaim \/ Succeed \/ DropQuarantine \/ Finalize
  \/ ReleaseElection \/ DropJournal \/ Replaced

ClaimantStep ==
  \/ WriteHandoff \/ RecoverHandoff \/ WriteClaim \/ FindClaim
  \/ \E s \in Claimants : RecoverStep(s)
  \/ RecoveredAll \/ ReplaceStep \/ GiveUpHandoff \/ MoveAway

(* The next run of the command finds the directory as it is. *)
NextClaimant(how) ==
  /\ outcome' = [outcome EXCEPT ![me] = how]
  /\ IF me < MaxClaimants THEN me' = me + 1 /\ at' = "arrive"
                          ELSE at' = "done" /\ UNCHANGED me
  /\ stale' = 0 /\ handle' = 0 /\ goal' = Nil /\ undone' = FALSE
  /\ writing' = {} /\ UNCHANGED <<inodes, moved>>

(* Only the last claimant is sure to stay alive. *)
ClaimantDies ==
  /\ at # "done" /\ me < MaxClaimants /\ NextClaimant("died") /\ UNCHANGED dir
  /\ torn' \in {torn, torn \cup writing}

Stuck == at # "done" /\ ~ENABLED ClaimantStep

(* A check that fails raises, and the handoff is released if there is a     *)
(* claim.                                                                   *)
Refuses ==
  /\ Stuck
  /\ NextClaimant("refused") /\ UNCHANGED torn
  /\ dir' = IF Has(ClaimFile) /\ Has(HandoffFile) /\ By(HandoffFile) = me
              THEN [x \in DOMAIN dir \ {HandoffFile} |-> dir[x]] ELSE dir

CleanupNext == ClaimantStep \/ ClaimantDies \/ Refuses

CleanupSpec == CleanupInit /\ [][CleanupNext]_cleanupVars

-----------------------------------------------------------------------------

(* The three ends a recovery cannot tell from interference: a handoff       *)
(* before there ever was a claim, a file the journal still lists that is    *)
(* gone, and an empty file ("is missing or invalid").                       *)
NothingClaimedYet == at = "arrive" /\ ~Has(ClaimFile) /\ Leftovers = {}
ListedIsGone(s) ==
  /\ at = "work" /\ Has(Journal(s))
  /\ \/ \E k \in Kinds(JournalRecord(s).artifacts) : ~Has(Artifact(k, s))
     \/ \E k \in Kinds(JournalRecord(s).claims) : ~Has(ClaimedName(k, s))

FoundEmpty ==
  IF at = "arrive" THEN torn \cap {HandoffFile, ClaimFile} # {}
                   ELSE at = "recover" /\ torn # {}

Died == {c \in Claimants : outcome[c] = "died"}

(* One process that dies while it replaces the claim of another leaves a    *)
(* directory the next run recovers: it refuses only in those three cases.   *)
TwoDeathsAreRecovered ==
  Stuck /\ Cardinality(Died) <= 2
    => NothingClaimedYet \/ FoundEmpty \/ \E s \in Claimants : ListedIsGone(s)

(* Who has the recovery claim: the successor from the moment on in which   *)
(* the claim of the dead claimant is unlinked.                             *)
ClaimHolder ==
  IF Has(ClaimFile) THEN By(ClaimFile) ELSE IF Leftovers = {} THEN 0 ELSE By(HandoffFile)

(* Whatever the processes that died have left, the claim changes hands only *)
(* to the claimant that runs: the many files of a replacement (transition,  *)
(* quarantine, handoff, journal) are together one take-over.  A file that   *)
(* is still empty counts as its maker's.                                    *)
ClaimIsHandedOver == [][ClaimHolder' # ClaimHolder => ClaimHolder' = me]_cleanupVars

(* A directory that lost its claim on the way to another claimant says      *)
(* whose it is in files that can be read: one transition, made by the       *)
(* process of the handoff ("no exact recoverable successor evidence",       *)
(* "transition set is ambiguous").                                          *)
SuccessorIsNamed ==
  ~Has(ClaimFile) /\ Leftovers # {} =>
    /\ Readable(HandoffFile)
    /\ \E s \in Claimants : /\ Transitions = {s} /\ Readable(Transition(s))
                            /\ By(Transition(s)) = By(HandoffFile)

(* The directory renamed away holds only what its mover removes itself, so  *)
(* that its removal never fails, whatever earlier claimants had left in it  *)
(* (cleanupPreparationLockDirectory only removes an empty directory).        *)
NothingIsInTheWay == \A c \in Claimants : outcome[c] # "leftovers"

=============================================================================
