---------------------------- MODULE MCOperations ----------------------------
(* What is metered and what is provisioned, in one run of modules that     *)
(* share no variable: only the one in focus moves.                         *)
EXTENDS SmsAllowance, MCSmsLedger,
        PreparationLock, RecoveryCleanup, PreparationTransaction, HyperdriveProvision

CONSTANTS
  Short, Long,    \* an SMS of one segment and one of two
  Email,          \* an e-mail
  Worker1,        \* the worker of all three
  Fourth          \* of the processes that contend for a lock

MCSegments == (Short :> 1) @@ (Long :> 2)
MCConfigOf == ("AUTH_DB" :> "application") @@ ("WORKER_DB" :> "jobs")

VARIABLE focus

smsVars == <<meterVars, ledgerVars>>
stagingVars == <<lockVars, cleanupVars, transactionVars, hyperdriveVars>>
mcVars == <<smsVars, stagingVars, focus>>

MCInit ==
  /\ MeterInit /\ LedgerInit
  /\ LockInit /\ CleanupInit /\ TransactionInit /\ HyperdriveInit
  /\ focus \in {"messages", "workers", "email", "ledger", "lock", "cleanup", "transaction",
                "hyperdrive"}
  /\ focus \in {"messages", "workers"} \/ billed    \* elsewhere it does not matter

(* Two messages, of which the long one is tried once, and one worker; two  *)
(* workers and the long message; or two workers and an e-mail.             *)
MessagesMove ==
  /\ focus = "messages" /\ MeterStep({Worker1}) /\ attemptCount'[Long] < MaxAttempts
  /\ ~due'[Email]
  /\ UNCHANGED <<ledgerVars, stagingVars, focus>>

WorkersMove ==
  /\ focus = "workers" /\ MeterNext /\ ~due'[Short] /\ ~due'[Email]
  /\ UNCHANGED <<ledgerVars, stagingVars, focus>>

EmailMoves ==
  /\ focus = "email" /\ MeterNext /\ ~due'[Short] /\ ~due'[Long]
  /\ UNCHANGED <<accountVars, ledgerVars, stagingVars, focus>>

LedgerMoves ==
  focus = "ledger" /\ LedgerNext /\ UNCHANGED <<meterVars, stagingVars, focus>>

(* A fourth process comes where one has died between unlinking the claim of *)
(* another and writing its own.                                             *)
ClaimIsMissing ==
  /\ lock # NoProcess /\ ~HasAClaim
  /\ handoff[lock] \in Announced(lock) /\ ~alive[handoff[lock]]

LockMoves ==
  /\ focus = "lock" /\ LockNext
  /\ lockStep[Fourth] = "install" /\ lockStep'[Fourth] # "install" => ClaimIsMissing
  /\ UNCHANGED <<smsVars, cleanupVars, transactionVars, hyperdriveVars, focus>>

CleanupMoves ==
  /\ focus = "cleanup" /\ CleanupNext
  /\ UNCHANGED <<smsVars, lockVars, transactionVars, hyperdriveVars, focus>>

TransactionMoves ==
  /\ focus = "transaction" /\ TransactionNext
  /\ UNCHANGED <<smsVars, lockVars, cleanupVars, hyperdriveVars, focus>>

HyperdriveMoves ==
  /\ focus = "hyperdrive" /\ HyperdriveNext
  /\ UNCHANGED <<smsVars, lockVars, cleanupVars, transactionVars, focus>>

MCNext ==
  \/ MessagesMove \/ WorkersMove \/ EmailMoves \/ LedgerMoves
  \/ LockMoves \/ CleanupMoves \/ TransactionMoves \/ HyperdriveMoves

MCSpec == MCInit /\ [][MCNext]_mcVars

=============================================================================
