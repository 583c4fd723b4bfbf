# Review Anchor: a verification development in TLA+

Review Anchor asks the customers of a local business for a Google review, by
SMS or e-mail, and bills the business for it.  It is a Fastify API
(`src/server/app.ts`, `ingress.ts`), a worker that loops over jobs
(`src/server/worker.ts`), a PostgreSQL database whose plpgsql commands hold
most of the logic (`src/database/migrations`), a React front end
(`src/src/App.tsx`), and commands that an operator runs to provision its staging
environment (`src/scripts/cloudflare`).  Three things make it hard: messages
that cost money and annoy people are sent by processes that may die at any
moment, through providers whose answers may be lost; a page in the browser has
many calls under way while its route and its rights change; and secrets are
rotated on a disk where any call may fail.  That is what these modules are about.

Everything here is translated from the code, not from its documentation; where
the two disagree, a run shows it (section 5).

## 1. The parts of the system

| Part | State it keeps | Operations | What makes it right |
|---|---|---|---|
| Message dispatch (001, 003, `worker.ts`, `providers/delivery.ts`) | `message_jobs`, `message_outbox`, `message_attempts`, pauses | claim, authorize, defer, payload and attempt, send, finish, resolve, pause, lift, disconnect | the three tables agree; a message is not sent twice; a lost outcome is never retried blindly; a lease fences; a pause stops |
| SMS allowance (004) | `billing_accounts`, `sms_usage_reservations`, `sms_usage_alerts` | reserve, hold, settle (trigger), roll the period, alert | what is reserved and used stays within the allowance; what the provider has is charged once; alerts are complete |
| Review request pacing (003) | `review_requests`, follow-up jobs, payloads, suppressions | create, decide, follow up (trigger), suppress, disconnect, reconnect | caps and gaps hold; messages come one by one; a live request is not forgotten |
| Stripe billing (005, `providers/stripe.ts`) | checkout attempts, events, the account | prepare, create, bind, apply event | active means paid; late events change nothing; who paid gets active |
| Google connection and sync (003, `providers/google.ts`) | OAuth states, connections, sync leases, reviews | start, consume, save, claim, upsert, complete, fail, disconnect | nothing survives a disconnect; a sync stores what it saw; no reconnection without consent |
| Google token revocation (003) | a queue of refresh tokens | enqueue, claim, finish | a token leaves the queue only when revoked |
| Memberships and agency grants (001, 011, two pages of the front end) | memberships, grants, e-mail tickets, claims | change a membership; request, accept, reject, revoke, expire, issue, consume, select | no business without an owner; a claim is worth one grant |
| Signup (010) | signup intents, users | count, issue, follow, register | mails are limited; an address gets one account |
| The workspace: `App.tsx`, `platform/api.ts`, `routing.ts`, with sessions and support access (001, 009, `routes/support.ts`, `routes/auth.ts`, `repository/postgres.ts`) | page, route, access, cookie, support sessions | load, refresh, sign in, sign out, begin, end, expire, write, correct the route | a tenant is shown only after a grant; late answers do not win; the page comes to rest |
| Staging preparation (`scripts/cloudflare/provision.ts`) | files of a rotation, journal, lock directory | lock, recover a dead owner's lock, open, stage, replace, commit, roll back, clean | files rotate at once or not at all; one process at a time; no copy of a secret is left |
| Hyperdrive provisioning (same file) | account evidence, bindings | list, create, reconcile, bind, clean up | one resource per binding; only own resources are removed |
| Ingress and QR flow (001, 002), delivery webhooks, audit log, migrator and bootstrap, SMS segmentation, cryptography, entry points | - | - | not modelled, see section 6 |

On the server the parts interact through the database only.  The worker claims
jobs and calls one command after another, each a transaction of its own;
triggers carry a change from `message_jobs` to `review_requests` and from
`message_outbox` to `sms_usage_reservations`; the API's commands change the
same rows; Stripe, Twilio and SendGrid call webhooks.  The page interacts with
the server through its calls, the cookie and the header of its support session.
The behaviours that are hard:

* a worker dies, or outlives its lease, between any two transactions;
* a provider takes a message and its answer is lost, or cannot be read;
* operators, disconnects, pauses and opt-outs happen between two steps of a
  worker that has already decided;
* transactions overlap under READ COMMITTED: each sees only what is committed;
* Stripe reports what happened in any order, more than once;
* the answer of a call reaches a page that has moved on;
* a command stops between two renames, or after a call whose answer it never got,
  and the next run finds what is left, maybe left by several dead runs.

`PROJECT.json` lists the hazards at their lines, with the properties that watch
them.

## 2. The modules

    MessageLifecycle   what dispatch promises of each message (abstract)
          ^  implemented by (INSTANCE ... WITH)
    MessageDispatch    queue, workers, providers            MessageDispatchProofs
          ^  EXTENDS
    SmsAllowance       + the meter                          SmsProofs
    SmsLedger          the meter, statement by statement    SmsProofs
    ReviewCadence      caps, gaps and follow-ups            ReviewCadenceProofs
    GoogleSync         OAuth, connection, review sync       GoogleProofs
    TokenRevocation    tokens of old connections            GoogleProofs
    StripeBilling      Checkout, events, the account        AccountsProofs
    ClientAccess       memberships, grants, claims          AccountsProofs
    Signup             links and registrations              AccountsProofs
    WorkspaceShell     the page and its calls, logins,      WorkspaceShellProofs
                       support sessions
    SecretRotation     what a rotation of the files promises (abstract)
          ^  implemented by
    PreparationTransaction   the journal                    StagingProofs
    PreparationLock    the lock, its handoff and claim      LockProofs
    RecoveryCleanup    the directory of a dead lock,        LockProofs
                       file by file
    HyperdriveProvision      evidence, creation, binding    StagingProofs

The MC modules give values to constants a configuration cannot write, and put
several components into one run.  The components of `MCOperations`, `MCBusiness`
and `MCAccounts` share no variable with the others of their run, so there a
variable `focus`, fixed at the start, says which one moves while the rest are
at their beginning: such a run has the sum of their states, not the product.
What does interact is composed in the modules themselves: dispatch with its meter,
decisions with follow-ups and disconnects, page with server.

Operators marked *Slip* are not part of the models: each is a plausible wrong
version of the definition near it, and putting it in the definition's place
breaks the property named in `PROJECT.json`.  They show that each property
depends on the code.

### MessageDispatch

One action per database command or step of the worker's loop.

| Variables | Code |
|---|---|
| `jobStatus`, `attemptCount`, `due`, `lease`, `leaseLive` | `message_jobs.status`, `.attempt_count`, `run_at <= now()`, `.lease_token`, `leased_until > now()` |
| `outbox`, `attempts` | `message_outbox.status`, `message_attempts.status` by number |
| `paused` | jobs a live row of `tenant_pauses` covers |
| `pc`, `held`, `current`, `attemptNo`, `result` | where `runDeliveryCycle` is: the batch it claimed with the tokens it was given, the job in hand, its attempt, the result it is about to record |
| `taken`, `late`, `misread` | what the provider has received, which of it was sent after the lease had moved on, and which of it was answered in a way its adapter takes for a failure |

`Claim` is `claim_message_jobs` whole: the quarantine of leases that ran out
while sending, and the lease of those that are due.  `StartAttempt` is
`get_message_dispatch_payload` with `ensure_message_outbox` and
`start_message_attempt`, in the one transaction they are in; that it can raise
anywhere is `Abandon`: the worker catches and goes on to the next job.
`Prepare`, `Hold` and `HoldRaises` are the work on an SMS before it is sent.
`Send` is the provider call: the provider gets the message or does not, and
whatever it answers is classified by `TwilioResult` and `SendGridResult` as in
`delivery.ts`.  Three answers of a provider that has the message are recorded as a
definite failure there (`Misleading`): an unreadable server error of Twilio, a
readable success of Twilio without a string `sid`, and a success of SendGrid other
than 202 (the last two are `accepted_unexpected`).  A message answered so is sent
again; the properties about single delivery, dead letters and charges leave it out
by name (`misread`), as they leave out late sends, and disagreement 2 is about it.
`Finish` and `Resolve` are the commands of these names;
`LeaseExpires` and `BecomesDue` are the clock; `Crash` loses the worker's memory
and nothing else.  Expiry may come at any time, so a lease lasts as short as
TLC likes.  Tokens are drawn fresh from a finite set (`FreshToken`) once no row
and no worker holds them: `gen_random_uuid`.

### SmsAllowance and SmsLedger

`SmsAllowance` is dispatch with the meter: `Prepare` becomes `MeteredPrepare`,
where `reserve_sms_segments` decides between send and hold, and every step
that changes an outbox row also settles its reservation, as the trigger does.
Periods roll and the subscription may lapse in between.  There the reservation
is one step because the account row is locked; `SmsLedger` opens it up
statement by statement to show that the lock is what makes it one, and that
the alerts, which take no lock, are not.  What is committed is counted one
segment at a time, as the size of a set.

### ReviewCadence

Several requests of one business and channel, each with the jobs of its
sequence.  Leases are left to `MessageDispatch`; what is in focus is what the
decision *sees*.  The payload transaction is two steps (`BeginAttempt`,
`CommitAttempt` or `AbortAttempt`), and so is the disconnect, which reads the
jobs to cancel before it blocks their requests.  The trigger
`advance_review_request_after_delivery` is part of every step that completes a
job (`Complete`).  Time is `now`; windows, gaps and quiet hours are small
numbers.  A decision reads its time when its statement begins and then waits for
the lock of its location, so what it goes by may be `LockWait` old by the time
it counts (`Began`), and attempts may bear their times out of order.  `doubted`
remembers attempts whose outcome was unknown: the code stops counting those for
its rate limits, so the cap is stated without them; like the count of the code,
it is about the *other* requests of a customer (`HeardBefore`).

### StripeBilling

The application (`PrepareCheckout`, `CreateSession`, `Bind`, `Deliver`), and Stripe as
its client sees it: sessions that complete or expire, payments that take their
time, renewals that fail, and a growing set of events, any of which may be
delivered at any time, again too.  `AfterEvent` is
`apply_stripe_billing_event`, statement for statement; an event it raises on
is not recorded, as the transaction rolls back and the route answers with an
error.  `SecondPasses` is the clock Stripe stamps its events with, and
`StrictClock` says that a subscription does not change twice within one second.
`Emit` may add two events in one step: Stripe reports a completed Checkout and
the subscription it made.

### GoogleSync and TokenRevocation

`GoogleSync` is one location of a business.

| Variables | Code |
|---|---|
| `listed` | the reviews Google would list now |
| `consent` | per OAuth flow, the row of `google_oauth_states` and the callback that works with it |
| `link`, `secret` | `integration_connections` and the two tokens of `integration_secrets`, each named after the flow it comes from |
| `profile`, `due`, `lease`, `leaseLives` | `google_profile_locations`: the profile, `next_sync_at <= now()`, `sync_lease_token`, `sync_leased_until > now()` |
| `stored` | `review_records`, as the ids of the reviews they hold |
| `at`, `job`, `seen`, `todo`, `ok` | where `synchronizeDueGoogleConnections` is with a claim |
| `hinted`, `renewed` | what the properties remember |

A flow is `open` while its state can be consumed, `granted` from then until its
callback saves, `void` when a save or a disconnect deleted its row under a
callback that is still under way, and `over` after that.  The save is two steps, as
nothing locks the row it looks for: `CheckGoogleAuthorization` is the look (003:1419),
after which the flow is `passed`, or `overtaken` once its row is deleted, and
`SaveGoogleConnection` is the rest, from the insert that may have waited for
a disconnect to commit (003:1470).  A step of the worker
is one command or one call of Google; everything else may come in between.
`UpsertGoogleReview` asks, as the code does, for *some* running lease of the
location, and `FinishGoogleReviewSync` for the exact one: the interplay of the
two is what `DisconnectErases` and `SuccessIsTheListing` are about.  A lease
token is new to every claim, so the model needs only its owner: once a worker
has dropped a claim its token becomes `Gone`, which nobody holds.

In `TokenRevocation`, `queue`, `tries`, `ready`, `lapsed`, `leasedTo` and
`running` are the columns of `oauth_token_revocations`; `valid` is what Google
still honours; `batch`, `inHand` and `revoked` are the worker's.
`ClaimRevocations` is the claim whole, with the leases that ran out going back
to the queue.  `RevokeToken` may reach Google and lose the answer.  Nothing
catches what `finish_google_token_revocation` raises, so `FinishRaises` ends the
process with what is left of its batch.

### ClientAccess and Signup

`ClientAccess` has the memberships of businesses and what an agency is granted
by them.  `set_business_membership` and `select_agency_client_claim_location`
read, then write, under a lock: each is two steps (`ExamineMembership`
and `WriteMembership`; `PickPlace` and `GrantPicked` or `PickFails`), so that what
the lock is for can go wrong.  The other commands on grants (`RequestGrant`,
`AcceptGrant`, `RejectGrant`, `RevokeInAgency`, `RevokeAsClient`), on the tickets
sent by e-mail (`IssueTicket`, `ConsumeTicket`) and on claims (`IssueClaim`,
`ConsumeClaim`) are one step.  `grant`, `tickets` and `claim` are the three tables,
`page` is what `ClientLocationSelector` holds in each tab and `selected` what
`ActiveAgencyGrantControls` does.

`Signup` does the same for the count of recent links and the search for the
address (`CountLinks`/`IssueLink`, and the registration in two steps); `stage`
follows an intent from there to a user.  A mail may fail after its row was
committed, and the answer that carries the verification cookie may be lost.

### WorkspaceShell

`tab` is what `AppShell` holds: state, account, support session, access, route,
the header that `api.ts` sends, and a slot for each kind of call under way.
`cookie` and `sessions` are the server's.  A call is sent with what the page has
at that time, served later (`Serve`, which may fail), and resumed later still
(`GoesOn`), with the checks the code makes when it resumes and no others: the
`active` flag of the load effect, the comparison of session ids at an expiry, or
none at all.  `Canonical` is what the two effects that correct the route agree on.

### The staging commands

`PreparationTransaction` has the disk (`files`, `journal`, `entries`, `existed`,
`staged`, `backup`, `restoring`) and the process (`doing`, `mode`, `status`, `left`).
A step is one call that changes the disk; any may fail, and then the handler of the
code runs as a part of the model, whose calls may fail in turn.  `AfterRecovery`
is the refinement mapping: the files as they are once the next run has recovered
the journal.

`PreparationLock` has the lock directory of each owner, reached by its path: a
step of a claimant may land in another directory than the one it has looked at.
`handoff`, `claim` and `transition` are the files, `judged` the dead process whose
handoff or claim a process has read.  Wherever the code compares a file and then
unlinks it by its path there are two steps: a dead handoff (`CompareHandoff`,
`UnlinkDeadHandoff`), a dead claim (`CompareDeadClaim`, `UnlinkClaimOfDead`), the own
handoff and the own claim.  A claim is restored for a dead process of the handoff in two steps
as well (`JudgeHandoff`, `RestoreClaim`).  What is left of a dead claimant besides is one
step there (`JudgeClaim`), since every file it removes carries that claimant's name.
`RecoveryCleanup` is that directory file by file, with inodes and link counts:
what the code does with the claim, transition, election, journal and quarantine
files of claimants that died in any place, themselves maybe while recovering
from one that died before.  `writing` is the file the last call has created and `torn`
the files a death left empty: `writeFile` creates, then fills.  An empty file is refused by
whoever has to read it (`Readable`), for ever.

`HyperdriveProvision` has the account with neighbours that create and delete
resources of the same names, a listing that lags, the evidence on disk and its
copy in memory.

## 3. The runs

| Run | Shows | Bounds |
|---|---|---|
| `dispatch_two_channels` | an e-mail and an SMS in one batch: completed means delivered, dispatch implements `MessageLifecycle`; no attempt stays in flight (`SendingIsDecided`) and every job is settled (`EventuallySettled`) | 2 jobs, 1 worker, 2 attempts, 2 tokens; no answers of unexpected form |
| `operations`, focus messages | every message charged once, in its period, over a period's turn | 2 SMS of 1 and 2 segments, of which the longer is tried once, allowance 2, 1 worker with a batch of 2 |
| focus workers, email | an SMS under the meter, or an e-mail, with a takeover in the middle and successes of unexpected form: one delivery per message, dead letters that never arrived, fencing, reservations that end with their attempts | 1 message, 2 workers, 2 attempts, 3 tokens, 2 periods |
| focus ledger | the account lock keeps overlapping reservations within the allowance | 4 attempts, 2 sessions |
| focus lock | a process that works on the files owns the lock | 3 processes, all mortal, and a fourth once a dead one has left the lock without a claim |
| focus cleanup | two claimants that die in any places leave what the next run recovers; whoever died, the claim passes only to the claimant that runs, a directory without a claim names its successor, and nothing is forgotten in it | 5 claimants, of which 4 may die, also in the middle of a write |
| focus transaction | the rotation implements `SecretRotation`; nothing is left behind | 4 files, 2 generations, 3 runs |
| focus hyperdrive | one creation per binding, own clean-up targets | 2 bindings of 2 configs, 3 resources |
| `business`, focus cadence | frequency cap, gap, order, live requests | 2 requests of 2 messages, 4 instants, one of them closed, a lock wait of 1 |
| focus sync | nothing survives a disconnect, tokens of one flow, syncs that store what they saw, hints not swallowed, consent | 2 workers, 2 flows, 2 profiles, 1 review |
| focus members, tickets, grants | the last owner; claims and tickets | 3 users, 2 places, 2 grants, 1 claim, 2 tabs, 2 changes |
| focus signup | links per address, accounts per address | 3 intents of one address, a limit of 2 |
| `accounts`, focus billing | active means paid, stale events are fenced, who paid gets active | 2 Checkouts, 5 events, 2 seconds |
| focus revocation | tokens deleted only when revoked; every revocation decided | 2 workers, 1 token, 2 attempts |
| focus shell | a tenant shown only under a grant, late loads, routes that settle | 2 accounts, 2 businesses, 3 locations, 2 moves, 2 support sessions |
| `dispatch_budget`, `dispatch_reading`, `ledger_overlap_alerts`, `cadence_two_locations`, `stripe_second_subscription`, `preparation_report`, `lock_late_claimant`, `shell_mislaid_location` | the disagreements below | as small as shows them |

`PauseStopsNewAttempts`, `WithinAllowance` and `OneTenantContext` are proved of every
instance (section 4), and no run repeats them.

Why the bounds are enough.  Jobs meet each other only through the worker's
batch and the meter, so one job with two workers shows every takeover (the old
worker, the new one, an operator), and two jobs with one worker show the batch
and the allowance, where one of the two retries is enough: the retries of the other
are in the focus workers.  Two attempts are the first, a retry and the limit.
There is a token for every worker and a fresh one.  Two rate-limited requests are
enough for a race, and the instants for a window, a gap and quiet hours.  Two
Checkouts of which each may complete, be paid late, renew and be cancelled
give every order of two facts; five events leave room for a change after both.
Two OAuth flows are the one that made the connection and the one that renews
it or is under way at a disconnect; with one profile that has a review and one
that has none, a review of the wrong profile would show.  The unexpected answers are in the runs with one message, where they are met by
retries, takeovers and operators; with two messages the answers documented by the
providers suffice, as messages do not meet through their answers, and the theorems are
about all answers.  Tokens to revoke do not meet; the proofs speak of any number of them.  A registration that races
needs two intents of one address, the limit a third.  Three processes are an owner
that dies and two claimants; restoring a claim takes a fourth, as owner, claimant and
replacer have died by then, and it comes only there (`ClaimIsMissing`).  The disagreement about
the lock needs six, which TLC reaches only with their roles fixed (`Roles`).  Of five claimants the
first leaves a claim, three die while they recover, each from what the ones before it left,
and the last finds the result.  In the shell `MaxMoves` counts what happens to the page, not its calls: a route
followed, a support session begun or ended, a login that ends, a call that fails.
Two of those, on top of any support session there was when the page was opened
and all the calls they cause, show an answer from before meeting a state from after.

Deadlock is checked where the workers loop (`dispatch_two_channels` and the two
runs of its disagreements).  Elsewhere it is off: clocks, attempts, events,
runs and moves are bounded there, and whoever is done stops.

**Fairness.**  `LivelySpec` assumes that a worker process goes on with the job
in hand (weak fairness of its steps; `main` loops for ever and is restarted),
that time passes (leases expire, `run_at` comes), and that a job which can be
claimed again and again one day is (strong fairness: the claim takes the
oldest first, and another job's claim may come in between).  Nothing is
assumed of crashes, pauses or operators.  `EventuallySettled` adds `KindWorld`:
pauses are lifted, and a job that is allowed again and again with its lease
running is one day put in flight; without it a job may be deferred for ever.
Its conclusion counts the jobs of disagreement 1 as an end of their own
(`Stranded`).
`RevocationFairness` assumes the same of the revoking workers; its conclusion
counts the tokens that no claim takes any more (`LeftBehind`) as an end of
their own.  `StripeFairness` says that Stripe repeats an event until it is
acknowledged.  `ShellFairness` says that calls end (some call that waits is served; a
failure is a move, of which there are finitely many) and that the page resumes,
which is the event loop of the browser.  The user is not assumed to do anything.

## 4. What is proved

Eight modules hold proofs that TLAPS checks, for any values of the constants
that meet the assumptions the modules name.

| Module | Theorem | Says |
|---|---|---|
| `MessageDispatchProofs` | `TypeCorrect`, `InvariantHolds`, `TablesAgree` | the columns keep their ranges; `[]IInv`; jobs, outbox and attempts never contradict each other |
| | `NoDuplicateDelivery` | at most one attempt of a message is taken in order: sent in time, and not misread |
| | `CompletedMeansDelivered`, `DeadLetterMeansUndelivered` | the final states tell the truth; of a dead letter no attempt was taken in order |
| | `PausesHold`, `LeasesFence` | the two action properties |
| | `ImplementsLifecycle` | dispatch implements `MessageLifecycle` |
| `SmsProofs` | `LedgerStaysWithinTheAllowance` | `NeverOvercommitted`, statement by statement |
| | `MeteredDispatchIsDispatch`, `MeteredDeliversOnce` | `MeterSpec => Spec`, so what holds of dispatch holds under the meter |
| | `MeterInvariant`, `AllowanceIsKept` | the inductive invariant, `WithinAllowance` |
| | `ReservationsFollow`, `DeliveryIsCharged` | `ReservationsFollowOutbox`, `DeliveredIsCharged` |
| `ReviewCadenceProofs` | `ProgressInvariant`, `MessagesFollowOneAnother` | the inductive invariant, `OneMessageAtATime` |
| | `LiveRequestsAreServed`, `TheGapIsKept` | `LiveRequestsHaveWork`, `GapKept` |
| | `CustomersAreNotCrowded` | `DestinationCapKept`, if all requests of a customer are of one location |
| `GoogleProofs` | `SyncInvariant`, `NothingIsLeft`, `TokensAreNotMixed` | the inductive invariant, `DisconnectErases`, `SecretsAreOfOneGrant` |
| | `SyncStoresWhatItSaw`, `HintsAreKept`, `ConsentComesFirst` | the three action properties |
| | `RevocationInvariant`, `OnlyRevokedIsDeleted`, `RevocationLeasesFence` | a token leaves the queue only when revoked; only its process changes a leased row |
| `AccountsProofs` | `OwnersRemain`, `ClaimsAreGrantedOnce` | the last owner stays; a claim is worth one grant |
| | `LinksStayWithinTheLimit`, `AddressesGetOneAccount` | `MailsAreLimited`, `OneAccountPerAddress` |
| | `ActiveAccountsArePaid` | `ActiveIsPaid` |
| | `StaleUpdatesDoNotWin` | `StrictClock` implies `[]StaleUpdatesAreFenced` |
| `StagingProofs` | `OneCreatePerBinding`, `CleanupTargetsAreOwn` | `AtMostOneCreate`, `CleanupIsOwn` |
| | `TransactionInvHolds`, `NothingIsLeft`, `RotationIsAtomic` | the inductive invariant, `NothingLeftBehind`, and the refinement of `SecretRotation` |
| `LockProofs` | `HoldersKeepTheLock` | `[][ClaimsAreSettledInTime]` implies `[]HoldersOwnTheLock` |
| | `DeadTakeOversAreNamed`, `RecoveryLeavesNothing` | `SuccessorIsNamed`, `NothingIsInTheWay` |
| | `TakeOverIsAtomic` | the action property `ClaimIsHandedOver` |
| `WorkspaceShellProofs` | `AgentsHaveOneContext` | `OneTenantContext` |
| | `TenantsAreGranted`, `LoadsAreForTheRoute` | `TenantWasGranted`, and the action property `LoadsServeTheRoute` |

None of these properties is inductive as it stands.  What makes them so:

* **Dispatch** (`IInv`).  That a message is delivered once needs that a worker with
  the lease works on the newest attempt and that the outbox is `sending`
  (`WorkersAreRight`), that two workers are never in one attempt
  (`AttemptsAreOwn`), that a lease outside an attempt finds the outbox closed
  (`LeasesStartClosed`), that an attempt taken in order (in time, and not misread) is the
  newest and not recorded as failed (`ProviderAgrees`), and how the columns of the three tables
  go together (`RowsAgree`).
* **Ledger** (`LedgerInv`).  Who reserves has the lock of the account
  (`ReserversHaveTheLock`), and what it inserts still fits when it commits
  (`InsertedFits`); sums are sizes of sets (`Units`), so that fewer reservations never
  add up to more.
* **Meter** (`MeterInv`).  On top of `IInv`: a worker that may send has its newest
  attempt reserved (`SendersReserved`), what the provider took was reserved
  (`TakenAreReserved`), and only a reservation adds to a period (`Adds`).
  `MeterSpec` implements `Spec` with the same variables, so `IInv` need not be
  proved again.
* **Pacing** (`ProgressInv`, `CapInv`).  The gap holds from the decision on and not
  only of what is sent (`GapSinceDecision`), and jobs belong to requests and their
  sequences (`JobsAreOfRequests`).  For the cap: one decision at a time has the lock of
  a location (`OneDecision`), what it counted stays true until it commits
  (`DecisionStands`: in the window up to *any* later time no more others count), and
  an unknown outcome is a doubt for good (`UnknownIsDoubted`).  Its hypothesis
  `OneLocationEach` is where the lock is too narrow: without it the run
  `cadence_two_locations` refutes the property.
* **Google** (`SyncInv`).  The claim of the worker that has the lease is of the
  connection as it is now (`HeldClaimIsCurrent`: a save and a disconnect take
  the lease away), that worker has stored what it no longer has to store
  (`HeldListingIsStored`), and on a disabled connection a row that a save could find was
  consumed since (`PermissionIsNew`).
* **Revocation** (`RevocationInv`).  An answer in hand that counts as a revocation
  is of a revoked token (`AnswersAreTrue`); a lease that runs is on a leased row.
* **Billing** (`BillingInv`, `FenceInv`).  What the account shows was reported by an
  event and paid (`AccountIsReported`); events have numbers and times of their own
  (`AreEvents`).  For the fence: the newest event of a subscription carries the
  state Stripe has, and an account has never gone behind an event it has recorded.  That
  step is where one second for two changes would break the proof.
* **Memberships** (`MembersInv`).  One change of a business is under way at a time, and
  what its holder saw is still so when it writes (`OneChangeAtATime`, `LeavesAnOwner`).
* **Claims** (`ClaimsInv`).  A grant that comes from a claim is the one the claim
  names (`ClaimsNameTheirGrants`), and a page that picks works on a claim without a
  grant and alone (`PicksAreFirst`).
* **Signup** (`SignupInv`).  Who has counted has the address to itself and there is
  still room for its link (`CountsAlone`, `RoomIsKept`).
* **Hyperdrives** (`HyperdriveInv`).  An own resource of a binding exists only if
  the evidence on disk says the creation was attempted, since that is written before
  the call (`CreatesOK`), and the command knows what is on disk (`CommandOK`).
* **Rotation** (`TransactionInv`).  The process knows its journal; the directory holds
  only what belongs to an entry not yet cleaned up (`HoldsEntriesOnly`); while it stages
  and replaces, backups are what it found and staged files what the rotation makes of
  it (`RotatesWhatItFound`); while it rolls back, what is visited is restored
  (`RestoresBackups`).  Seen through `AfterRecovery` every step is then a
  stutter except the one that marks the journal committed, which is `Rotate`, and the
  operator's `Discard`.
* **Lock** (`LockInv`).  Who is about to rename the directory away has looked at its
  owner, found it dead, and has the claim in that same directory (`ReclaimersAreRight`); who
  undoes its claim still has it in the directory at the path (`UndoersHaveTheClaim`), and who
  unlinks a dead claim has that one there, with its own transition beside it
  (`ReplacersHaveTheClaim`).  One process at a time announces itself for a dead claimant
  (`OneSuccessor`), and a transition that lies in another directory than the one at the path was
  made for a claimant that has nothing there (`AnnouncedAreElsewhere`); so a compare that
  succeeds was made in the right directory.  That the directory stays the right one until
  the unlink is not the code's doing: between the two calls it may be renamed away and another
  process install its own, which is disagreement 7.  `ClaimsAreSettledInTime`
  excludes that: no owner releases the lock while a process is between comparing and unlinking
  a claim, be it its own or a dead one, and nobody renames the directory away while a process
  is between judging a handoff and restoring the claim for it.  That a *reclaimer* does not
  rename the directory away in the first of these windows needs no hypothesis, since it has
  the claim.  Nothing is assumed of the handoff: it may be unlinked under a live process, and
  the claim still decides.
* **Recovery** (`CleanupInv`).  The claim changes hands through up to a dozen files, and
  any of them may be left by any of the dead.  Three facts carry the proof.  Nobody
  made a claim or a transition after the claimant that runs, and until it begins to replace
  the claim, all of them are of earlier ones (`FilesAreOld`); so a
  claimant that arrives and finds no claim finds no leftovers either (`ClaimIsFirst`), and
  may simply write its own.  An own election retains, and an own
  journal lists, every artifact and every claimed name that is still there
  (`ElectionIsFull`, `JournalIsFull`, through the compare-and-swap of the journal as well), so
  that a clean-up that reports `complete` has left nothing.  And the replacement has an
  order (`ReplacesInOrder`): a quarantine, or the end of the dead claim, comes after
  the transition that names the successor, and a journal is final only once the claim is the
  successor's.  Every step before the replacement leaves claim and handoff alone and makes
  no transition (`Cleans`).  For `SuccessorIsNamed` two parts are shown apart: that handoff and
  transition are there (`SuccessorIsThere`, a part of `CleanupInv`), and that they have their
  contents (`NamesHaveContents`): a transition is linked only once its candidate was read, and
  an empty handoff lets nobody get as far as removing a claim.

* **Workspace** (`ShellInv`).  A support session is started beside none that is open
  (`OneOpenEach`).  What the page holds and every answer on its way to it says only
  what the server granted to the account that it names (`Honest`); sessions are ended, never
  taken out, so a grant stays one (`Extends`).  The load under way is the one
  of the route (`LoadIsForRoute`), and a step that opens the workspace leaves the superseded
  load alone (`Steps`).

Each action has a lemma, and under it a step per conjunct that the action can
disturb.  The proofs rest on the named assumptions on constants, which TLC
evaluates in the runs, and on nothing else; `StaleUpdatesDoNotWin` has the
hypothesis `StrictClock` besides, `CustomersAreNotCrowded` `OneLocationEach`, and
`HoldersKeepTheLock` `ClaimsAreSettledInTime`: each is what the code takes for granted, and
a run or a limit in section 5 shows the property false without it.

`PreparationLock` has what dead claimants left as one file, the transition.
`TakeOverIsAtomic` is why it may: seen through `ClaimHolder` the files of
`RecoveryCleanup` are one claim that changes hands in one step, whoever died where.

Only model-checked: `TwoDeathsAreRecovered`, which says when a claimant refuses and so is
stated with `ENABLED`, out of TLAPS's reach; and liveness under fairness, which is out of its
reach too:
`SendingIsDecided`, `EventuallySettled`, `RevocationIsDecided`,
`PayingGetsActive` and `RoutesSettle`.

## 5. Disagreements between the code and what is said of it

1. **A held SMS may be stranded** (`dispatch_budget`).  A hold sets the job to
   `retry` also when it has no attempt left; the claim never takes it, and it
   is not a dead letter either.
2. **Some answers of a provider that has the message count as a definite failure**
   (`dispatch_reading`).  Twilio's body is looked at before the status, so a
   server error that cannot be read is `failed`; so is a success without a `sid`, and
   a success of SendGrid other than 202.  The message is retried although it may have
   arrived.
3. **Overlapping settlements miss an alert** (`ledger_overlap_alerts`).
4. **The frequency cap does not hold over two locations**
   (`cadence_two_locations`).  The lock is per location, the count is not.
5. **A second subscription can never be recorded**
   (`stripe_second_subscription`).  Another Checkout is allowed while the
   account is inactive or cancelled, and the account keeps its first
   subscription for ever; the business pays and stays inactive.
6. **A committed rotation is reported as rolled back** (`preparation_report`).  When
   the clean-up after the commit fails once, the handler repeats it and ends
   with the words "all prior replacements were rolled back".
7. **Two processes may take over one lock** (`lock_late_claimant`).  The claim file
   is compared and then unlinked by its path; a claimant held up between the
   two unlinks the claim of a later one.  The same two calls remove a dead claim that is
   replaced (`provision.ts:3444`).
8. **A bookmark with a location of another business never opens**
   (`shell_mislaid_location`).  The page navigates to the route it is on, and
   nothing loads again.

Some limits are stated rather than run.

* Events carry whole seconds, and within one second the more severe subscription
  state wins, also when it is the older: `StaleUpdatesAreFenced` is checked and proved
  with `StrictClock`, and TLC refutes it without.
* `DeliveredOnceUnderLease`, `DeadLetterNeverArrived` and `DeliveredIsCharged` do not
  hold of a message sent after its lease had run out and moved on: nothing asks for the
  lease between the payload and the provider call (`late`).  The lease is far longer than a
  send.  Nor do they hold of a message whose answer was misread (`misread`, disagreement 2).
* `ReconnectNeedsConsent` leaves out a save that had looked for its authorisation before a
  disconnect deleted it: the look takes no lock (003:1419), the insert that follows waits for
  the row the disconnect holds and then sets `disabled_at` to null (003:1477), so the late
  callback does bring the connection back.  TLC shows it without the exception.
* A Google sync whose lease has passed on may store an older text of a review
  over a newer one, until the next sync.  A reconnection over a live connection
  replaces the old refresh token without queueing it for revocation.  A row of
  the revocation queue whose worker died on the last attempt, or whose seven days
  are over, stays `pending` and is never shown as failed.
* A membership taken away between the check of a claim's owner and the insert of its
  grant leaves the grant.  A grant that has run out and was not swept yet makes a new
  selection of its place fail, by the unique index.
* `TenantWasGranted` is said of a page whose workspace is the one of its session
  (`tab.holder = tab.session`).  The load effect sets the session it learns whether or not
  the load is still wanted (`App.tsx:1408`), so a superseded load that was answered before
  a sign-out may put its account beside the workspace of the account that signed in
  since.  It takes four moves: a link, a sign-out, a support session begun before the sign-out
  is answered, and a sign-in.  The server goes by its cookie and not by what the page
  believes.
* `TwoDeathsAreRecovered` names three cases the code refuses although one process
  more has died: a handoff file without any claim; an artifact unlinked before the
  journal that lists it was updated; and a file that was created and not yet filled
  (handoff, claim, a candidate, or the next journal: `FoundEmpty`), which needs one death
  only.  All leave the lock for the operator, as every later run refuses them too.
  With three or more deaths there are others.

## 6. What is not modelled, and why

* Ingress and the public QR flow: nonces and events are single inserts under unique keys.
* `renew_message_job_lease` and `has_agency_client_permission` are never called.
  `set_business_membership` is called by no TypeScript; it is modelled as the database offers it.
* Permission checks, policies, templates and caps: constants of a behaviour.
  Bundles and overage policies: `Allowance` is their sum.
* The audit log and retention, delivery webhooks: no other state depends on them.
* Row locks beyond those named: a command is one step, except where two commands
  can overlap with effect (`SmsLedger`, `ReviewCadence`, `ClientAccess`, `Signup`).
  Deadlocks are broken by PostgreSQL, which the models see as a command that raises.
* Google: the text, rating and reply of a review and the pages of a listing; the choice
  of a profile (a flow that stops for it is one that saves later); the 30-day purge.
* `ClientAccess`: one agency whose own members do not change, one e-mail ticket at
  a time, no disabled users; in the focus "grants" only one of the owners may be taken
  away.  `Signup`: what a registration creates beside the user is one with it;
  `server/onboarding/postgres.ts` is wired to nothing, `server/repository/postgres.ts` is.
* `WorkspaceShell`: one superseded load at a time (the slot "stale"), one cookie, no
  demo mode, no selection of a Google profile, no `agency_user`; views are the
  agency's, a tenant's and billing; rights are to read and to manage; a reload drops
  the calls under way.  Idle and absolute limits of a login are one event; MFA and step-up are left out.
* `RecoveryCleanup`: claimants come one after another (that live ones exclude each other
  is `PreparationLock`), and a call that fails does so in a process that dies; the
  retries on Windows, another host's lock and files replaced by outsiders are left out.
  `HyperdriveProvision`: no lock is taken by the code; one run at a time is assumed.
* Migrator, bootstrap, SMS segmentation (a pure function of the body), encryption,
  signatures, HTTP parsing, rendering, entry points and generated declarations.

## 7. Plan

Done: dispatch with its abstract specification, the meter, pacing, billing, the Google
connection and revocation, memberships, grants and claims, signup, the workspace, and the
staging commands; proofs of every safety property of a passing run but the one with
`ENABLED`.  Next:

1. `TwoDeathsAreRecovered` with the guards of each step written out, so that it can be
   proved as well.
2. `Ingress`: nonces, events and the QR flow; `SmsSegments` as a pure function; the
   migrator's order and checksums.

## 8. Running it

    tlc -workers 2 -config Dispatch_two_channels.cfg MessageDispatch
    tlc -workers 2 -config Business.cfg MCBusiness
    tlapm AccountsProofs.tla

`PROJECT.json` names module and configuration of every run.  With two workers
`operations` (1.1 million distinct states) takes about two minutes and `business`
(0.6 million) less than one; the proofs take some ten minutes together.
