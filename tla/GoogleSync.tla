----------------------------- MODULE GoogleSync -----------------------------
(***************************************************************************)
(* The Google connection of one location (migration 003, google.ts): it is *)
(* authorised through OAuth, saved, renewed and disconnected by people,    *)
(* while workers lease the location, refresh its token, list the reviews   *)
(* Google has and store them.  Notifications and requests only ask for     *)
(* another sync.                                                           *)
(*                                                                         *)
(* A step of a worker is one command or one call of Google; anything may   *)
(* happen between two of them.                                             *)
(***************************************************************************)
EXTENDS Naturals, FiniteSets

CONSTANTS
  SyncWorkers,   \* worker processes
  Profiles,      \* Google Business Profile locations the actor may choose
  Reviews,       \* ids of Google reviews
  ReviewsOf,     \* ReviewsOf[p]: those that are written on profile p
  Grants,        \* OAuth flows; the tokens of a flow are named after it
  NoProfile, NoGrant, NoWorker

ASSUME ProfilesAssumption ==
  /\ ReviewsOf \in [Profiles -> SUBSET Reviews]
  /\ \A p, q \in Profiles : p # q => ReviewsOf[p] \cap ReviewsOf[q] = {}
  /\ NoProfile \notin Profiles /\ NoGrant \notin Grants

Gone == "gone"   \* a lease token whose worker died or gave up

ASSUME WorkersAssumption ==
  NoWorker \notin SyncWorkers /\ Gone \notin SyncWorkers \cup {NoWorker}

VARIABLES
  \* Google
  listed,        \* reviews a listing returns now
  \* the connection
  consent,       \* consent[g]: the flow's state row and its callback
  link,          \* integration_connections: none, live, or disabled_at set
  secret,        \* integration_secrets: the flows its two tokens come from
  profile,       \* google_profile_locations, NoProfile when there is no row
  due,           \* next_sync_at <= now
  lease,         \* whose sync_lease_token it is
  leaseLives,    \* sync_leased_until > now
  stored,        \* review_records
  \* a worker in synchronizeDueGoogleConnections
  at,            \* the call it makes next
  job,           \* the connection as it was claimed
  seen,          \* the reviews Google listed
  todo,          \* those not yet stored
  ok,            \* no error so far
  \* what the properties remember
  hinted,        \* a sync was asked for since the last claim
  renewed        \* a state was consumed since the last disconnect

linkVars == <<consent, link, secret>>
rowVars == <<profile, due, lease, leaseLives>>
workVars == <<at, job, seen, todo, ok>>
memory == <<hinted, renewed>>
syncVars == <<listed, consent, link, secret, profile, due, lease, leaseLives,
              stored, at, job, seen, todo, ok, hinted, renewed>>

NoSecret == [access |-> NoGrant, refresh |-> NoGrant]
NoJob == [grant |-> NoGrant, profile |-> NoProfile]

(* open: the state is stored.  granted: it was consumed less than ten      *)
(* minutes ago and its callback is about to save.  void: the callback is   *)
(* still about to, but the row is gone.  passed, overtaken: the same, once  *)
(* the save has looked for a row.  over: nothing is left of the flow.      *)
Consents == {"none", "open", "granted", "void", "passed", "overtaken", "over"}

SyncInit ==
  /\ listed = {}
  /\ consent = [g \in Grants |-> "none"]
  /\ link = "none"
  /\ secret = NoSecret
  /\ profile = NoProfile
  /\ due = FALSE
  /\ lease = NoWorker
  /\ leaseLives = FALSE
  /\ stored = {}
  /\ at = [w \in SyncWorkers |-> "loop"]
  /\ job = [w \in SyncWorkers |-> NoJob]
  /\ seen = [w \in SyncWorkers |-> {}]
  /\ todo = [w \in SyncWorkers |-> {}]
  /\ ok = [w \in SyncWorkers |-> TRUE]
  /\ hinted = FALSE
  /\ renewed = FALSE

-----------------------------------------------------------------------------
(* Google, and the people who authorise and disconnect.                    *)

ReviewsChange(r) ==
  /\ listed' = (listed \ {r}) \cup ({r} \ listed)
  /\ UNCHANGED <<linkVars, rowVars, stored, workVars, memory>>

BeginGoogleOAuth(g) ==
  /\ consent[g] = "none"
  /\ consent' = [consent EXCEPT ![g] = "open"]
  /\ UNCHANGED <<listed, link, secret, rowVars, stored, workVars, memory>>

(* The callback, until it saves: the state works once. *)
ConsumeGoogleOAuthState(g) ==
  /\ consent[g] = "open"
  /\ consent' = [consent EXCEPT ![g] = "granted"]
  /\ renewed' = TRUE
  /\ UNCHANGED <<listed, link, secret, rowVars, stored, workVars, hinted>>

(* The rows a save or a disconnect deletes. *)
AllRowsDeleted(before) ==
  [g \in Grants |-> CASE before[g] = "open" -> "over"
                      [] before[g] = "granted" -> "void"
                      [] before[g] = "passed" -> "overtaken"
                      [] OTHER -> before[g]]

(* Slip: only the states nobody has used are deleted. *)
OpenRowsDeleted(before) ==
  [g \in Grants |-> IF before[g] = "open" THEN "over" ELSE before[g]]

RowsDeletedOnDisconnect(before) == AllRowsDeleted(before)

(* A row expires, is ten minutes old, or its callback fails at Google or   *)
(* in the save.                                                            *)
ConsentEnds(g) ==
  /\ \/ consent[g] \in {"open", "granted", "void", "passed", "overtaken"}
        /\ consent' = [consent EXCEPT ![g] = "over"]
     \/ consent[g] = "granted" /\ consent' = [consent EXCEPT ![g] = "void"]
     \/ consent[g] = "passed" /\ consent' = [consent EXCEPT ![g] = "overtaken"]
  /\ UNCHANGED <<listed, link, secret, rowVars, stored, workVars, memory>>

(* Slip: a reconnection leaves the lease of the row alone. *)
LeaseKept == <<lease, leaseLives>>

LeaseAfterSave == <<NoWorker, FALSE>>

ConsumedRowLeft == \E h \in Grants : consent[h] \in {"granted", "passed"}

(* save_google_connection_for_actor begins with a look, without a lock, for *)
(* a recent row of the actor; any will do.                                 *)
CheckGoogleAuthorization(g) ==
  /\ ConsumedRowLeft
  /\ \/ consent[g] = "granted" /\ consent' = [consent EXCEPT ![g] = "passed"]
     \/ consent[g] = "void" /\ consent' = [consent EXCEPT ![g] = "overtaken"]
  /\ UNCHANGED <<listed, link, secret, rowVars, stored, workVars, memory>>

AuthorizationRefused(g) ==
  /\ consent[g] = "void"
  /\ ~ConsumedRowLeft
  /\ consent' = [consent EXCEPT ![g] = "over"]
  /\ UNCHANGED <<listed, link, secret, rowVars, stored, workVars, memory>>

(* The rest of it, from the row of the connection on, which a disconnect   *)
(* or another save may have had locked: the rows are not looked at again.  *)
SaveGoogleConnection(g, p) ==
  /\ consent[g] \in {"passed", "overtaken"}
  /\ consent' = [AllRowsDeleted(consent) EXCEPT ![g] = "over"]
  /\ link' = "live"
  /\ secret' = [access |-> g, refresh |-> g]
  /\ profile' = p
  /\ lease' = LeaseAfterSave[1]
  /\ leaseLives' = LeaseAfterSave[2]
  /\ due' = TRUE
  /\ UNCHANGED <<listed, stored, workVars, memory>>

(* The requests it blocks are in ReviewCadence, the token it queues for    *)
(* revocation is in TokenRevocation.                                       *)
DisconnectGoogleConnection ==
  /\ link # "none"
  /\ link' = "disabled"
  /\ consent' = RowsDeletedOnDisconnect(consent)
  /\ secret' = NoSecret
  /\ profile' = NoProfile
  /\ due' = FALSE
  /\ lease' = NoWorker
  /\ leaseLives' = FALSE
  /\ stored' = {}
  /\ hinted' = FALSE
  /\ renewed' = FALSE
  /\ UNCHANGED <<listed, workVars>>

(* request_google_review_sync, record_google_pubsub_event *)
RequestGoogleReviewSync ==
  /\ link = "live"
  /\ due' = TRUE
  /\ hinted' = TRUE
  /\ UNCHANGED <<listed, linkVars, profile, lease, leaseLives, stored, workVars, renewed>>

-----------------------------------------------------------------------------
(* The worker.                                                             *)

(* The lease token is new to every claim, so a worker holds the lease only *)
(* through the claim it is working on.                                     *)

(* Slip: any lease that is running will do. *)
SomeSyncLease(w) == profile # NoProfile /\ leaseLives

HoldsSyncLease(w) == lease = w /\ leaseLives

Due == profile # NoProfile /\ link = "live" /\ due /\ ~leaseLives

ClaimGoogleReviewSync(w) ==
  /\ at[w] = "loop"
  /\ Due
  /\ lease' = w
  /\ leaseLives' = TRUE
  /\ due' = FALSE
  /\ at' = [at EXCEPT ![w] = "access"]
  /\ job' = [job EXCEPT ![w] = [grant |-> secret.refresh, profile |-> profile]]
  /\ ok' = [ok EXCEPT ![w] = TRUE]
  /\ hinted' = FALSE
  /\ UNCHANGED <<listed, linkVars, profile, stored, seen, todo, renewed>>

Fails(w) ==
  /\ ok' = [ok EXCEPT ![w] = FALSE]
  /\ at' = [at EXCEPT ![w] = "finish"]

(* accessTokenForConnection: the token is still good, or Google renews it. *)
AccessToken(w) ==
  /\ at[w] = "access"
  /\ \/ at' \in {[at EXCEPT ![w] = step] : step \in {"list", "save"}} /\ UNCHANGED ok
     \/ Fails(w)
  /\ UNCHANGED <<listed, linkVars, rowVars, stored, job, seen, todo, memory>>

(* Google may send a new refresh token along. *)
SaveRefreshedGoogleToken(w) ==
  /\ at[w] = "save"
  /\ IF HoldsSyncLease(w)
     THEN /\ secret' \in {[access |-> job[w].grant, refresh |-> g] : g \in {secret.refresh, job[w].grant}}
          /\ at' = [at EXCEPT ![w] = "list"]
          /\ UNCHANGED ok
     ELSE Fails(w) /\ UNCHANGED secret
  /\ UNCHANGED <<listed, consent, link, rowVars, stored, job, seen, todo, memory>>

ListReviews(w) ==
  /\ at[w] = "list"
  /\ \/ /\ seen' = [seen EXCEPT ![w] = listed \cap ReviewsOf[job[w].profile]]
        /\ todo' = [todo EXCEPT ![w] = seen'[w]]
        /\ at' = [at EXCEPT ![w] = IF seen'[w] = {} THEN "finish" ELSE "store"]
        /\ UNCHANGED ok
     \/ Fails(w) /\ UNCHANGED <<seen, todo>>
  /\ UNCHANGED <<listed, linkVars, rowVars, stored, job, memory>>

(* Slip: the mapping is not looked at. *)
AnyUpsert == TRUE

(* The check of upsert_google_review: some sync of the location is leased. *)
UpsertAllowed == profile # NoProfile /\ leaseLives

UpsertGoogleReview(w, r) ==
  /\ at[w] = "store"
  /\ r \in todo[w]
  /\ IF UpsertAllowed
     THEN /\ stored' = stored \cup {r}
          /\ todo' = [todo EXCEPT ![w] = @ \ {r}]
          /\ at' = [at EXCEPT ![w] = IF todo'[w] = {} THEN "finish" ELSE "store"]
          /\ UNCHANGED ok
     ELSE Fails(w) /\ UNCHANGED <<stored, todo>>
  /\ UNCHANGED <<listed, linkVars, rowVars, job, seen, memory>>

(* A claim the worker is done with; its token is of no use to anyone. *)
ClaimDropped(w) ==
  /\ at' = [at EXCEPT ![w] = "loop"]
  /\ job' = [job EXCEPT ![w] = NoJob]
  /\ seen' = [seen EXCEPT ![w] = {}]
  /\ todo' = [todo EXCEPT ![w] = {}]
  /\ ok' = [ok EXCEPT ![w] = TRUE]

(* Slip: the next sync is a quarter of an hour away. *)
NeverDueAfterSuccess == FALSE

DueAfterSuccess == due

StoredAndSeen(w) == stored \cap seen[w]

(* finish_google_review_sync; a failure is followed by a longer wait. *)
FinishGoogleReviewSync(w) ==
  /\ at[w] = "finish"
  /\ IF HoldsSyncLease(w)
     THEN /\ lease' = NoWorker
          /\ leaseLives' = FALSE
          /\ stored' = IF ok[w] THEN StoredAndSeen(w) ELSE stored
          /\ due' = (ok[w] /\ DueAfterSuccess)
     ELSE /\ lease' = IF lease = w THEN Gone ELSE lease
          /\ UNCHANGED <<leaseLives, stored, due>>
  /\ ClaimDropped(w)
  /\ UNCHANGED <<listed, linkVars, profile, memory>>

SyncCrash(w) ==
  /\ at[w] # "loop"
  /\ lease' = IF lease = w THEN Gone ELSE lease
  /\ ClaimDropped(w)
  /\ UNCHANGED <<listed, linkVars, profile, due, leaseLives, stored, memory>>

(* Time. *)
SyncLeaseExpires ==
  /\ leaseLives
  /\ leaseLives' = FALSE
  /\ UNCHANGED <<listed, linkVars, profile, due, lease, stored, workVars, memory>>

SyncBecomesDue ==
  /\ profile # NoProfile /\ ~due
  /\ due' = TRUE
  /\ UNCHANGED <<listed, linkVars, profile, lease, leaseLives, stored, workVars, memory>>

-----------------------------------------------------------------------------

SyncStep(w) ==
  \/ AccessToken(w) \/ SaveRefreshedGoogleToken(w) \/ ListReviews(w)
  \/ \E r \in Reviews : UpsertGoogleReview(w, r)
  \/ FinishGoogleReviewSync(w)

SyncNext ==
  \/ \E r \in Reviews : ReviewsChange(r)
  \/ \E g \in Grants :
       \/ BeginGoogleOAuth(g) \/ ConsumeGoogleOAuthState(g) \/ ConsentEnds(g)
       \/ CheckGoogleAuthorization(g) \/ AuthorizationRefused(g)
       \/ \E p \in Profiles : SaveGoogleConnection(g, p)
  \/ DisconnectGoogleConnection
  \/ RequestGoogleReviewSync
  \/ \E w \in SyncWorkers : ClaimGoogleReviewSync(w) \/ SyncStep(w) \/ SyncCrash(w)
  \/ SyncLeaseExpires
  \/ SyncBecomesDue

SyncSpec == SyncInit /\ [][SyncNext]_syncVars

-----------------------------------------------------------------------------

RowsTypeOK ==
  /\ listed \subseteq Reviews /\ stored \subseteq Reviews
  /\ consent \in [Grants -> Consents]
  /\ link \in {"none", "live", "disabled"}
  /\ secret \in [access : Grants \cup {NoGrant}, refresh : Grants \cup {NoGrant}]
  /\ profile \in Profiles \cup {NoProfile}
  /\ lease \in SyncWorkers \cup {NoWorker, Gone}
  /\ due \in BOOLEAN /\ leaseLives \in BOOLEAN /\ hinted \in BOOLEAN /\ renewed \in BOOLEAN
  /\ leaseLives => lease # NoWorker
  /\ lease # NoWorker => profile # NoProfile

WorkTypeOK ==
  /\ at \in [SyncWorkers -> {"loop", "access", "save", "list", "store", "finish"}]
  /\ job \in [SyncWorkers -> [grant : Grants \cup {NoGrant}, profile : Profiles \cup {NoProfile}]]
  /\ seen \in [SyncWorkers -> SUBSET Reviews]
  /\ todo \in [SyncWorkers -> SUBSET Reviews]
  /\ ok \in [SyncWorkers -> BOOLEAN]
  /\ \A w \in SyncWorkers : at[w] = "loop" <=> job[w] = NoJob

(* Every column and local variable has the values it may hold; a lease that *)
(* runs has an owner and a row, and a worker a claim exactly outside its    *)
(* loop.                                                                    *)
SyncTypeOK == RowsTypeOK /\ WorkTypeOK

(* README.md: "Google disconnect commands".  After a disconnect nothing of  *)
(* Google's is left, whatever the workers that had claimed the location     *)
(* before it still try to store.                                            *)
DisconnectErases ==
  link # "live" => profile = NoProfile /\ secret = NoSecret /\ stored = {}

(* The two tokens of a connection come from one authorisation: a worker     *)
(* that claimed the connection before it was renewed cannot put its own     *)
(* token beside, or over, the new one.                                      *)
SecretsAreOfOneGrant == secret.access = secret.refresh

(* When a sync succeeds, what is stored is what the worker that held the    *)
(* lease saw, and of the profile the location now has: neither a worker     *)
(* that came too late nor a reconnection to another profile shows in it.    *)
SuccessIsTheListing ==
  [][\A w \in SyncWorkers :
       lease = w /\ leaseLives /\ at[w] = "finish" /\ ok[w] /\ at'[w] = "loop"
         /\ lease' = NoWorker =>
       stored' = seen[w] /\ stored' \subseteq ReviewsOf[profile]]_syncVars

(* docs/architecture.md: notifications "request a durable reconciliation".  *)
(* A sync that was asked for while another was under way is not swallowed   *)
(* by it: only a failure, which brings a retry of its own, puts it off.     *)
HintsSurviveSuccess ==
  [][hinted /\ hinted' /\ due /\ ~due' =>
       \E w \in SyncWorkers : at[w] = "finish" /\ ~ok[w]]_syncVars

(* A callback under way while its owner disconnects does not bring the      *)
(* connection back: that takes an authorisation given after it, or a save   *)
(* that had seen its row before the disconnect deleted it.                  *)
ReconnectNeedsConsent ==
  [][link = "disabled" /\ link' = "live" =>
       renewed \/ \E g \in Grants : consent[g] = "overtaken" /\ consent'[g] = "over"]_syncVars

(* The inductive invariant of GoogleProofs.    *)

(* The claim of the worker that has the lease is of the connection as it   *)
(* is now.                                                                 *)
HeldClaimIsCurrent ==
  \A w \in SyncWorkers : lease = w =>
    at[w] # "loop" /\ job[w] = [grant |-> secret.refresh, profile |-> profile]

(* It has stored what it has seen and no longer has to store, and it has    *)
(* seen reviews of its profile only.                                        *)
HeldListingIsStored ==
  \A w \in SyncWorkers :
    /\ at[w] \in {"store", "finish"} /\ ok[w] => seen[w] \subseteq ReviewsOf[job[w].profile]
    /\ at[w] = "finish" /\ ok[w] => todo[w] = {}
    /\ lease = w /\ at[w] \in {"store", "finish"} /\ ok[w] => seen[w] \ todo[w] \subseteq stored

(* On a disabled connection a row that is left was consumed since. *)
PermissionIsNew == link = "disabled" /\ ConsumedRowLeft => renewed

SyncInv ==
  /\ SyncTypeOK
  /\ DisconnectErases
  /\ SecretsAreOfOneGrant
  /\ HeldClaimIsCurrent
  /\ HeldListingIsStored
  /\ PermissionIsNew

=============================================================================
