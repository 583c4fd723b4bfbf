---------------------------- MODULE GoogleProofs ----------------------------
(* The safety of a Google connection and of the revocation of its tokens,   *)
(* for any workers, profiles, reviews, OAuth flows, tokens and limits.      *)
EXTENDS GoogleSync, TokenRevocation, TLAPS

-----------------------------------------------------------------------------
(* The connection and its review syncs.                                     *)

(* Most steps change only some of the variables: those of the properties   *)
(* that see nothing of the change are kept.                                *)
LEMMA PeopleKeep ==
  ASSUME SyncInv,
         \/ \E r \in Reviews : ReviewsChange(r)
         \/ \E g \in Grants : BeginGoogleOAuth(g) \/ ConsumeGoogleOAuthState(g)
                                \/ ConsentEnds(g) \/ CheckGoogleAuthorization(g)
                                \/ AuthorizationRefused(g)
         \/ RequestGoogleReviewSync
         \/ SyncLeaseExpires
         \/ SyncBecomesDue
  PROVE  SyncInv'
<1> USE DEF SyncInv, ReviewsChange, BeginGoogleOAuth, ConsumeGoogleOAuthState,
            ConsentEnds, CheckGoogleAuthorization, AuthorizationRefused,
            RequestGoogleReviewSync, SyncLeaseExpires, SyncBecomesDue, linkVars, rowVars, workVars, memory
<1>1. SyncTypeOK'
  <2>1. WorkTypeOK'
    BY DEF SyncTypeOK, WorkTypeOK
  <2>2. listed' \subseteq Reviews
    BY DEF SyncTypeOK, RowsTypeOK
  <2>3. consent' \in [Grants -> Consents]
    BY DEF SyncTypeOK, RowsTypeOK, Consents
  <2>4. lease' = lease /\ profile' = profile /\ leaseLives' \in {leaseLives, FALSE}
    OBVIOUS
  <2>5. stored' = stored /\ link' = link /\ secret' = secret
    OBVIOUS
  <2>6. due' \in BOOLEAN /\ hinted' \in BOOLEAN /\ renewed' \in BOOLEAN
    BY DEF SyncTypeOK, RowsTypeOK
  <2>7. leaseLives' \in BOOLEAN /\ (leaseLives' => lease' # NoWorker)
    <3>1. CASE leaseLives' = leaseLives
      BY <2>4, <3>1 DEF SyncTypeOK, RowsTypeOK
    <3>2. CASE leaseLives' = FALSE
      BY <3>2
    <3> QED
      BY <2>4, <3>1, <3>2
  <2> QED
    BY <2>1, <2>2, <2>3, <2>4, <2>5, <2>6, <2>7 DEF SyncTypeOK, RowsTypeOK
<1>2. DisconnectErases' /\ SecretsAreOfOneGrant'
  BY DEF DisconnectErases, SecretsAreOfOneGrant
<1>3. HeldClaimIsCurrent' /\ HeldListingIsStored'
  BY DEF HeldClaimIsCurrent, HeldListingIsStored
<1>4. PermissionIsNew'
  BY DEF PermissionIsNew, ConsumedRowLeft, SyncTypeOK, RowsTypeOK, WorkTypeOK
<1> QED
  BY <1>1, <1>2, <1>3, <1>4

(* A save starts the connection afresh, with no lease. *)
LEMMA SaveKeeps ==
  ASSUME SyncInv, NEW g \in Grants, NEW p \in Profiles, SaveGoogleConnection(g, p)
  PROVE  SyncInv'
<1> USE DEF SyncInv, SaveGoogleConnection, workVars, memory, LeaseAfterSave
<1>1. lease' = NoWorker /\ leaseLives' = FALSE
  OBVIOUS
<1>2. consent' \in [Grants -> Consents]
  BY DEF AllRowsDeleted, SyncTypeOK, RowsTypeOK, Consents
<1>3. SyncTypeOK'
  BY <1>1, <1>2 DEF SyncTypeOK, RowsTypeOK, WorkTypeOK
<1>4. DisconnectErases' /\ SecretsAreOfOneGrant' /\ PermissionIsNew'
  BY DEF DisconnectErases, SecretsAreOfOneGrant, PermissionIsNew, ConsumedRowLeft
<1>5. HeldClaimIsCurrent' /\ HeldListingIsStored'
  BY <1>1, WorkersAssumption DEF HeldClaimIsCurrent, HeldListingIsStored
<1> QED
  BY <1>3, <1>4, <1>5

(* A disconnect leaves nothing, and voids the flows under way. *)
LEMMA DisconnectKeeps ==
  ASSUME SyncInv, DisconnectGoogleConnection
  PROVE  SyncInv'
<1> USE DEF SyncInv, DisconnectGoogleConnection, workVars
<1>1. /\ consent' \in [Grants -> Consents]
      /\ \A g \in Grants : consent'[g] \notin {"granted", "passed"}
  BY DEF RowsDeletedOnDisconnect, AllRowsDeleted, SyncTypeOK, RowsTypeOK, Consents
<1>2. SyncTypeOK'
  BY <1>1 DEF SyncTypeOK, RowsTypeOK, WorkTypeOK, NoSecret
<1>3. DisconnectErases' /\ SecretsAreOfOneGrant' /\ PermissionIsNew'
  BY <1>1 DEF DisconnectErases, SecretsAreOfOneGrant, PermissionIsNew, ConsumedRowLeft, NoSecret
<1>4. HeldClaimIsCurrent' /\ HeldListingIsStored'
  BY WorkersAssumption DEF HeldClaimIsCurrent, HeldListingIsStored
<1> QED
  BY <1>2, <1>3, <1>4

(* A claim is of a live connection, as it is. *)
LEMMA SyncClaimKeeps ==
  ASSUME SyncInv, NEW w \in SyncWorkers, ClaimGoogleReviewSync(w)
  PROVE  SyncInv'
<1> USE DEF SyncInv, ClaimGoogleReviewSync, Due, linkVars
<1>1. SyncTypeOK'
  BY WorkersAssumption DEF SyncTypeOK, RowsTypeOK, WorkTypeOK, NoJob
<1>2. DisconnectErases' /\ SecretsAreOfOneGrant' /\ PermissionIsNew'
  BY DEF DisconnectErases, SecretsAreOfOneGrant, PermissionIsNew, ConsumedRowLeft
<1>3. \A v \in SyncWorkers : v # w => at'[v] = at[v] /\ job'[v] = job[v] /\ ok'[v] = ok[v]
  BY DEF SyncTypeOK, WorkTypeOK
<1>4. at'[w] = "access" /\ job'[w] = [grant |-> secret.refresh, profile |-> profile]
  BY DEF SyncTypeOK, WorkTypeOK
<1>5. HeldClaimIsCurrent'
  BY <1>4 DEF HeldClaimIsCurrent
<1>6. HeldListingIsStored'
  BY <1>3, <1>4 DEF HeldListingIsStored
<1> QED
  BY <1>1, <1>2, <1>5, <1>6

(* The calls before the reviews are stored; a new token is of the flow of   *)
(* the claim, which the lease makes the flow of the secret.                 *)
LEMMA AccessKeeps ==
  ASSUME SyncInv, NEW w \in SyncWorkers,
         AccessToken(w) \/ SaveRefreshedGoogleToken(w) \/ ListReviews(w)
  PROVE  SyncInv'
<1> USE DEF SyncInv, linkVars, rowVars, memory, Fails
<1>1. CASE AccessToken(w)
  <2> USE <1>1 DEF AccessToken
  <2>1. SyncTypeOK'
    <3>1. /\ at' \in [SyncWorkers -> {"loop", "access", "save", "list", "store", "finish"}]
          /\ \A v \in SyncWorkers : at'[v] = "loop" <=> at[v] = "loop"
          /\ ok' \in [SyncWorkers -> BOOLEAN]
      BY DEF SyncTypeOK, WorkTypeOK
    <3> QED
      BY <3>1 DEF SyncTypeOK, RowsTypeOK, WorkTypeOK
  <2>2. DisconnectErases' /\ SecretsAreOfOneGrant' /\ PermissionIsNew'
    BY DEF DisconnectErases, SecretsAreOfOneGrant, PermissionIsNew, ConsumedRowLeft
  <2>3. HeldClaimIsCurrent' /\ HeldListingIsStored'
    <3>1. \A v \in SyncWorkers : v # w => at'[v] = at[v] /\ ok'[v] = ok[v]
      BY DEF SyncTypeOK, WorkTypeOK
    <3>2. at'[w] \in {"list", "save"} \/ (at'[w] = "finish" /\ ok'[w] = FALSE)
      BY DEF SyncTypeOK, WorkTypeOK
    <3>3. HeldClaimIsCurrent'
      BY <3>1, <3>2 DEF HeldClaimIsCurrent
    <3> QED
      BY <3>1, <3>2, <3>3 DEF HeldListingIsStored
  <2> QED
    BY <2>1, <2>2, <2>3
<1>2. CASE SaveRefreshedGoogleToken(w)
  <2> USE <1>2 DEF SaveRefreshedGoogleToken
  <2>1. WorkTypeOK'
    BY DEF SyncTypeOK, WorkTypeOK
  <2>2. secret' = secret \/ (secret' = [access |-> job[w].grant, refresh |-> secret.refresh]
                              /\ lease = w /\ leaseLives)
    BY DEF HoldsSyncLease, HeldClaimIsCurrent
  <2>3. secret' = secret
    BY <2>2 DEF HeldClaimIsCurrent, SecretsAreOfOneGrant, SyncTypeOK, RowsTypeOK, WorkTypeOK
  <2>4. DisconnectErases' /\ SecretsAreOfOneGrant' /\ PermissionIsNew'
    BY <2>3 DEF DisconnectErases, SecretsAreOfOneGrant, PermissionIsNew, ConsumedRowLeft
  <2>5. HeldClaimIsCurrent' /\ HeldListingIsStored'
    <3>1. \A v \in SyncWorkers : v # w => at'[v] = at[v] /\ ok'[v] = ok[v]
      BY DEF SyncTypeOK, WorkTypeOK
    <3>2. at'[w] = "list" \/ (at'[w] = "finish" /\ ok'[w] = FALSE)
      BY DEF SyncTypeOK, WorkTypeOK
    <3>3. HeldClaimIsCurrent'
      BY <2>3, <3>1, <3>2 DEF HeldClaimIsCurrent
    <3> QED
      BY <3>1, <3>2, <3>3 DEF HeldListingIsStored
  <2>6. RowsTypeOK'
    BY <2>3 DEF SyncTypeOK, RowsTypeOK
  <2> QED
    BY <2>1, <2>4, <2>5, <2>6 DEF SyncTypeOK
<1>3. CASE ListReviews(w)
  <2> USE <1>3 DEF ListReviews
  <2>1. SyncTypeOK'
    <3>1. /\ at' \in [SyncWorkers -> {"loop", "access", "save", "list", "store", "finish"}]
          /\ \A v \in SyncWorkers : at'[v] = "loop" <=> at[v] = "loop"
      BY DEF SyncTypeOK, WorkTypeOK
    <3>2. /\ seen' \in [SyncWorkers -> SUBSET Reviews]
          /\ todo' \in [SyncWorkers -> SUBSET Reviews]
      BY DEF SyncTypeOK, RowsTypeOK, WorkTypeOK
    <3>3. ok' \in [SyncWorkers -> BOOLEAN]
      BY DEF SyncTypeOK, WorkTypeOK
    <3> QED
      BY <3>1, <3>2, <3>3 DEF SyncTypeOK, RowsTypeOK, WorkTypeOK
  <2>2. DisconnectErases' /\ SecretsAreOfOneGrant' /\ PermissionIsNew'
    BY DEF DisconnectErases, SecretsAreOfOneGrant, PermissionIsNew, ConsumedRowLeft
  <2>3. HeldClaimIsCurrent'
    BY DEF HeldClaimIsCurrent, SyncTypeOK, WorkTypeOK
  <2>4. \A v \in SyncWorkers : v # w =>
          at'[v] = at[v] /\ seen'[v] = seen[v] /\ todo'[v] = todo[v] /\ ok'[v] = ok[v]
    BY DEF SyncTypeOK, WorkTypeOK
  <2>5. ok'[w] /\ at'[w] # "loop" =>
          /\ seen'[w] \subseteq ReviewsOf[job[w].profile] /\ todo'[w] = seen'[w]
          /\ at'[w] = "finish" => todo'[w] = {}
    BY DEF SyncTypeOK, WorkTypeOK
  <2>6. at'[w] # "loop"
    BY DEF SyncTypeOK, WorkTypeOK
  <2>7. HeldListingIsStored'
    BY <2>4, <2>5, <2>6 DEF HeldListingIsStored
  <2> QED
    BY <2>1, <2>2, <2>3, <2>7
<1> QED
  BY <1>1, <1>2, <1>3

(* A review is stored only where there is a profile, so on a live link. *)
LEMMA UpsertKeeps ==
  ASSUME SyncInv, NEW w \in SyncWorkers, NEW r \in Reviews, UpsertGoogleReview(w, r)
  PROVE  SyncInv'
<1> USE DEF SyncInv, UpsertGoogleReview, UpsertAllowed, Fails, linkVars, rowVars, memory
<1>1. SyncTypeOK'
  <2>1. /\ at' \in [SyncWorkers -> {"loop", "access", "save", "list", "store", "finish"}]
        /\ \A v \in SyncWorkers : at'[v] = "loop" <=> at[v] = "loop"
    BY DEF SyncTypeOK, WorkTypeOK
  <2>2. stored' \subseteq Reviews /\ todo' \in [SyncWorkers -> SUBSET Reviews]
    BY DEF SyncTypeOK, RowsTypeOK, WorkTypeOK
  <2>3. ok' \in [SyncWorkers -> BOOLEAN]
    BY DEF SyncTypeOK, WorkTypeOK
  <2> QED
    BY <2>1, <2>2, <2>3 DEF SyncTypeOK, RowsTypeOK, WorkTypeOK
<1>2. DisconnectErases' /\ SecretsAreOfOneGrant' /\ PermissionIsNew'
  BY DEF DisconnectErases, SecretsAreOfOneGrant, PermissionIsNew, ConsumedRowLeft
<1>3. HeldClaimIsCurrent'
  BY DEF HeldClaimIsCurrent, SyncTypeOK, WorkTypeOK
<1>4. HeldListingIsStored'
  <2>1. \A v \in SyncWorkers : v # w =>
          at'[v] = at[v] /\ todo'[v] = todo[v] /\ ok'[v] = ok[v]
    BY DEF SyncTypeOK, WorkTypeOK
  <2>2. stored \subseteq stored'
    OBVIOUS
  <2>3. CASE UpsertAllowed
    <3>1. /\ todo'[w] = todo[w] \ {r} /\ r \in stored' /\ ok'[w] = ok[w]
          /\ at'[w] \in {"store", "finish"} /\ (at'[w] = "finish" => todo'[w] = {})
      BY <2>3 DEF SyncTypeOK, WorkTypeOK
    <3> QED
      BY <2>1, <2>2, <3>1 DEF HeldListingIsStored
  <2>4. CASE ~UpsertAllowed
    <3>1. at'[w] = "finish" /\ ok'[w] = FALSE
      BY <2>4 DEF SyncTypeOK, WorkTypeOK
    <3> QED
      BY <2>1, <2>2, <3>1 DEF HeldListingIsStored
  <2> QED
    BY <2>3, <2>4
<1> QED
  BY <1>1, <1>2, <1>3, <1>4

(* A worker without a claim is back in its loop. *)
LEMMA DroppedTypes ==
  ASSUME WorkTypeOK, NEW w \in SyncWorkers, ClaimDropped(w)
  PROVE  WorkTypeOK'
<1> USE DEF WorkTypeOK, ClaimDropped
<1>1. NoJob \in [grant : Grants \cup {NoGrant}, profile : Profiles \cup {NoProfile}]
  BY DEF NoJob
<1>2. /\ at' \in [SyncWorkers -> {"loop", "access", "save", "list", "store", "finish"}]
      /\ job' \in [SyncWorkers -> [grant : Grants \cup {NoGrant}, profile : Profiles \cup {NoProfile}]]
      /\ seen' \in [SyncWorkers -> SUBSET Reviews]
      /\ todo' \in [SyncWorkers -> SUBSET Reviews]
      /\ ok' \in [SyncWorkers -> BOOLEAN]
  BY <1>1
<1>3. \A v \in SyncWorkers : at'[v] = "loop" <=> job'[v] = NoJob
  OBVIOUS
<1> QED
  BY <1>2, <1>3

(* Whoever is done, or dies, holds no lease any more. *)
LEMMA DropKeeps ==
  ASSUME SyncInv, NEW w \in SyncWorkers, FinishGoogleReviewSync(w) \/ SyncCrash(w)
  PROVE  SyncInv'
<1> USE DEF SyncInv, FinishGoogleReviewSync, SyncCrash, ClaimDropped, HoldsSyncLease,
            StoredAndSeen, DueAfterSuccess, linkVars, memory
<1>1. lease' # w /\ (lease' = lease \/ lease' \in {NoWorker, Gone})
  BY WorkersAssumption
<1>2. SyncTypeOK'
  <2>1. stored' \subseteq Reviews
    BY DEF SyncTypeOK, RowsTypeOK
  <2>2. due' \in BOOLEAN
    BY DEF SyncTypeOK, RowsTypeOK, WorkTypeOK
  <2>3. leaseLives' \in BOOLEAN /\ (leaseLives' => lease' # NoWorker)
    <3>1. CASE leaseLives' = leaseLives /\ (lease' = lease \/ lease' = Gone)
      BY <3>1, WorkersAssumption DEF SyncTypeOK, RowsTypeOK
    <3>2. CASE leaseLives' = FALSE
      BY <3>2
    <3> QED
      BY <3>1, <3>2
  <2>4. lease' # NoWorker => lease # NoWorker
    BY <1>1, WorkersAssumption
  <2>5. RowsTypeOK'
    BY <1>1, <2>1, <2>2, <2>3, <2>4 DEF SyncTypeOK, RowsTypeOK
  <2>6. WorkTypeOK'
    BY DroppedTypes DEF SyncTypeOK
  <2> QED
    BY <2>5, <2>6 DEF SyncTypeOK
<1>3. DisconnectErases' /\ SecretsAreOfOneGrant' /\ PermissionIsNew'
  BY DEF DisconnectErases, SecretsAreOfOneGrant, PermissionIsNew, ConsumedRowLeft
<1>4. \A v \in SyncWorkers : lease' = v => lease = v /\ v # w /\ stored' = stored
  BY <1>1, WorkersAssumption
<1>5. \A v \in SyncWorkers : v # w =>
        at'[v] = at[v] /\ job'[v] = job[v] /\ seen'[v] = seen[v]
          /\ todo'[v] = todo[v] /\ ok'[v] = ok[v]
  BY DEF SyncTypeOK, RowsTypeOK, WorkTypeOK
<1>6. HeldClaimIsCurrent'
  BY <1>4, <1>5 DEF HeldClaimIsCurrent
<1>7. at'[w] = "loop"
  BY DEF SyncTypeOK, RowsTypeOK, WorkTypeOK
<1>8. HeldListingIsStored'
  BY <1>4, <1>5, <1>7 DEF HeldListingIsStored
<1> QED
  BY <1>2, <1>3, <1>6, <1>8

LEMMA SyncNextKeeps == SyncInv /\ [SyncNext]_syncVars => SyncInv'
<1> SUFFICES ASSUME SyncInv, [SyncNext]_syncVars
             PROVE  SyncInv'
  OBVIOUS
<1>1. CASE UNCHANGED syncVars
  BY <1>1 DEF syncVars, SyncInv, SyncTypeOK, RowsTypeOK, WorkTypeOK,
              DisconnectErases, SecretsAreOfOneGrant,
              HeldClaimIsCurrent, HeldListingIsStored, PermissionIsNew,
              ConsumedRowLeft
<1>2. CASE SyncNext
  <2>1. ASSUME NEW w \in SyncWorkers,
               ClaimGoogleReviewSync(w) \/ SyncStep(w) \/ SyncCrash(w)
        PROVE  SyncInv'
    BY <2>1, SyncClaimKeeps, AccessKeeps, UpsertKeeps, DropKeeps DEF SyncStep
  <2>2. ASSUME NEW g \in Grants, NEW p \in Profiles, SaveGoogleConnection(g, p)
        PROVE  SyncInv'
    BY <2>2, SaveKeeps
  <2>3. ASSUME NEW g \in Grants,
               BeginGoogleOAuth(g) \/ ConsumeGoogleOAuthState(g) \/ ConsentEnds(g)
                 \/ CheckGoogleAuthorization(g) \/ AuthorizationRefused(g)
        PROVE  SyncInv'
    BY <2>3, PeopleKeep
  <2>4. ASSUME NEW r \in Reviews, ReviewsChange(r)
        PROVE  SyncInv'
    BY <2>4, PeopleKeep
  <2>5. CASE RequestGoogleReviewSync \/ SyncLeaseExpires \/ SyncBecomesDue
    BY <2>5, PeopleKeep
  <2> QED
    BY <1>2, <2>1, <2>2, <2>3, <2>4, <2>5, DisconnectKeeps DEF SyncNext
<1> QED
  BY <1>1, <1>2

(* The connection, its row, its reviews and its workers agree: the         *)
(* inductive invariant.                                                    *)
THEOREM SyncInvariant == SyncSpec => []SyncInv
<1>1. SyncInit => SyncInv
  <2> SUFFICES ASSUME SyncInit PROVE SyncInv
    OBVIOUS
  <2> USE DEF SyncInit
  <2>1. RowsTypeOK
    BY DEF RowsTypeOK, Consents, NoSecret
  <2>2. WorkTypeOK
    BY DEF WorkTypeOK, NoJob
  <2>3. DisconnectErases /\ SecretsAreOfOneGrant /\ PermissionIsNew
    BY DEF DisconnectErases, SecretsAreOfOneGrant, PermissionIsNew, ConsumedRowLeft, NoSecret
  <2>4. HeldClaimIsCurrent /\ HeldListingIsStored
    BY WorkersAssumption DEF HeldClaimIsCurrent, HeldListingIsStored
  <2> QED
    BY <2>1, <2>2, <2>3, <2>4 DEF SyncInv, SyncTypeOK
<1> QED
  BY <1>1, SyncNextKeeps, PTL DEF SyncSpec

(* disconnect_google_connection is not undone by workers that go on.       *)
THEOREM NothingIsLeft == SyncSpec => []DisconnectErases
<1>1. SyncInv => DisconnectErases
  BY DEF SyncInv
<1> QED
  BY <1>1, SyncInvariant, PTL

(* save_refreshed_google_token never mixes the tokens of two flows.        *)
THEOREM TokensAreNotMixed == SyncSpec => []SecretsAreOfOneGrant
<1>1. SyncInv => SecretsAreOfOneGrant
  BY DEF SyncInv
<1> QED
  BY <1>1, SyncInvariant, PTL

(* What finish_google_review_sync leaves is what its worker listed, of the *)
(* profile the location has.                                               *)
THEOREM SyncStoresWhatItSaw == SyncSpec => SuccessIsTheListing
<1> DEFINE Succeeds(w) == lease = w /\ leaseLives /\ at[w] = "finish" /\ ok[w]
                            /\ at'[w] = "loop" /\ lease' = NoWorker
<1>1. SyncInv /\ [SyncNext]_syncVars =>
        [\A w \in SyncWorkers : Succeeds(w) =>
           stored' = seen[w] /\ stored' \subseteq ReviewsOf[profile]]_syncVars
  <2> SUFFICES ASSUME SyncInv, SyncNext, NEW w \in SyncWorkers, Succeeds(w)
               PROVE  stored' = seen[w] /\ stored' \subseteq ReviewsOf[profile]
    OBVIOUS
  <2>1. seen[w] \subseteq stored /\ seen[w] \subseteq ReviewsOf[profile]
    BY DEF SyncInv, HeldListingIsStored, HeldClaimIsCurrent
  <2>2. FinishGoogleReviewSync(w) \/ SyncCrash(w)
    <3>1. at \in [SyncWorkers -> {"loop", "access", "save", "list", "store", "finish"}]
      BY DEF SyncInv, SyncTypeOK, WorkTypeOK
    <3>2. ASSUME NEW v \in SyncWorkers, v # w,
                 FinishGoogleReviewSync(v) \/ SyncCrash(v)
          PROVE  FALSE
      BY <3>1, <3>2 DEF FinishGoogleReviewSync, SyncCrash, ClaimDropped
    <3>3. ASSUME NEW v \in SyncWorkers, ClaimGoogleReviewSync(v)
          PROVE  FALSE
      BY <3>3 DEF ClaimGoogleReviewSync, Due
    <3>4. ASSUME NEW v \in SyncWorkers,
                 AccessToken(v) \/ SaveRefreshedGoogleToken(v) \/ ListReviews(v)
                   \/ \E r \in Reviews : UpsertGoogleReview(v, r)
          PROVE  FALSE
      BY <3>4, WorkersAssumption DEF AccessToken, SaveRefreshedGoogleToken,
         ListReviews, UpsertGoogleReview, rowVars
    <3>5. at' # at
      BY <3>1
    <3> QED
      BY <3>2, <3>3, <3>4, <3>5 DEF SyncNext, SyncStep, ReviewsChange, BeginGoogleOAuth,
         ConsumeGoogleOAuthState, ConsentEnds, CheckGoogleAuthorization,
         AuthorizationRefused, SaveGoogleConnection,
         DisconnectGoogleConnection, RequestGoogleReviewSync, SyncLeaseExpires,
         SyncBecomesDue, workVars
  <2>3. ~SyncCrash(w)
    BY WorkersAssumption DEF SyncCrash
  <2> QED
    BY <2>1, <2>2, <2>3 DEF FinishGoogleReviewSync, HoldsSyncLease, StoredAndSeen
<1> QED
  BY <1>1, SyncInvariant, PTL DEF SyncSpec, SuccessIsTheListing

(* A request or notification that comes during a sync outlives its success *)
(* in finish_google_review_sync.                                           *)
THEOREM HintsAreKept == SyncSpec => HintsSurviveSuccess
<1> DEFINE Survives == hinted /\ hinted' /\ due /\ ~due' =>
                         \E w \in SyncWorkers : at[w] = "finish" /\ ~ok[w]
<1>1. [SyncNext]_syncVars => [Survives]_syncVars
  <2> SUFFICES ASSUME SyncNext, hinted, hinted', due, ~due'
               PROVE  \E w \in SyncWorkers : at[w] = "finish" /\ ~ok[w]
    OBVIOUS
  <2> QED
    BY DEF SyncNext, SyncStep, ReviewsChange, BeginGoogleOAuth, ConsumeGoogleOAuthState,
       ConsentEnds, CheckGoogleAuthorization, AuthorizationRefused, SaveGoogleConnection,
       DisconnectGoogleConnection,
       RequestGoogleReviewSync, ClaimGoogleReviewSync, AccessToken,
       SaveRefreshedGoogleToken, ListReviews, UpsertGoogleReview, SyncCrash,
       FinishGoogleReviewSync, DueAfterSuccess, SyncLeaseExpires, SyncBecomesDue, rowVars
<1> QED
  BY <1>1, PTL DEF SyncSpec, HintsSurviveSuccess

(* save_google_connection_for_actor revives a connection only with a state *)
(* consumed after its disconnect, or from the wait for it: its check of    *)
(* the state is not repeated.                                              *)
THEOREM ConsentComesFirst == SyncSpec => ReconnectNeedsConsent
<1> DEFINE Overtaken == \E g \in Grants : consent[g] = "overtaken" /\ consent'[g] = "over"
           Consented == link = "disabled" /\ link' = "live" => renewed \/ Overtaken
<1>1. SyncInv /\ [SyncNext]_syncVars => [Consented]_syncVars
  <2> SUFFICES ASSUME SyncInv, SyncNext, link = "disabled", link' = "live"
               PROVE  renewed \/ Overtaken
    OBVIOUS
  <2>1. PICK g \in Grants, p \in Profiles : SaveGoogleConnection(g, p)
    BY DEF SyncNext, SyncStep, ReviewsChange, BeginGoogleOAuth, ConsumeGoogleOAuthState,
       ConsentEnds, CheckGoogleAuthorization, AuthorizationRefused,
       DisconnectGoogleConnection, RequestGoogleReviewSync, ClaimGoogleReviewSync,
       AccessToken, SaveRefreshedGoogleToken, ListReviews, UpsertGoogleReview, SyncCrash,
       FinishGoogleReviewSync, SyncLeaseExpires, SyncBecomesDue, linkVars
  <2>2. CASE consent[g] = "passed"
    BY <2>2 DEF SyncInv, PermissionIsNew, ConsumedRowLeft
  <2>3. CASE consent[g] = "overtaken"
    <3>1. consent'[g] = "over"
      BY <2>1 DEF SaveGoogleConnection, AllRowsDeleted
    <3> QED
      BY <2>3, <3>1
  <2> QED
    BY <2>1, <2>2, <2>3 DEF SaveGoogleConnection
<1> QED
  BY <1>1, SyncInvariant, PTL DEF SyncSpec, ReconnectNeedsConsent

-----------------------------------------------------------------------------
(* The revocation of retired tokens.                                        *)

(* The claim keeps every row as the invariant asks. *)
LEMMA ClaimKeeps ==
  ASSUME RevocationInv, NEW v \in Revokers, NEW S \in SUBSET Retired,
         ClaimRevocations(v, S)
  PROVE  RevocationInv'
<1> USE DEF RevocationInv, ClaimRevocations
<1>1. \A t \in S : tries[t] \in Nat /\ tries[t] < MaxRevocations
  BY RevocationAssumption DEF ClaimableTokens, RevocationTypeOK
<1>2. tries' \in [Retired -> 0..MaxRevocations]
  BY <1>1, RevocationAssumption DEF RevocationTypeOK
<1>3. RevocationTypeOK'
  <2>1. queue' \in [Retired -> {"none", "pending", "leased", "dead", "deleted"}]
    BY DEF RevocationTypeOK
  <2>2. /\ leasedTo' \in [Retired -> Revokers \cup {NoRevoker, Nobody}]
        /\ batch' \in [Revokers -> SUBSET Retired]
        /\ running' \subseteq Retired
    BY DEF RevocationTypeOK
  <2>3. ready' \subseteq Retired
    BY DEF RevocationTypeOK, Overdue
  <2>4. \A t \in Retired : leasedTo'[t] # NoRevoker <=> queue'[t] = "leased"
    BY RevocationAssumption DEF RevocationTypeOK
  <2>5. ASSUME NEW t \in Retired, queue'[t] = "dead" PROVE tries'[t] = MaxRevocations
    BY <2>5 DEF RevocationTypeOK
  <2> QED
    BY <1>2, <2>1, <2>2, <2>3, <2>4, <2>5 DEF RevocationTypeOK
<1>4. RunningIsLeased'
  <2>1. \A t \in running : t \notin Overdue
    BY DEF Overdue
  <2> QED
    BY <2>1 DEF RunningIsLeased, RevocationTypeOK
<1>5. AnswersAreTrue' /\ DeletedIsRevoked'
  BY DEF AnswersAreTrue, DeletedIsRevoked, RevocationTypeOK
<1> QED
  BY <1>3, <1>4, <1>5

(* A call of Google leaves an answer in hand that tells the truth. *)
LEMMA CallKeeps ==
  ASSUME RevocationInv, NEW v \in Revokers, NEW t \in Retired,
         NEW answer \in Answers, NEW reached \in BOOLEAN,
         RevokeToken(v, t, answer, reached)
  PROVE  RevocationInv'
<1> USE DEF RevocationInv, RevokeToken, rows
<1>1. CountsAsRevoked(answer) \in BOOLEAN /\ (CountsAsRevoked(answer) => t \notin valid')
  BY DEF CountsAsRevoked, Answers, RevocationTypeOK
<1>2. RevocationTypeOK'
  BY <1>1 DEF RevocationTypeOK
<1>3. valid' \subseteq valid
  OBVIOUS
<1>4. AnswersAreTrue'
  BY <1>1, <1>3 DEF AnswersAreTrue, RevocationTypeOK
<1>5. RunningIsLeased' /\ DeletedIsRevoked'
  BY <1>3 DEF RunningIsLeased, DeletedIsRevoked
<1> QED
  BY <1>2, <1>4, <1>5

(* The record of an answer deletes the row only when the token is revoked. *)
LEMMA RecordKeeps ==
  ASSUME RevocationInv, NEW v \in Revokers, FinishRevocation(v)
  PROVE  RevocationInv'
<1> DEFINE t == inHand[v]
<1> USE DEF RevocationInv, FinishRevocation
<1>1. t \in Retired /\ tries[t] \in 0..MaxRevocations
  BY DEF RevocationTypeOK
<1>2. AfterFailedRevocation(t) \in {"dead", "pending"}
      /\ (AfterFailedRevocation(t) = "dead" => tries[t] = MaxRevocations)
  BY <1>1, RevocationAssumption DEF AfterFailedRevocation
<1>3. RevocationTypeOK'
  <2>1. /\ queue' \in [Retired -> {"none", "pending", "leased", "dead", "deleted"}]
        /\ leasedTo' \in [Retired -> Revokers \cup {NoRevoker, Nobody}]
        /\ batch' \in [Revokers -> SUBSET Retired]
        /\ inHand' \in [Revokers -> Retired \cup {NoToken}]
        /\ revoked' \in [Revokers -> BOOLEAN]
    BY <1>2 DEF RevocationTypeOK
  <2>2. \A u \in Retired : leasedTo'[u] # NoRevoker <=> queue'[u] = "leased"
    BY <1>1, <1>2 DEF RevocationTypeOK
  <2>3. \A u \in Retired : queue'[u] = "dead" => tries'[u] = MaxRevocations
    BY <1>1, <1>2 DEF RevocationTypeOK
  <2> QED
    BY <2>1, <2>2, <2>3 DEF RevocationTypeOK
<1>4. RunningIsLeased'
  BY <1>1 DEF RunningIsLeased, RevocationTypeOK
<1>5. AnswersAreTrue'
  BY DEF AnswersAreTrue, RevocationTypeOK
<1>6. DeletedIsRevoked'
  BY <1>1, <1>2 DEF DeletedIsRevoked, AnswersAreTrue, RevocationTypeOK
<1> QED
  BY <1>3, <1>4, <1>5, <1>6

(* A process that ends leaves its leases to nobody. *)
LEMMA EndKeeps ==
  ASSUME RevocationInv, NEW v \in Revokers, ProcessEnds(v)
  PROVE  RevocationInv'
<1> USE DEF RevocationInv, ProcessEnds
<1>1. RevocationTypeOK'
  BY RevocationAssumption DEF RevocationTypeOK
<1>2. RunningIsLeased' /\ AnswersAreTrue' /\ DeletedIsRevoked'
  BY DEF RunningIsLeased, AnswersAreTrue, DeletedIsRevoked, RevocationTypeOK
<1> QED
  BY <1>1, <1>2

LEMMA NextKeeps == RevocationInv /\ [RevocationNext]_revocationVars => RevocationInv'
<1> SUFFICES ASSUME RevocationInv, [RevocationNext]_revocationVars
             PROVE  RevocationInv'
  OBVIOUS
<1> USE DEF RevocationInv
<1>1. ASSUME NEW t \in Retired, QueueRevocation(t)
      PROVE  RevocationInv'
  BY <1>1 DEF QueueRevocation, process, RevocationTypeOK, RunningIsLeased,
              AnswersAreTrue, DeletedIsRevoked
<1>2. ASSUME NEW v \in Revokers, NEW S \in SUBSET Retired, ClaimRevocations(v, S)
      PROVE  RevocationInv'
  BY <1>2, ClaimKeeps
<1>3. ASSUME NEW v \in Revokers, RevokerStep(v)
      PROVE  RevocationInv'
  BY <1>3, CallKeeps, RecordKeeps, EndKeeps DEF RevokerStep, FinishRaises
<1>4. ASSUME NEW v \in Revokers, RevokerCrash(v)
      PROVE  RevocationInv'
  BY <1>4, EndKeeps DEF RevokerCrash
<1>5. ASSUME NEW t \in Retired,
             RevocationLeaseExpires(t) \/ RevocationBecomesReady(t) \/ RevocationLapses(t)
      PROVE  RevocationInv'
  BY <1>5 DEF RevocationLeaseExpires, RevocationBecomesReady, RevocationLapses,
              process, RevocationTypeOK, RunningIsLeased, AnswersAreTrue, DeletedIsRevoked
<1>6. CASE UNCHANGED revocationVars
  BY <1>6 DEF revocationVars, RevocationTypeOK, RunningIsLeased, AnswersAreTrue,
              DeletedIsRevoked
<1> QED
  BY <1>1, <1>2, <1>3, <1>4, <1>5, <1>6 DEF RevocationNext

(* The queue, the processes and Google agree: the inductive invariant. *)
THEOREM RevocationInvariant == RevocationSpec => []RevocationInv
<1>1. RevocationInit => RevocationInv
  BY RevocationAssumption DEF RevocationInit, RevocationInv, RevocationTypeOK,
     RunningIsLeased, AnswersAreTrue, DeletedIsRevoked
<1> QED
  BY <1>1, NextKeeps, PTL DEF RevocationSpec

(* A token that left the queue of disconnect_google_connection is revoked. *)
THEOREM OnlyRevokedIsDeleted == RevocationSpec => []DeletedIsRevoked
<1>1. RevocationInv => DeletedIsRevoked
  BY DEF RevocationInv
<1> QED
  BY <1>1, RevocationInvariant, PTL

(* While a lease of claim_google_token_revocations runs, only the process  *)
(* that took it changes the status or the count of the row.                *)
THEOREM RevocationLeasesFence == RevocationSpec => RevocationsAreFenced
<1> DEFINE Fenced == \A t \in running : <<queue[t], tries[t]>>' # <<queue[t], tries[t]>> =>
                       \E v \in Revokers : leasedTo[t] = v /\ inHand[v] = t
<1>1. RevocationInv /\ [RevocationNext]_revocationVars => [Fenced]_revocationVars
  <2> SUFFICES ASSUME RevocationInv, RevocationNext,
                      NEW t \in running,
                      queue'[t] # queue[t] \/ tries'[t] # tries[t]
               PROVE  \E v \in Revokers : leasedTo[t] = v /\ inHand[v] = t
    OBVIOUS
  <2>1. t \in Retired /\ queue[t] = "leased"
    BY DEF RevocationInv, RevocationTypeOK, RunningIsLeased
  <2>2. queue \in [Retired -> {"none", "pending", "leased", "dead", "deleted"}]
        /\ tries \in [Retired -> 0..MaxRevocations]
    BY DEF RevocationInv, RevocationTypeOK
  <2>3. ASSUME NEW u \in Retired, QueueRevocation(u)
        PROVE  FALSE
    BY <2>1, <2>2, <2>3 DEF QueueRevocation
  <2>4. ASSUME NEW v \in Revokers, NEW S \in SUBSET Retired, ClaimRevocations(v, S)
        PROVE  FALSE
    <3>1. t \notin Overdue /\ t \notin S
      BY <2>1, <2>4 DEF Overdue, ClaimRevocations, ClaimableTokens
    <3> QED
      BY <2>1, <2>2, <2>4, <3>1 DEF ClaimRevocations
  <2>5. ASSUME NEW v \in Revokers, FinishRevocation(v)
        PROVE  leasedTo[t] = v /\ inHand[v] = t
    BY <2>1, <2>2, <2>5 DEF FinishRevocation, HoldsRevocationLease
  <2>6. ASSUME NEW v \in Revokers, FinishRaises(v) \/ RevokerCrash(v)
        PROVE  FALSE
    BY <2>6 DEF FinishRaises, RevokerCrash, ProcessEnds
  <2>7. ASSUME NEW v \in Revokers, NEW u \in Retired, NEW answer \in Answers,
               NEW reached \in BOOLEAN, RevokeToken(v, u, answer, reached)
        PROVE  FALSE
    BY <2>7 DEF RevokeToken, rows
  <2>8. ASSUME NEW u \in Retired,
               RevocationLeaseExpires(u) \/ RevocationBecomesReady(u) \/ RevocationLapses(u)
        PROVE  FALSE
    BY <2>8 DEF RevocationLeaseExpires, RevocationBecomesReady, RevocationLapses
  <2> QED
    BY <2>3, <2>4, <2>5, <2>6, <2>7, <2>8 DEF RevocationNext, RevokerStep
<1> QED
  BY <1>1, RevocationInvariant, PTL DEF RevocationSpec, RevocationsAreFenced

=============================================================================
