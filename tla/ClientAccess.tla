---------------------------- MODULE ClientAccess -----------------------------
(***************************************************************************)
(* Who may act for a business: its memberships, and the access that an     *)
(* agency is granted to its places.  An agency asks for a grant that the   *)
(* client accepts, or sends the client a claim under which the client      *)
(* picks a place of its own.                                               *)
(*                                                                         *)
(* set_business_membership and select_agency_client_claim_location read    *)
(* and then write under a lock, so each is two steps here; the other       *)
(* functions are one.  There is one agency, and its own members do not     *)
(* change.                                                                 *)
(***************************************************************************)
EXTENDS Naturals, FiniteSets

CONSTANTS
  Users, Businesses, Places,
  BusinessOf,                   \* the business of a place
  Owners,                       \* who owned a business at first
  AgencyStaff, AgencyManagers,  \* may ask for grants; may also revoke them
  ClientGrants, Claims,               \* the grants and claims there is room for
  Tabs, UserOf,                 \* browsers, and who is signed in there
  MaxChanges,                   \* changes of memberships (bound of the model)
  NoUser, NoPlace, NotGranted, NoClaim, NoBusiness

ASSUME AccessAssumption ==
  /\ Owners \in [Businesses -> (SUBSET Users) \ {{}}]
  /\ BusinessOf \in [Places -> Businesses] /\ UserOf \in [Tabs -> Users]
  /\ NoUser \notin Users /\ NoPlace \notin Places /\ NotGranted \notin ClientGrants
  /\ NoClaim \notin Claims /\ NoBusiness \notin Businesses /\ MaxChanges \in Nat

VARIABLES
  member,    \* per business and user: role and whether it is active
  changing,  \* per user: the change of a membership under way
  changed,   \* how many memberships have been changed
  grant,     \* agency_client_grants
  tickets,   \* agency_grant_email_claims
  claim,     \* agency_client_access_claims
  page,      \* per tab: the selector of places
  selected   \* the grant selected in the agency's page

memberVars == <<member, changing, changed>>
grantVars == <<grant, tickets, claim, page, selected>>
accessVars == <<memberVars, grantVars>>

Leads == {"owner", "admin"}
Roles == Leads \cup {"operator"}
Memberships == [role : Roles, active : BOOLEAN]
Never == [role |-> "none", active |-> FALSE]
Owner == [role |-> "owner", active |-> TRUE]

NoChange == [business |-> NoBusiness, target |-> NoUser, to |-> Never]
Changes == [business : Businesses, target : Users, to : Memberships]

Absent == [status |-> "absent", place |-> NoPlace, over |-> FALSE, from |-> NoClaim]
Unclaimed == [for |-> NoUser, by |-> NoUser, chosen |-> NotGranted, over |-> FALSE]
NoPage == [claim |-> NoClaim, places |-> {}, picked |-> NoPlace, held |-> NotGranted]

AccessInit ==
  /\ member = [b \in Businesses |->
                 [u \in Users |-> IF u \in Owners[b] THEN Owner ELSE Never]]
  /\ changing = [u \in Users |-> NoChange] /\ changed = 0
  /\ grant = [g \in ClientGrants |-> Absent] /\ tickets = {}
  /\ claim = [c \in Claims |-> Unclaimed]
  /\ page = [t \in Tabs |-> NoPage] /\ selected = NotGranted

-----------------------------------------------------------------------------
(* set_business_membership *)

Runs(u, b) == member[b][u].active /\ member[b][u].role \in Leads

(* Slip: the advisory lock is not taken. *)
MembersUnlocked(b) == TRUE

MembersFree(b) == \A u \in Users : changing[u].business # b

AnotherOwner(b, u) == \E v \in Users \ {u} : member[b][v] = Owner

(* Under the lock of the business everything is looked at ... *)
ExamineMembership(u, b, v, to) ==
  /\ changing[u] = NoChange /\ changed < MaxChanges
  /\ MembersFree(b)
  /\ Runs(u, b)
  /\ member[b][u].role = "admin" => {to.role, member[b][v].role} \cap Leads = {}
  /\ member[b][v] = Owner /\ to # Owner => AnotherOwner(b, v)
  /\ changing' = [changing EXCEPT ![u] = [business |-> b, target |-> v, to |-> to]]
  /\ UNCHANGED <<member, changed, grantVars>>

(* ... and then the row is written and the lock released. *)
WriteMembership(u) ==
  LET c == changing[u] IN
  /\ c # NoChange
  /\ member' = [member EXCEPT ![c.business][c.target] = c.to]
  /\ changing' = [changing EXCEPT ![u] = NoChange] /\ changed' = changed + 1
  /\ UNCHANGED grantVars

ChangeAborts(u) ==
  /\ changing[u] # NoChange
  /\ changing' = [changing EXCEPT ![u] = NoChange]
  /\ UNCHANGED <<member, changed, grantVars>>

-----------------------------------------------------------------------------
(* Grants *)

Open(row) == row.status \in {"requested", "active"}
InForce(row) == row.status = "active" /\ ~row.over
Revoked(row) == [row EXCEPT !.status = "revoked"]

(* expire_stale_agency_client_grants *)
Swept == [g \in ClientGrants |-> IF Open(grant[g]) /\ grant[g].over
                             THEN Revoked(grant[g]) ELSE grant[g]]

(* The unique index over the open grants of a place. *)
PlaceFree(rows, l) == \A g \in ClientGrants : rows[g].place = l => ~Open(rows[g])

FreshGrants == {g \in ClientGrants : grant[g] = Absent}
FreshGrant == CHOOSE g \in FreshGrants : TRUE

Inserted(rows, g, status, l, c) ==
  [rows EXCEPT ![g] = [status |-> status, place |-> l, over |-> FALSE, from |-> c]]

RequestGrant(u, l) ==
  /\ u \in AgencyStaff
  /\ PlaceFree(Swept, l)
  /\ FreshGrants # {}
  /\ grant' = Inserted(Swept, FreshGrant, "requested", l, NoClaim)
  /\ UNCHANGED <<memberVars, tickets, claim, page, selected>>

AcceptGrant(u, g) ==
  /\ grant[g].status = "requested" /\ ~grant[g].over
  /\ Runs(u, BusinessOf[grant[g].place])
  /\ grant' = [Swept EXCEPT ![g].status = "active"]
  /\ UNCHANGED <<memberVars, tickets, claim, page, selected>>

RejectGrant(u, g) ==
  /\ grant[g].status = "requested" /\ Runs(u, BusinessOf[grant[g].place])
  /\ grant' = [grant EXCEPT ![g].status = "rejected"]
  /\ UNCHANGED <<memberVars, tickets, claim, page, selected>>

GrantRunsOut(g) ==
  /\ Open(grant[g]) /\ ~grant[g].over
  /\ grant' = [grant EXCEPT ![g].over = TRUE]
  /\ UNCHANGED <<memberVars, tickets, claim, page, selected>>

(* What the agency's page selects when it lists the active grants: the one *)
(* it had, if that is still there, and none if the listing fails.          *)
Selections(rows) ==
  LET live == {g \in ClientGrants : InForce(rows[g])} IN
  {NotGranted} \cup (IF selected \in live THEN {selected} ELSE live)

ListActive ==
  /\ selected' \in Selections(grant)
  /\ UNCHANGED <<memberVars, grant, tickets, claim, page>>

(* The page revokes the grant it has selected and lists anew. *)
RevokeInAgency(u) ==
  LET g == selected IN
  /\ u \in AgencyManagers /\ g # NotGranted
  /\ Open(grant[g])
  /\ grant' = [grant EXCEPT ![g] = Revoked(grant[g])]
  /\ selected' \in Selections(grant')
  /\ UNCHANGED <<memberVars, tickets, claim, page>>

(* The client's page revokes the grant it holds, and ends either way. *)
RevokeAsClient(t) ==
  LET g == page[t].held
      allowed == Open(grant[g]) /\ Runs(UserOf[t], BusinessOf[grant[g].place]) IN
  /\ g # NotGranted
  /\ grant' = IF allowed THEN [grant EXCEPT ![g] = Revoked(grant[g])] ELSE grant
  /\ page' = [page EXCEPT ![t] = NoPage]
  /\ UNCHANGED <<memberVars, tickets, claim, selected>>

-----------------------------------------------------------------------------
(* The claim on one grant, by e-mail: it shows the grant and changes none. *)
(* There is one of them (bound of the model).                              *)

IssueTicket(u, g) ==
  /\ u \in AgencyStaff /\ Open(grant[g]) /\ ~grant[g].over
  /\ tickets = {}
  /\ grant' = Swept
  /\ tickets' = tickets \cup {[grant |-> g, used |-> FALSE]}
  /\ UNCHANGED <<memberVars, claim, page, selected>>

ConsumeTicket(k) ==
  /\ k \in tickets /\ ~k.used
  /\ Open(grant[k.grant]) /\ ~grant[k.grant].over
  /\ tickets' = (tickets \ {k}) \cup {[k EXCEPT !.used = TRUE]}
  /\ UNCHANGED <<memberVars, grant, claim, page, selected>>

-----------------------------------------------------------------------------
(* The claim on a place of one's own *)

IssueClaim(u, c, v) ==
  /\ u \in AgencyStaff /\ claim[c] = Unclaimed
  /\ claim' = [claim EXCEPT ![c].for = v]
  /\ UNCHANGED <<memberVars, grant, tickets, page, selected>>

ClaimRunsOut(c) ==
  /\ claim[c] # Unclaimed /\ ~claim[c].over
  /\ claim' = [claim EXCEPT ![c].over = TRUE]
  /\ UNCHANGED <<memberVars, grant, tickets, page, selected>>

(* No select has the row of the claim locked. *)
ClaimFree(c) == \A t \in Tabs : page[t].claim = c => page[t].picked = NoPlace

(* The link is opened, again and again: the first to do so keeps the claim. *)
ConsumeClaim(t, c) ==
  /\ page[t].picked = NoPlace /\ ClaimFree(c)
  /\ ~claim[c].over /\ claim[c].for = UserOf[t]
  /\ claim[c].by \in {NoUser, UserOf[t]}
  /\ claim' = [claim EXCEPT ![c].by = UserOf[t]]
  /\ page' = [page EXCEPT ![t] = [NoPage EXCEPT !.claim = c]]
  /\ UNCHANGED <<memberVars, grant, tickets, selected>>

PlacesOf(c, u) ==
  IF claim[c].over THEN {}
  ELSE IF claim[c].chosen # NotGranted
  THEN {grant[g].place : g \in {h \in {claim[c].chosen} : InForce(grant[h])}}
  ELSE {l \in Places : Runs(u, BusinessOf[l])}

ListPlaces(t) ==
  /\ page[t].claim # NoClaim /\ page[t].places = {}
  /\ page' = [page EXCEPT ![t].places = PlacesOf(page[t].claim, UserOf[t])]
  /\ UNCHANGED <<memberVars, grant, tickets, claim, selected>>

(* Slip: a grant that was revoked since is replaced by a new one. *)
ChosenWhileLive(c) == claim[c].chosen # NotGranted /\ InForce(grant[claim[c].chosen])

Chosen(c) == claim[c].chosen # NotGranted

(* The row of the claim is locked and read: its grant is handed out again, *)
(* or, for want of one, the place is looked at; an error ends the page.    *)
PickPlace(t, l) ==
  LET c == page[t].claim IN
  /\ l \in page[t].places /\ page[t].picked = NoPlace /\ page[t].held = NotGranted
  /\ ClaimFree(c)
  /\ page' = [page EXCEPT ![t] =
       IF claim[c].over THEN NoPage
       ELSE IF Chosen(c)
       THEN IF InForce(grant[claim[c].chosen])
              THEN [page[t] EXCEPT !.held = claim[c].chosen] ELSE NoPage
       ELSE IF Runs(UserOf[t], BusinessOf[l])
              THEN [page[t] EXCEPT !.picked = l] ELSE NoPage]
  /\ UNCHANGED <<memberVars, grant, tickets, claim, selected>>

(* The grant is inserted, and the claim names it; the answer may be lost.  *)
GrantPicked(t) ==
  LET c == page[t].claim  l == page[t].picked IN
  /\ l # NoPlace
  /\ PlaceFree(grant, l)
  /\ FreshGrants # {}
  /\ grant' = Inserted(grant, FreshGrant, "active", l, c)
  /\ claim' = [claim EXCEPT ![c].chosen = FreshGrant]
  /\ \E answer \in {[page[t] EXCEPT !.picked = NoPlace, !.held = FreshGrant], NoPage} :
        page' = [page EXCEPT ![t] = answer]
  /\ UNCHANGED <<memberVars, tickets, selected>>

(* The place has an open grant, also one that has run out, or the          *)
(* connection ends.                                                        *)
PickFails(t) ==
  /\ page[t].picked # NoPlace
  /\ page' = [page EXCEPT ![t] = NoPage]
  /\ UNCHANGED <<memberVars, grant, tickets, claim, selected>>

MembershipNext ==
  \E u \in Users :
    \/ \E b \in Businesses, v \in Users, to \in Memberships :
          ExamineMembership(u, b, v, to)
    \/ WriteMembership(u) \/ ChangeAborts(u)

GrantNext ==
  \/ \E u \in Users, l \in Places : RequestGrant(u, l)
  \/ \E u \in Users : RevokeInAgency(u)
  \/ \E u \in Users, g \in ClientGrants :
       AcceptGrant(u, g) \/ RejectGrant(u, g)
  \/ \E g \in ClientGrants : GrantRunsOut(g)
  \/ \E t \in Tabs : RevokeAsClient(t)
  \/ ListActive

TicketNext ==
  \/ \E u \in Users, g \in ClientGrants : IssueTicket(u, g)
  \/ \E k \in tickets : ConsumeTicket(k)

ClaimNext ==
  \/ \E u \in Users, c \in Claims, t \in Tabs : IssueClaim(u, c, UserOf[t])
  \/ \E c \in Claims : ClaimRunsOut(c)
  \/ \E t \in Tabs :
       \/ \E c \in Claims : ConsumeClaim(t, c)
       \/ \E l \in Places : PickPlace(t, l)
       \/ ListPlaces(t) \/ GrantPicked(t) \/ PickFails(t)

AccessNext == MembershipNext \/ GrantNext \/ TicketNext \/ ClaimNext

AccessSpec == AccessInit /\ [][AccessNext]_accessVars

-----------------------------------------------------------------------------
(* A business never loses its last owner, also when its owners remove each *)
(* other at the same time (set_business_membership).                       *)
BusinessKeepsAnOwner ==
  \A b \in Businesses : \E u \in Users : member[b][u] = Owner

(* A claim is worth one grant: whoever opens its link again, in two tabs   *)
(* at once or after the grant was revoked, gets that grant or nothing      *)
(* (select_agency_client_claim_location).                                  *)
ClaimGivesAccessOnce ==
  \A g, h \in ClientGrants :
    grant[g].from # NoClaim /\ grant[g].from = grant[h].from => g = h

=============================================================================
