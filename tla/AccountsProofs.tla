--------------------------- MODULE AccountsProofs ---------------------------
(* What signing up, memberships, claims and the billing account promise,    *)
(* for any people, places, grants, limits, Checkout attempts and events, in *)
(* whatever order Stripe delivers them.                                     *)
EXTENDS Signup, ClientAccess, StripeBilling, FiniteSetTheorems, TLAPS

-----------------------------------------------------------------------------
(* Signing up.                                                              *)

Stages == {"unused", "counted", "issued", "verified", "registering", "registered"}

SignupTypeOK ==
  /\ stage \in [Intents -> Stages] /\ address \in [Intents -> Addresses]
  /\ users \subseteq Intents
  /\ recent \subseteq Intents /\ IsFiniteSet(recent)

(* Who has counted has the address to itself, and there is room for the    *)
(* link that it is about to insert.                                        *)
CountsAlone ==
  \A i, j \in Intents :
    stage[i] = "counted" /\ stage[j] = "counted" /\ address[i] = address[j] => i = j

RoomIsKept ==
  /\ \A a \in Addresses : Cardinality(LinksOf(a)) <= MailLimit
  /\ \A i \in Intents : stage[i] = "counted" => Cardinality(LinksOf(address[i])) < MailLimit

SignupInv == SignupTypeOK /\ CountsAlone /\ RoomIsKept /\ OneAccountPerAddress

LEMMA LinksAreFinite ==
  ASSUME SignupTypeOK, NEW a
  PROVE  IsFiniteSet(LinksOf(a)) /\ Cardinality(LinksOf(a)) \in Nat
<1>1. LinksOf(a) \in SUBSET recent
  BY DEF LinksOf
<1>2. IsFiniteSet(LinksOf(a))
  BY <1>1, FS_Subset DEF SignupTypeOK
<1> QED
  BY <1>2, FS_CardinalityType

(* A step that neither counts nor issues leaves the room that was kept.    *)
LEMMA RoomStays ==
  ASSUME SignupInv, SignupTypeOK', address' = address, recent' \subseteq recent,
         \A i \in Intents : stage'[i] = "counted" => stage[i] = "counted"
  PROVE  CountsAlone' /\ RoomIsKept'
<1> USE SignupAssumption DEF SignupInv
<1>1. CountsAlone'
  BY DEF CountsAlone
<1>2. ASSUME NEW a \in Addresses
      PROVE  /\ Cardinality(LinksOf(a)') <= Cardinality(LinksOf(a))
             /\ Cardinality(LinksOf(a)') \in Nat /\ Cardinality(LinksOf(a)) \in Nat
  <2>1. LinksOf(a)' \in SUBSET LinksOf(a)
    BY DEF LinksOf
  <2>2. IsFiniteSet(LinksOf(a)) /\ Cardinality(LinksOf(a)) \in Nat
    BY LinksAreFinite
  <2>3. IsFiniteSet(LinksOf(a)') /\ Cardinality(LinksOf(a)') <= Cardinality(LinksOf(a))
    BY <2>1, <2>2, FS_Subset
  <2> QED
    BY <2>2, <2>3, FS_CardinalityType
<1>3. \A a \in Addresses : Cardinality(LinksOf(a)') <= MailLimit
  BY <1>2 DEF RoomIsKept
<1>4. ASSUME NEW i \in Intents, stage'[i] = "counted"
      PROVE  Cardinality(LinksOf(address[i])') < MailLimit
  <2>1. address[i] \in Addresses /\ Cardinality(LinksOf(address[i])) < MailLimit
    BY <1>4 DEF RoomIsKept, SignupTypeOK
  <2>2. LinksOf(address[i])' = LinksOf(address[i]) \cap recent'
    BY DEF LinksOf
  <2> QED
    BY <1>2, <2>1, <2>2
<1> QED
  BY <1>1, <1>3, <1>4 DEF RoomIsKept

LEMMA CountKeeps ==
  ASSUME SignupInv, NEW i \in Intents, CountLinks(i)
  PROVE  SignupInv'
<1> USE DEF SignupInv, CountLinks
<1>1. SignupTypeOK' /\ OneAccountPerAddress'
  BY DEF SignupTypeOK, Stages, OneAccountPerAddress
<1>2. CountsAlone'
  BY DEF CountsAlone, AddressFree, SignupTypeOK
<1>3. \A a : LinksOf(a)' = LinksOf(a)
  BY DEF LinksOf
<1>4. RoomIsKept'
  BY <1>3 DEF RoomIsKept, SignupTypeOK
<1> QED
  BY <1>1, <1>2, <1>4

LEMMA IssueKeeps ==
  ASSUME SignupInv, NEW i \in Intents, IssueLink(i)
  PROVE  SignupInv'
<1> USE SignupAssumption DEF SignupInv, IssueLink
<1>1. SignupTypeOK'
  BY FS_AddElement DEF SignupTypeOK, Stages
<1>2. OneAccountPerAddress' /\ CountsAlone'
  BY DEF OneAccountPerAddress, CountsAlone, SignupTypeOK
<1>3. ASSUME NEW a \in Addresses, a # address[i]
      PROVE  LinksOf(a)' = LinksOf(a)
  BY <1>3 DEF LinksOf
<1>4. Cardinality(LinksOf(address[i])') <= MailLimit
  <2>1. LinksOf(address[i])' = LinksOf(address[i]) \cup {i}
    BY DEF LinksOf, SignupTypeOK
  <2>2. Cardinality(LinksOf(address[i])) < MailLimit
    BY DEF RoomIsKept
  <2>3. IsFiniteSet(LinksOf(address[i])) /\ Cardinality(LinksOf(address[i])) \in Nat
    BY LinksAreFinite
  <2>4. Cardinality(LinksOf(address[i]) \cup {i})
          \in {Cardinality(LinksOf(address[i])), Cardinality(LinksOf(address[i])) + 1}
    BY <2>3, FS_AddElement
  <2> HIDE DEF IssueLink, SignupInv
  <2> QED
    BY <2>1, <2>2, <2>3, <2>4
<1>5. \A a \in Addresses : Cardinality(LinksOf(a)') <= MailLimit
  BY <1>3, <1>4 DEF RoomIsKept
<1>6. ASSUME NEW j \in Intents, stage'[j] = "counted"
      PROVE  Cardinality(LinksOf(address[j])') < MailLimit
  <2>1. j # i /\ stage[j] = "counted"
    BY <1>6 DEF SignupTypeOK
  <2>2. address[j] # address[i] /\ address[j] \in Addresses
    BY <2>1 DEF CountsAlone, SignupTypeOK
  <2>3. LinksOf(address[j])' = LinksOf(address[j])
    BY <1>3, <2>2 DEF LinksOf
  <2> QED
    BY <2>1, <2>3 DEF RoomIsKept
<1> QED
  BY <1>1, <1>2, <1>5, <1>6 DEF RoomIsKept

LEMMA StepKeeps ==
  ASSUME SignupInv, [SignupNext]_signupVars
  PROVE  SignupInv'
<1>1. ASSUME UNCHANGED signupVars PROVE SignupInv'
  BY <1>1 DEF signupVars, SignupInv, SignupTypeOK, CountsAlone, RoomIsKept, LinksOf,
              OneAccountPerAddress
<1>2. ASSUME NEW i \in Intents, CountLinks(i) PROVE SignupInv'
  BY <1>2, CountKeeps
<1>3. ASSUME NEW i \in Intents, IssueLink(i) PROVE SignupInv'
  BY <1>3, IssueKeeps
<1>4. ASSUME NEW i \in Intents, FollowLink(i) \/ LinkLapses(i) \/ LookForUser(i) \/ RegisterFails(i)
      PROVE  SignupInv'
  <2> USE <1>4 DEF SignupInv, FollowLink, LinkLapses, LookForUser, RegisterFails
  <2>1. SignupTypeOK' /\ OneAccountPerAddress'
    BY DEF SignupTypeOK, Stages, OneAccountPerAddress
  <2>2. CountsAlone' /\ RoomIsKept'
    BY <2>1, RoomStays DEF SignupTypeOK
  <2> QED
    BY <2>1, <2>2
<1>5. ASSUME NEW i \in Intents, WindowPasses(i) PROVE SignupInv'
  <2> USE <1>5 DEF SignupInv, WindowPasses
  <2>1. SignupTypeOK' /\ OneAccountPerAddress'
    BY FS_RemoveElement DEF SignupTypeOK, OneAccountPerAddress
  <2>2. CountsAlone' /\ RoomIsKept'
    BY <2>1, RoomStays
  <2> QED
    BY <2>1, <2>2
<1>6. ASSUME NEW i \in Intents, Register(i) PROVE SignupInv'
  <2> USE <1>6 DEF SignupInv, Register
  <2>1. SignupTypeOK'
    BY DEF SignupTypeOK, Stages
  <2>2. OneAccountPerAddress'
    BY DEF OneAccountPerAddress, Insertable, Registered
  <2>3. CountsAlone' /\ RoomIsKept'
    BY <2>1, RoomStays DEF SignupTypeOK
  <2> QED
    BY <2>1, <2>2, <2>3
<1> QED
  BY <1>1, <1>2, <1>3, <1>4, <1>5, <1>6 DEF SignupNext

LEMMA SignupIsInductive == SignupSpec => []SignupInv
<1>1. SignupInit => SignupInv
  <2> SUFFICES ASSUME SignupInit PROVE SignupInv
    OBVIOUS
  <2>1. \A a : LinksOf(a) = {}
    BY DEF SignupInit, LinksOf
  <2>2. SignupTypeOK /\ CountsAlone /\ OneAccountPerAddress
    BY FS_EmptySet DEF SignupInit, SignupTypeOK, Stages, CountsAlone, OneAccountPerAddress
  <2>3. RoomIsKept
    BY <2>1, FS_EmptySet, SignupAssumption DEF SignupInit, RoomIsKept
  <2> QED
    BY <2>2, <2>3 DEF SignupInv
<1>2. SignupInv /\ [SignupNext]_signupVars => SignupInv'
  BY StepKeeps
<1> QED
  BY <1>1, <1>2, PTL DEF SignupSpec

(* Nobody is sent more links in fifteen minutes than the limit, however    *)
(* many requests count at the same time (create_signup_intent).            *)
THEOREM LinksStayWithinTheLimit == SignupSpec => []MailsAreLimited
<1>1. SignupInv => MailsAreLimited
  <2> SUFFICES ASSUME SignupInv, NEW a \in Addresses
               PROVE  Cardinality(LinksOf(a) \cap mailed) <= MailLimit
    BY DEF MailsAreLimited
  <2>1. IsFiniteSet(LinksOf(a)) /\ Cardinality(LinksOf(a)) \in Nat
    BY LinksAreFinite DEF SignupInv
  <2>2. LinksOf(a) \cap mailed \in SUBSET LinksOf(a)
    OBVIOUS
  <2>3. /\ Cardinality(LinksOf(a) \cap mailed) <= Cardinality(LinksOf(a))
        /\ IsFiniteSet(LinksOf(a) \cap mailed)
    BY <2>1, <2>2, FS_Subset
  <2>4. Cardinality(LinksOf(a) \cap mailed) \in Nat
    BY <2>3, FS_CardinalityType
  <2> QED
    BY <2>1, <2>3, <2>4, SignupAssumption DEF SignupInv, RoomIsKept
<1> QED
  BY <1>1, SignupIsInductive, PTL

(* An address gets one account, whichever of its links are registered at   *)
(* the same time (register_verified_signup).                               *)
THEOREM AddressesGetOneAccount == SignupSpec => []OneAccountPerAddress
<1>1. SignupInv => OneAccountPerAddress
  BY DEF SignupInv
<1> QED
  BY <1>1, SignupIsInductive, PTL

-----------------------------------------------------------------------------
(* Memberships and claims.                                                  *)

-----------------------------------------------------------------------------
(* Memberships *)

MembersTypeOK ==
  /\ member \in [Businesses -> [Users -> Memberships \cup {Never}]]
  /\ changing \in [Users -> Changes \cup {NoChange}]

(* The lock of a business has one holder, ... *)
OneChangeAtATime ==
  \A u, v \in Users :
    changing[u] # NoChange /\ changing[u].business = changing[v].business => u = v

(* ... and what its holder has seen is still so when it writes.            *)
LeavesAnOwner ==
  \A u \in Users :
    LET c == changing[u] IN
    c # NoChange /\ member[c.business][c.target] = Owner /\ c.to # Owner
      => AnotherOwner(c.business, c.target)

MembersInv == MembersTypeOK /\ OneChangeAtATime /\ LeavesAnOwner /\ BusinessKeepsAnOwner

LEMMA ChangesAreChanges ==
  ASSUME MembersTypeOK, NEW u \in Users
  PROVE  /\ changing[u] = NoChange <=> changing[u].business = NoBusiness
         /\ changing[u] # NoChange =>
              /\ changing[u].business \in Businesses /\ changing[u].target \in Users
              /\ changing[u].to \in Memberships
<1>1. changing[u] \in Changes \/ changing[u] = NoChange
  BY DEF MembersTypeOK
<1> QED
  BY <1>1, AccessAssumption DEF Changes, NoChange

LEMMA ExamineKeeps ==
  ASSUME MembersInv, NEW u \in Users, NEW b \in Businesses, NEW v \in Users,
         NEW to \in Memberships, ExamineMembership(u, b, v, to)
  PROVE  MembersInv'
<1> USE DEF MembersInv, ExamineMembership
<1> DEFINE c == [business |-> b, target |-> v, to |-> to]
<1>1. c \in Changes /\ c.business = b /\ c.target = v /\ c.to = to
  BY DEF Changes
<1>2. MembersTypeOK'
  BY <1>1 DEF MembersTypeOK
<1>3. /\ changing'[u] = c
      /\ \A w \in Users \ {u} : changing'[w] = changing[w]
  BY DEF MembersTypeOK
<1>4. \A w \in Users : changing[w].business # b
  BY DEF MembersFree
<1>5. OneChangeAtATime'
  <2> SUFFICES ASSUME NEW x \in Users, NEW y \in Users, changing'[x] # NoChange,
                      changing'[x].business = changing'[y].business
               PROVE  x = y
    BY DEF OneChangeAtATime
  <2>1. CASE x # u /\ y # u
    BY <2>1, <1>3 DEF OneChangeAtATime
  <2>2. CASE x = u \/ y = u
    BY <2>2, <1>1, <1>3, <1>4
  <2> QED
    BY <2>1, <2>2
<1>6. LeavesAnOwner'
  <2> SUFFICES ASSUME NEW w \in Users, changing'[w] # NoChange,
                      member[changing'[w].business][changing'[w].target] = Owner,
                      changing'[w].to # Owner
               PROVE  AnotherOwner(changing'[w].business, changing'[w].target)
    BY DEF LeavesAnOwner, AnotherOwner
  <2>1. CASE w = u
    BY <2>1, <1>1, <1>3
  <2>2. CASE w # u
    BY <2>2, <1>3 DEF LeavesAnOwner
  <2> QED
    BY <2>1, <2>2
<1> QED
  BY <1>2, <1>5, <1>6 DEF BusinessKeepsAnOwner

LEMMA WriteKeeps ==
  ASSUME MembersInv, NEW u \in Users, WriteMembership(u)
  PROVE  MembersInv'
<1> USE DEF MembersInv, WriteMembership
<1> DEFINE c == changing[u]
<1>1. /\ c.business \in Businesses /\ c.target \in Users /\ c.to \in Memberships
      /\ c # NoChange
  BY ChangesAreChanges
<1>2. MembersTypeOK'
  BY <1>1 DEF MembersTypeOK
<1>3. /\ changing'[u] = NoChange
      /\ \A w \in Users \ {u} : changing'[w] = changing[w]
  BY DEF MembersTypeOK
<1>4. OneChangeAtATime'
  <2> SUFFICES ASSUME NEW x \in Users, NEW y \in Users, changing'[x] # NoChange,
                      changing'[x].business = changing'[y].business
               PROVE  x = y
    BY DEF OneChangeAtATime
  <2>1. x # u /\ changing[x] # NoChange
    BY <1>3
  <2>2. CASE y = u
    <3>1. changing'[x].business = NoBusiness
      BY <1>3, <2>2 DEF NoChange
    <3> QED
      BY <3>1, <2>1, <1>3, ChangesAreChanges
  <2>3. CASE y # u
    BY <2>1, <2>3, <1>3 DEF OneChangeAtATime
  <2> QED
    BY <2>2, <2>3
<1>5. /\ \A b \in Businesses \ {c.business} : member'[b] = member[b]
      /\ \A v \in Users \ {c.target} : member'[c.business][v] = member[c.business][v]
      /\ member'[c.business][c.target] = c.to
  BY <1>1 DEF MembersTypeOK
<1>6. LeavesAnOwner'
  <2> SUFFICES ASSUME NEW w \in Users, changing'[w] # NoChange,
                      member'[changing'[w].business][changing'[w].target] = Owner,
                      changing'[w].to # Owner
               PROVE  AnotherOwner(changing[w].business, changing[w].target)'
    BY DEF LeavesAnOwner, AnotherOwner
  <2>1. w # u /\ changing'[w] = changing[w] /\ changing[w] # NoChange
    BY <1>3
  <2>2. changing[w].business \in Businesses /\ changing[w].business # c.business
    BY <2>1, <1>1, ChangesAreChanges DEF OneChangeAtATime
  <2>3. member'[changing[w].business] = member[changing[w].business]
    BY <2>2, <1>5
  <2>4. AnotherOwner(changing[w].business, changing[w].target)
    BY <2>1, <2>3 DEF LeavesAnOwner
  <2> QED
    BY <2>1, <2>3, <2>4 DEF AnotherOwner
<1>7. BusinessKeepsAnOwner'
  <2> SUFFICES ASSUME NEW b \in Businesses
               PROVE  \E v \in Users : member'[b][v] = Owner
    BY DEF BusinessKeepsAnOwner
  <2>1. CASE b # c.business
    BY <2>1, <1>5 DEF BusinessKeepsAnOwner
  <2>2. CASE b = c.business /\ c.to = Owner
    BY <2>2, <1>1, <1>5
  <2>3. CASE b = c.business /\ c.to # Owner /\ member[b][c.target] = Owner
    <3>1. PICK v \in Users \ {c.target} : member[b][v] = Owner
      BY <2>3, <1>1 DEF LeavesAnOwner, AnotherOwner
    <3> QED
      BY <3>1, <2>3, <1>5
  <2>4. CASE b = c.business /\ member[b][c.target] # Owner
    <3>1. PICK v \in Users : member[b][v] = Owner
      BY DEF BusinessKeepsAnOwner
    <3> QED
      BY <3>1, <2>4, <1>5
  <2> QED
    BY <2>1, <2>2, <2>3, <2>4
<1> QED
  BY <1>2, <1>4, <1>6, <1>7

LEMMA AbortKeeps ==
  ASSUME MembersInv, NEW u \in Users, ChangeAborts(u)
  PROVE  MembersInv'
<1> USE DEF MembersInv, ChangeAborts
<1>1. MembersTypeOK'
  BY DEF MembersTypeOK
<1>2. /\ changing'[u] = NoChange
      /\ \A w \in Users \ {u} : changing'[w] = changing[w]
  BY DEF MembersTypeOK
<1>3. OneChangeAtATime'
  <2> SUFFICES ASSUME NEW x \in Users, NEW y \in Users, changing'[x] # NoChange,
                      changing'[x].business = changing'[y].business
               PROVE  x = y
    BY DEF OneChangeAtATime
  <2>1. x # u /\ changing[x] # NoChange
    BY <1>2
  <2>2. CASE y = u
    <3>1. changing'[x].business = NoBusiness
      BY <1>2, <2>2 DEF NoChange
    <3> QED
      BY <3>1, <2>1, <1>2, ChangesAreChanges
  <2>3. CASE y # u
    BY <2>1, <2>3, <1>2 DEF OneChangeAtATime
  <2> QED
    BY <2>2, <2>3
<1>4. LeavesAnOwner' /\ BusinessKeepsAnOwner'
  BY <1>2 DEF LeavesAnOwner, BusinessKeepsAnOwner, AnotherOwner
<1> QED
  BY <1>1, <1>3, <1>4

(* No other function touches a membership. *)
LEMMA AccessLeavesMembers ==
  ASSUME GrantNext \/ TicketNext \/ ClaimNext
  PROVE  UNCHANGED memberVars
BY DEF GrantNext, TicketNext, ClaimNext, RequestGrant, AcceptGrant, RejectGrant, GrantRunsOut,
       ListActive, RevokeInAgency, RevokeAsClient, IssueTicket, ConsumeTicket, IssueClaim,
       ClaimRunsOut, ConsumeClaim, ListPlaces, PickPlace, GrantPicked, PickFails

(* A business never loses its last owner, whoever changes its memberships  *)
(* at the same time (set_business_membership).                             *)
THEOREM OwnersRemain == AccessSpec => []BusinessKeepsAnOwner
<1>1. AccessInit => MembersInv
  <2> SUFFICES ASSUME AccessInit PROVE MembersInv
    OBVIOUS
  <2>1. Owner \in Memberships
    BY DEF Owner, Memberships, Roles, Leads
  <2>2. MembersTypeOK
    BY <2>1 DEF AccessInit, MembersTypeOK
  <2>3. OneChangeAtATime /\ LeavesAnOwner
    BY DEF AccessInit, OneChangeAtATime, LeavesAnOwner
  <2>4. BusinessKeepsAnOwner
    <3> SUFFICES ASSUME NEW b \in Businesses
                 PROVE  \E u \in Users : member[b][u] = Owner
      BY DEF BusinessKeepsAnOwner
    <3>1. PICK u \in Users : u \in Owners[b]
      BY AccessAssumption
    <3> QED
      BY <3>1 DEF AccessInit
  <2> QED
    BY <2>2, <2>3, <2>4 DEF MembersInv
<1>2. ASSUME MembersInv, [AccessNext]_accessVars PROVE MembersInv'
  <2>1. CASE UNCHANGED memberVars
    BY <1>2, <2>1 DEF memberVars, MembersInv, MembersTypeOK, OneChangeAtATime, LeavesAnOwner,
                      AnotherOwner, BusinessKeepsAnOwner
  <2>2. CASE MembershipNext
    BY <1>2, <2>2, ExamineKeeps, WriteKeeps, AbortKeeps DEF MembershipNext
  <2> QED
    BY <1>2, <2>1, <2>2, AccessLeavesMembers DEF AccessNext, accessVars
<1>3. MembersInv => BusinessKeepsAnOwner
  BY DEF MembersInv
<1> QED
  BY <1>1, <1>2, <1>3, PTL DEF AccessSpec

-----------------------------------------------------------------------------
(* Claims *)

Statuses == {"absent", "requested", "active", "rejected", "revoked"}

GrantRows == [status : Statuses, place : Places \cup {NoPlace},
              over : BOOLEAN, from : Claims \cup {NoClaim}]
ClaimRows == [for : Users \cup {NoUser}, by : Users \cup {NoUser},
              chosen : ClientGrants \cup {NotGranted}, over : BOOLEAN]
PageRows == [claim : Claims \cup {NoClaim}, places : SUBSET (Places \cup {NoPlace}),
             picked : Places \cup {NoPlace}, held : ClientGrants \cup {NotGranted}]

ClaimsTypeOK ==
  /\ grant \in [ClientGrants -> GrantRows]
  /\ claim \in [Claims -> ClaimRows]
  /\ page \in [Tabs -> PageRows]
  /\ \A t \in Tabs : page[t].places # {} => page[t].claim # NoClaim

(* A claim names the grant that was made from it. *)
ClaimsNameTheirGrants ==
  \A g \in ClientGrants :
    grant[g].from # NoClaim => claim[grant[g].from].chosen = g

(* Whoever has picked a place has the row of the claim to itself, and the  *)
(* claim has no grant yet.                                                 *)
PicksAreFirst ==
  \A t \in Tabs : page[t].picked # NoPlace =>
    /\ page[t].claim # NoClaim /\ claim[page[t].claim].chosen = NotGranted
    /\ \A s \in Tabs : page[s].claim = page[t].claim /\ page[s].picked # NoPlace => s = t

ClaimsInv == ClaimsTypeOK /\ ClaimsNameTheirGrants /\ PicksAreFirst

claimVars == <<grant, claim, page>>

LEMMA RowsAreRows ==
  ASSUME ClaimsTypeOK, NEW g \in ClientGrants
  PROVE  /\ grant[g] \in GrantRows
         /\ Revoked(grant[g]) \in GrantRows /\ Revoked(grant[g]).from = grant[g].from
         /\ [grant[g] EXCEPT !.status = "rejected"] \in GrantRows
         /\ [grant[g] EXCEPT !.status = "rejected"].from = grant[g].from
         /\ [grant[g] EXCEPT !.over = TRUE] \in GrantRows
         /\ [grant[g] EXCEPT !.over = TRUE].from = grant[g].from
<1>1. grant[g] \in GrantRows
  BY DEF ClaimsTypeOK
<1> QED
  BY <1>1 DEF GrantRows, Revoked, Statuses

LEMMA ClaimsAreRows ==
  ASSUME ClaimsTypeOK, NEW c \in Claims
  PROVE  /\ claim[c] \in ClaimRows
         /\ [claim[c] EXCEPT !.over = TRUE] \in ClaimRows
         /\ [claim[c] EXCEPT !.over = TRUE].chosen = claim[c].chosen
         /\ \A u \in Users : /\ [claim[c] EXCEPT !.for = u] \in ClaimRows
                             /\ [claim[c] EXCEPT !.for = u].chosen = claim[c].chosen
                             /\ [claim[c] EXCEPT !.by = u] \in ClaimRows
                             /\ [claim[c] EXCEPT !.by = u].chosen = claim[c].chosen
         /\ \A g \in ClientGrants : /\ [claim[c] EXCEPT !.chosen = g] \in ClaimRows
                                    /\ [claim[c] EXCEPT !.chosen = g].chosen = g
<1>1. claim[c] \in ClaimRows
  BY DEF ClaimsTypeOK
<1> QED
  BY <1>1 DEF ClaimRows

LEMMA PagesAreRows ==
  ASSUME ClaimsTypeOK, NEW t \in Tabs
  PROVE  /\ page[t] \in PageRows /\ NoPage \in PageRows
         /\ \A c \in Claims : [NoPage EXCEPT !.claim = c] \in PageRows
         /\ \A l \in Places : [page[t] EXCEPT !.picked = l] \in PageRows
         /\ \A g \in ClientGrants \cup {NotGranted} :
              /\ [page[t] EXCEPT !.held = g] \in PageRows
              /\ [page[t] EXCEPT !.picked = NoPlace, !.held = g] \in PageRows
<1>1. page[t] \in PageRows
  BY DEF ClaimsTypeOK
<1> QED
  BY <1>1 DEF PageRows, NoPage

LEMMA SweptRows ==
  ASSUME ClaimsTypeOK
  PROVE  /\ Swept \in [ClientGrants -> GrantRows]
         /\ \A g \in ClientGrants : Swept[g].from = grant[g].from
BY RowsAreRows DEF Swept

LEMMA FreshRow ==
  ASSUME FreshGrants # {}
  PROVE  FreshGrant \in ClientGrants /\ grant[FreshGrant] = Absent
BY DEF FreshGrants, FreshGrant

(* What leaves the origin of the grants, the claims and the pages alone.   *)
LEMMA OriginsStay ==
  ASSUME ClaimsInv, ClaimsTypeOK', claim' = claim,
         \A g \in ClientGrants : grant'[g].from \in {grant[g].from, NoClaim},
         \A t \in Tabs : page'[t].picked # NoPlace => page'[t] = page[t]
  PROVE  ClaimsInv'
<1>1. ClaimsNameTheirGrants'
  BY DEF ClaimsInv, ClaimsNameTheirGrants
<1>2. PicksAreFirst'
  <2> SUFFICES ASSUME NEW t \in Tabs, page'[t].picked # NoPlace
               PROVE  /\ page[t].claim # NoClaim /\ claim[page[t].claim].chosen = NotGranted
                      /\ page'[t] = page[t]
                      /\ \A s \in Tabs : page'[s].claim = page[t].claim
                                           /\ page'[s].picked # NoPlace => s = t
    BY DEF PicksAreFirst
  <2> QED
    BY DEF ClaimsInv, PicksAreFirst
<1> QED
  BY <1>1, <1>2 DEF ClaimsInv

LEMMA RowRewritten ==
  ASSUME ClaimsInv, NEW h \in ClientGrants, NEW row \in GrantRows, row.from = grant[h].from,
         grant' = [grant EXCEPT ![h] = row], UNCHANGED <<claim, page>>
  PROVE  ClaimsInv'
<1>1. grant' \in [ClientGrants -> GrantRows]
      /\ \A g \in ClientGrants : grant'[g].from = grant[g].from
  BY DEF ClaimsInv, ClaimsTypeOK
<1> QED
  BY <1>1, OriginsStay DEF ClaimsInv, ClaimsTypeOK

LEMMA GrantsKeep ==
  ASSUME ClaimsInv, GrantNext
  PROVE  ClaimsInv'
<1> USE DEF ClaimsInv
<1>1. ASSUME NEW u \in Users, NEW l \in Places, RequestGrant(u, l) PROVE ClaimsInv'
  <2>1. FreshGrant \in ClientGrants
    BY <1>1, FreshRow DEF RequestGrant
  <2>2. grant' = [Swept EXCEPT ![FreshGrant] =
                    [status |-> "requested", place |-> l, over |-> FALSE, from |-> NoClaim]]
    BY <1>1 DEF RequestGrant, Inserted
  <2>3. grant' \in [ClientGrants -> GrantRows]
    BY <2>1, <2>2, SweptRows DEF GrantRows, Statuses
  <2>4. \A g \in ClientGrants : grant'[g].from \in {grant[g].from, NoClaim}
    BY <2>1, <2>2, SweptRows
  <2> QED
    BY <1>1, <2>3, <2>4, OriginsStay DEF RequestGrant, ClaimsTypeOK
<1>2. ASSUME NEW u \in Users, RevokeInAgency(u) PROVE ClaimsInv'
  <2>1. grant' \in [ClientGrants -> GrantRows]
        /\ \A g \in ClientGrants : grant'[g].from = grant[g].from
    BY <1>2, RowsAreRows DEF RevokeInAgency, ClaimsTypeOK
  <2> QED
    BY <1>2, <2>1, OriginsStay DEF RevokeInAgency, ClaimsTypeOK
<1>3. ASSUME NEW u \in Users, NEW h \in ClientGrants, AcceptGrant(u, h) PROVE ClaimsInv'
  <2>1. [Swept[h] EXCEPT !.status = "active"] \in GrantRows
        /\ [Swept[h] EXCEPT !.status = "active"].from = Swept[h].from
    BY SweptRows DEF GrantRows, Statuses
  <2>2. grant' \in [ClientGrants -> GrantRows]
        /\ \A g \in ClientGrants : grant'[g].from = grant[g].from
    BY <1>3, <2>1, SweptRows DEF AcceptGrant
  <2> QED
    BY <1>3, <2>2, OriginsStay DEF AcceptGrant, ClaimsTypeOK
<1>4. ASSUME NEW u \in Users, NEW h \in ClientGrants, RejectGrant(u, h) PROVE ClaimsInv'
  BY <1>4, RowsAreRows, RowRewritten DEF RejectGrant
<1>5. ASSUME NEW h \in ClientGrants, GrantRunsOut(h) PROVE ClaimsInv'
  BY <1>5, RowsAreRows, RowRewritten DEF GrantRunsOut
<1>6. ASSUME NEW t \in Tabs, RevokeAsClient(t) PROVE ClaimsInv'
  <2>1. grant' \in [ClientGrants -> GrantRows]
        /\ \A g \in ClientGrants : grant'[g].from = grant[g].from
    BY <1>6, RowsAreRows DEF RevokeAsClient, ClaimsTypeOK
  <2>2. ClaimsTypeOK'
    BY <1>6, <2>1, PagesAreRows DEF RevokeAsClient, ClaimsTypeOK, NoPage
  <2>3. \A s \in Tabs : page'[s].picked # NoPlace => page'[s] = page[s]
    BY <1>6 DEF RevokeAsClient, ClaimsTypeOK, NoPage
  <2> QED
    BY <1>6, <2>1, <2>2, <2>3, OriginsStay DEF RevokeAsClient
<1>7. ASSUME ListActive PROVE ClaimsInv'
  BY <1>7 DEF ListActive, ClaimsTypeOK, ClaimsNameTheirGrants, PicksAreFirst
<1> QED
  BY <1>1, <1>2, <1>3, <1>4, <1>5, <1>6, <1>7 DEF GrantNext

LEMMA TicketsKeep ==
  ASSUME ClaimsInv, TicketNext
  PROVE  ClaimsInv'
<1> USE DEF ClaimsInv
<1>1. ASSUME NEW u \in Users, NEW g \in ClientGrants, IssueTicket(u, g) PROVE ClaimsInv'
  BY <1>1, SweptRows, OriginsStay DEF IssueTicket, ClaimsTypeOK
<1>2. ASSUME NEW k \in tickets, ConsumeTicket(k) PROVE ClaimsInv'
  BY <1>2 DEF ConsumeTicket, ClaimsTypeOK, ClaimsNameTheirGrants, PicksAreFirst
<1> QED
  BY <1>1, <1>2 DEF TicketNext

(* A claim that is issued, runs out or is opened keeps its grant.          *)
LEMMA ChosenStays ==
  ASSUME ClaimsInv, ClaimsTypeOK', grant' = grant,
         \A c \in Claims : claim'[c].chosen = claim[c].chosen,
         \A t \in Tabs : page'[t].picked # NoPlace => page'[t] = page[t]
  PROVE  ClaimsInv'
<1> USE DEF ClaimsInv
<1>1. ClaimsNameTheirGrants'
  <2>1. \A g \in ClientGrants : grant[g].from \in Claims \cup {NoClaim}
    BY DEF ClaimsTypeOK, GrantRows
  <2> QED
    BY <2>1 DEF ClaimsNameTheirGrants
<1>2. ASSUME NEW t \in Tabs, page'[t].picked # NoPlace
      PROVE  /\ page'[t].claim # NoClaim /\ claim'[page'[t].claim].chosen = NotGranted
             /\ \A s \in Tabs : page'[s].claim = page'[t].claim /\ page'[s].picked # NoPlace => s = t
  <2>1. page'[t] = page[t] /\ page[t].claim \in Claims
    BY <1>2 DEF PicksAreFirst, ClaimsTypeOK, PageRows
  <2>2. claim'[page[t].claim].chosen = NotGranted
    BY <1>2, <2>1 DEF PicksAreFirst
  <2> QED
    BY <1>2, <2>1, <2>2 DEF PicksAreFirst
<1> QED
  BY <1>1, <1>2 DEF PicksAreFirst

LEMMA ClaimRewritten ==
  ASSUME ClaimsInv, NEW c \in Claims, NEW row \in ClaimRows, row.chosen = claim[c].chosen,
         claim' = [claim EXCEPT ![c] = row], UNCHANGED <<grant, page>>
  PROVE  ClaimsInv'
<1>1. claim' \in [Claims -> ClaimRows]
      /\ \A d \in Claims : claim'[d].chosen = claim[d].chosen
  BY DEF ClaimsInv, ClaimsTypeOK
<1> QED
  BY <1>1, ChosenStays DEF ClaimsInv, ClaimsTypeOK

LEMMA IssuingKeeps ==
  ASSUME ClaimsInv, NEW c \in Claims, NEW t \in Tabs,
         (\E u \in Users : IssueClaim(u, c, UserOf[t])) \/ ConsumeClaim(t, c)
  PROVE  ClaimsInv'
<1> USE AccessAssumption DEF ClaimsInv
<1>1. UserOf[t] \in Users
  OBVIOUS
<1>2. CASE \E u \in Users : IssueClaim(u, c, UserOf[t])
  <2>1. PICK u \in Users : IssueClaim(u, c, UserOf[t])
    BY <1>2
  <2>2. claim' = [claim EXCEPT ![c] = [claim[c] EXCEPT !.for = UserOf[t]]]
    BY <2>1 DEF IssueClaim
  <2> QED
    BY <1>1, <2>1, <2>2, ClaimRewritten, ClaimsAreRows DEF IssueClaim
<1>3. CASE ConsumeClaim(t, c)
  <2>1. claim' = [claim EXCEPT ![c] = [claim[c] EXCEPT !.by = UserOf[t]]]
        /\ page' = [page EXCEPT ![t] = [NoPage EXCEPT !.claim = c]]
        /\ grant' = grant
    BY <1>3 DEF ConsumeClaim
  <2>2. /\ [NoPage EXCEPT !.claim = c].picked = NoPlace
        /\ [NoPage EXCEPT !.claim = c].places = {}
    BY DEF NoPage
  <2>3. claim' \in [Claims -> ClaimRows]
        /\ \A d \in Claims : claim'[d].chosen = claim[d].chosen
    BY <1>1, <2>1, ClaimsAreRows DEF ClaimsTypeOK
  <2>4. \A s \in Tabs : page'[s].picked # NoPlace => page'[s] = page[s]
    BY <2>1, <2>2 DEF ClaimsTypeOK
  <2>5. ClaimsTypeOK'
    BY <2>1, <2>2, <2>3, PagesAreRows DEF ClaimsTypeOK
  <2> QED
    BY <2>1, <2>3, <2>4, <2>5, ChosenStays
<1> QED
  BY <1>2, <1>3

LEMMA RunningOutKeeps ==
  ASSUME ClaimsInv, NEW c \in Claims, ClaimRunsOut(c)
  PROVE  ClaimsInv'
<1>1. ClaimsTypeOK
  BY DEF ClaimsInv
<1> QED
  BY <1>1, ClaimRewritten, ClaimsAreRows DEF ClaimRunsOut

LEMMA ListingKeeps ==
  ASSUME ClaimsInv, NEW t \in Tabs, ListPlaces(t) \/ PickFails(t)
  PROVE  ClaimsInv'
<1> USE DEF ClaimsInv
<1>1. CASE ListPlaces(t)
  <2> DEFINE c == page[t].claim
  <2>1. c \in Claims
    BY <1>1 DEF ListPlaces, ClaimsTypeOK, PageRows
  <2>2. \A h \in ClientGrants : grant[h].place \in Places \cup {NoPlace}
    BY DEF ClaimsTypeOK, GrantRows
  <2>3. claim[c].chosen # NotGranted => claim[c].chosen \in ClientGrants
    BY <2>1 DEF ClaimsTypeOK, ClaimRows
  <2>4. PlacesOf(c, UserOf[t]) \in SUBSET (Places \cup {NoPlace})
    BY <2>2, <2>3 DEF PlacesOf
  <2>5. ClaimsTypeOK'
    BY <1>1, <2>1, <2>4 DEF ListPlaces, ClaimsTypeOK, PageRows
  <2>6. \A s \in Tabs : /\ page'[s].picked = page[s].picked
                        /\ page'[s].claim = page[s].claim
    BY <1>1 DEF ListPlaces, ClaimsTypeOK, PageRows
  <2> QED
    BY <1>1, <2>5, <2>6 DEF ListPlaces, ClaimsNameTheirGrants, PicksAreFirst
<1>2. CASE PickFails(t)
  <2>1. ClaimsTypeOK'
    BY <1>2, PagesAreRows DEF PickFails, ClaimsTypeOK, NoPage
  <2>2. \A s \in Tabs : page'[s].picked # NoPlace => page'[s] = page[s]
    BY <1>2 DEF PickFails, ClaimsTypeOK, NoPage
  <2> QED
    BY <1>2, <2>1, <2>2, ChosenStays DEF PickFails
<1> QED
  BY <1>1, <1>2

LEMMA PickKeeps ==
  ASSUME ClaimsInv, NEW t \in Tabs, NEW l \in Places, PickPlace(t, l)
  PROVE  ClaimsInv'
<1> DEFINE c == page[t].claim
<1> USE DEF ClaimsInv
<1>1. c \in Claims /\ page[t].picked = NoPlace /\ ClaimFree(c)
  BY DEF PickPlace, ClaimsTypeOK, PageRows
<1>2. PICK p : /\ page' = [page EXCEPT ![t] = p]
               /\ \/ p = NoPage
                  \/ p = [page[t] EXCEPT !.held = claim[c].chosen]
                  \/ p = [page[t] EXCEPT !.picked = l] /\ ~Chosen(c)
  BY DEF PickPlace
<1>3. /\ page'[t] = p
      /\ \A s \in Tabs \ {t} : page'[s] = page[s]
      /\ grant' = grant /\ claim' = claim
  BY <1>2 DEF PickPlace, ClaimsTypeOK
<1>4. claim[c].chosen \in ClientGrants \cup {NotGranted}
  BY <1>1 DEF ClaimsTypeOK, ClaimRows
<1>5. p \in PageRows /\ (p.places # {} => p.claim # NoClaim)
      /\ (p.picked # NoPlace => p.claim = c /\ ~Chosen(c))
  <2>1. CASE p = NoPage
    BY <2>1, PagesAreRows DEF NoPage
  <2>2. CASE p = [page[t] EXCEPT !.held = claim[c].chosen]
    <3>1. p \in PageRows /\ p.claim = c /\ p.picked = NoPlace
      BY <1>1, <1>4, <2>2, PagesAreRows DEF PageRows
    <3> QED
      BY <3>1, <1>1, AccessAssumption
  <2>3. CASE p = [page[t] EXCEPT !.picked = l] /\ ~Chosen(c)
    <3>1. p \in PageRows /\ p.claim = c
      BY <2>3, PagesAreRows DEF PageRows
    <3> QED
      BY <3>1, <2>3, <1>1, AccessAssumption
  <2> QED
    BY <1>2, <2>1, <2>2, <2>3
<1>6. ClaimsTypeOK'
  BY <1>2, <1>3, <1>5 DEF ClaimsTypeOK
<1>7. ASSUME NEW s \in Tabs, page'[s].picked # NoPlace
      PROVE  /\ page'[s].claim # NoClaim /\ claim'[page'[s].claim].chosen = NotGranted
             /\ \A r \in Tabs : page'[r].claim = page'[s].claim /\ page'[r].picked # NoPlace => r = s
  <2>1. CASE s = t
    <3>1. p.claim = c /\ claim[c].chosen = NotGranted
      BY <1>3, <1>5, <1>7, <2>1 DEF Chosen
    <3>2. \A r \in Tabs \ {t} : page[r].claim = c => page[r].picked = NoPlace
      BY <1>1 DEF ClaimFree
    <3> QED
      BY <1>1, <1>3, <2>1, <3>1, <3>2, AccessAssumption
  <2>2. CASE s # t
    <3>1. page'[s] = page[s] /\ page[s].claim # c
      BY <1>1, <1>3, <1>7, <2>2 DEF ClaimFree
    <3>2. page[s].claim # NoClaim /\ claim[page[s].claim].chosen = NotGranted
      BY <1>7, <3>1 DEF PicksAreFirst
    <3>3. ASSUME NEW r \in Tabs, page'[r].claim = page[s].claim, page'[r].picked # NoPlace
          PROVE  r = s
      <4>1. r # t
        BY <1>3, <1>5, <3>1, <3>3
      <4> QED
        BY <1>3, <1>7, <3>1, <3>3, <4>1 DEF PicksAreFirst
    <3> QED
      BY <1>3, <3>1, <3>2, <3>3
  <2> QED
    BY <2>1, <2>2
<1>8. ClaimsNameTheirGrants'
  BY <1>3 DEF ClaimsNameTheirGrants
<1> QED
  BY <1>6, <1>7, <1>8 DEF PicksAreFirst

LEMMA InsertKeeps ==
  ASSUME ClaimsInv, NEW t \in Tabs, GrantPicked(t)
  PROVE  ClaimsInv'
<1> DEFINE c == page[t].claim
           f == FreshGrant
<1> USE DEF ClaimsInv
<1>1. c \in Claims /\ claim[c].chosen = NotGranted /\ page[t].picked \in Places
  BY DEF GrantPicked, PicksAreFirst, ClaimsTypeOK, PageRows
<1>2. f \in ClientGrants
  BY FreshRow DEF GrantPicked
<1> DEFINE row == [status |-> "active", place |-> page[t].picked, over |-> FALSE, from |-> c]
<1>3. grant' = [grant EXCEPT ![f] = row] /\ claim' = [claim EXCEPT ![c].chosen = f]
  BY DEF GrantPicked, Inserted
<1>4. PICK p : /\ page' = [page EXCEPT ![t] = p]
               /\ p \in {[page[t] EXCEPT !.picked = NoPlace, !.held = f], NoPage}
  BY DEF GrantPicked
<1>5. p \in PageRows /\ p.picked = NoPlace /\ (p.places # {} => p.claim # NoClaim)
  <2>1. CASE p = NoPage
    BY <2>1, PagesAreRows DEF NoPage
  <2>2. CASE p = [page[t] EXCEPT !.picked = NoPlace, !.held = f]
    <3>1. p \in PageRows /\ p.picked = NoPlace /\ p.claim = c
      BY <1>2, <2>2, PagesAreRows DEF PageRows
    <3> QED
      BY <3>1, <1>1, AccessAssumption
  <2> QED
    BY <1>4, <2>1, <2>2
<1>6. row \in GrantRows
  BY <1>1 DEF GrantRows, Statuses
<1>7. ClaimsTypeOK'
  <2>1. grant' \in [ClientGrants -> GrantRows]
    BY <1>2, <1>3, <1>6 DEF ClaimsTypeOK
  <2>2. claim' \in [Claims -> ClaimRows]
    BY <1>1, <1>2, <1>3, ClaimsAreRows DEF ClaimsTypeOK
  <2> QED
    BY <1>4, <1>5, <2>1, <2>2 DEF ClaimsTypeOK
<1>8. /\ claim'[c].chosen = f
      /\ \A d \in Claims \ {c} : claim'[d] = claim[d]
  BY <1>1, <1>2, <1>3, ClaimsAreRows DEF ClaimsTypeOK
<1>9. ClaimsNameTheirGrants'
  <2> SUFFICES ASSUME NEW g \in ClientGrants, grant'[g].from # NoClaim
               PROVE  claim'[grant'[g].from].chosen = g
    BY DEF ClaimsNameTheirGrants
  <2>1. CASE g = f
    BY <1>2, <1>3, <1>8, <2>1 DEF ClaimsTypeOK
  <2>2. CASE g # f
    <3>1. grant'[g] = grant[g] /\ grant[g].from \in Claims
      BY <1>3, <2>2 DEF ClaimsTypeOK, GrantRows
    <3>2. claim[grant[g].from].chosen = g /\ grant[g].from # c
      BY <1>1, <3>1, AccessAssumption DEF ClaimsNameTheirGrants
    <3> QED
      BY <1>8, <3>1, <3>2
  <2> QED
    BY <2>1, <2>2
<1>10. PicksAreFirst'
  <2>1. page'[t].picked = NoPlace /\ \A s \in Tabs \ {t} : page'[s] = page[s]
    BY <1>4, <1>5 DEF ClaimsTypeOK
  <2>2. \A s \in Tabs \ {t} : page[s].picked # NoPlace =>
          page[s].claim \in Claims \ {c} /\ claim[page[s].claim].chosen = NotGranted
    BY DEF PicksAreFirst, GrantPicked, ClaimsTypeOK, PageRows
  <2>3. \A s \in Tabs : page'[s].picked # NoPlace =>
          /\ s # t /\ page'[s] = page[s] /\ page[s].claim \in Claims \ {c}
          /\ claim'[page[s].claim].chosen = NotGranted
    BY <1>8, <2>1, <2>2
  <2> QED
    BY <2>3, AccessAssumption DEF PicksAreFirst
<1> QED
  BY <1>7, <1>9, <1>10

(* A change of a membership touches no grant. *)
LEMMA MembersLeaveClaims ==
  ASSUME MembershipNext
  PROVE  UNCHANGED claimVars
BY DEF MembershipNext, ExamineMembership, WriteMembership, ChangeAborts, grantVars, claimVars

(* A claim is worth one grant, whoever opens its link and picks a place at *)
(* the same time (select_agency_client_claim_location).                    *)
THEOREM ClaimsAreGrantedOnce == AccessSpec => []ClaimGivesAccessOnce
<1>1. AccessInit => ClaimsInv
  BY DEF AccessInit, ClaimsInv, ClaimsTypeOK, ClaimsNameTheirGrants, PicksAreFirst, Absent,
         Unclaimed, NoPage, Statuses, GrantRows, ClaimRows, PageRows
<1>2. ASSUME ClaimsInv, [AccessNext]_accessVars PROVE ClaimsInv'
  <2>1. CASE UNCHANGED claimVars
    BY <1>2, <2>1 DEF claimVars, ClaimsInv, ClaimsTypeOK, ClaimsNameTheirGrants, PicksAreFirst
  <2>2. CASE GrantNext \/ TicketNext
    BY <1>2, <2>2, GrantsKeep, TicketsKeep
  <2>3. CASE ClaimNext
    <3>1. \A c \in Claims : ClaimRunsOut(c) => ClaimsInv'
      BY <1>2, RunningOutKeeps
    <3>2. \A c \in Claims, t \in Tabs :
            (\E u \in Users : IssueClaim(u, c, UserOf[t])) \/ ConsumeClaim(t, c) => ClaimsInv'
      BY <1>2, IssuingKeeps
    <3>3. \A t \in Tabs : ListPlaces(t) \/ PickFails(t) \/ GrantPicked(t) => ClaimsInv'
      BY <1>2, ListingKeeps, InsertKeeps
    <3>4. \A t \in Tabs, l \in Places : PickPlace(t, l) => ClaimsInv'
      BY <1>2, PickKeeps
    <3> QED
      BY <2>3, <3>1, <3>2, <3>3, <3>4 DEF ClaimNext
  <2>4. UNCHANGED accessVars => UNCHANGED claimVars
    BY DEF accessVars, grantVars, claimVars
  <2> QED
    BY <1>2, <2>1, <2>2, <2>3, <2>4, MembersLeaveClaims DEF AccessNext
<1>3. ClaimsInv => ClaimGivesAccessOnce
  BY DEF ClaimsInv, ClaimsNameTheirGrants, ClaimGivesAccessOnce
<1> QED
  BY <1>1, <1>2, <1>3, PTL DEF AccessSpec

-----------------------------------------------------------------------------
(* Billing.                                                                 *)

Accounts ==
  [customer : Attempts \cup {Null}, subscription : Attempts \cup {Null},
   setupFeePaid : BOOLEAN, state : SubscriptionStates \cup {Null},
   stateAt : Nat, status : AccountStatuses]

(* Every event has a number of its own and a time that has come. *)
AreEvents(E, now, P) ==
  /\ IsFiniteSet(E) /\ now \in Nat /\ P \subseteq Attempts
  /\ \A e \in E :
       /\ e.id \in Nat /\ e.id <= Cardinality(E)
       /\ e.created \in Nat /\ e.created <= now
       /\ e.attempt \in Attempts /\ e.customer \in Attempts
       /\ e.setupPaid \in BOOLEAN /\ (e.setupPaid => e.attempt \in P)
       /\ e.kind \in {"checkout", "subscription"}
       /\ e.kind = "subscription" => e.state \in SubscriptionStates
  /\ \A e, f \in E : e.id = f.id => e = f

EventsTypeOK == AreEvents(events, second, paid)

StripeTypeOK ==
  /\ EventsTypeOK
  /\ session \in [Attempts -> SessionStatuses]
  /\ subscription \in [Attempts -> SubscriptionStates \cup {"none"}]
  /\ asked \in [Attempts -> Attempts \cup {Null}]

SubscriptionEvents(a) == {e \in events : e.kind = "subscription" /\ e.attempt = a}

(* What the account shows has been reported and paid. *)
AccountIsReported ==
  /\ account \in Accounts
  /\ account.setupFeePaid => account.subscription \in paid
  /\ account.state # Null =>
       \E e \in SubscriptionEvents(account.subscription) :
         e.state = account.state /\ e.created = account.stateAt
  /\ account.status = "active" =>
       account.state # Null /\ account.state = "active" /\ account.setupFeePaid

BillingInv == StripeTypeOK /\ AccountIsReported

-----------------------------------------------------------------------------
(* Stripe emits *)

LEMMA CustomersAreAttempts ==
  ASSUME StripeTypeOK, NEW a \in Attempts
  PROVE  CustomerOf(a) \in Attempts
BY DEF CustomerOf, StripeTypeOK

(* One event more. *)
LEMMA OneMore ==
  ASSUME NEW E, NEW now, NEW P, NEW Q, AreEvents(E, now, P), Q \subseteq Attempts, P \subseteq Q,
         NEW e, e.id = Cardinality(E) + 1, e.created = now,
         e.attempt \in Attempts, e.customer \in Attempts,
         e.setupPaid \in BOOLEAN, e.setupPaid => e.attempt \in Q,
         e.kind \in {"checkout", "subscription"}, e.kind = "subscription" => e.state \in SubscriptionStates
  PROVE  AreEvents(E \cup {e}, now, Q) /\ Cardinality(E \cup {e}) = Cardinality(E) + 1
<1> DEFINE F == E \cup {e}
<1>1. IsFiniteSet(E) /\ Cardinality(E) \in Nat /\ now \in Nat
  BY FS_CardinalityType DEF AreEvents
<1>2. e \notin E
  BY <1>1 DEF AreEvents
<1>3. IsFiniteSet(F) /\ Cardinality(F) = Cardinality(E) + 1
  BY <1>1, <1>2, FS_AddElement
<1> HIDE DEF F
<1>4. ASSUME NEW f \in F
      PROVE  /\ f.id \in Nat /\ f.id <= Cardinality(F)
             /\ f.created \in Nat /\ f.created <= now
             /\ f.attempt \in Attempts /\ f.customer \in Attempts
             /\ f.setupPaid \in BOOLEAN /\ (f.setupPaid => f.attempt \in Q)
             /\ f.kind \in {"checkout", "subscription"}
             /\ f.kind = "subscription" => f.state \in SubscriptionStates
  BY <1>1, <1>3 DEF AreEvents, F
<1>5. \A f, g \in F : f.id = g.id => f = g
  BY <1>1 DEF AreEvents, F
<1>6. AreEvents(F, now, Q)
  BY <1>1, <1>3, <1>4, <1>5 DEF AreEvents
<1> QED
  BY <1>3, <1>6 DEF F

LEMMA EmitOne ==
  ASSUME NEW body, Emit(<<body>>)
  PROVE  events' = events \cup {Numbered(body, Cardinality(events) + 1)}
BY DEF Emit

LEMMA EmitTwo ==
  ASSUME NEW b, NEW c, Emit(<<b, c>>)
  PROVE  events' = (events \cup {Numbered(b, Cardinality(events) + 1)})
                     \cup {Numbered(c, Cardinality(events) + 2)}
BY DEF Emit

LEMMA EventsAreEvents ==
  ASSUME StripeTypeOK
  PROVE  /\ AreEvents(events, second, paid) /\ paid \subseteq Attempts
         /\ Cardinality(events) \in Nat
<1>1. AreEvents(events, second, paid)
  BY DEF StripeTypeOK, EventsTypeOK
<1>2. IsFiniteSet(events) /\ paid \subseteq Attempts
  BY <1>1 DEF AreEvents
<1> QED
  BY <1>1, <1>2, FS_CardinalityType

LEMMA CheckoutKeeps ==
  ASSUME StripeTypeOK, NEW a \in Attempts, NEW state \in {"active", "past_due"},
         NEW setupPaid \in BOOLEAN, CompleteCheckout(a, state, setupPaid)
  PROVE  EventsTypeOK'
<1> DEFINE n == Cardinality(events)
           e == Numbered(SubscriptionEvent(a, state), n + 1)
           f == Numbered(CheckoutEvent(a, "completed", setupPaid), n + 2)
<1>1. events' = (events \cup {e}) \cup {f} /\ second' = second
  BY EmitTwo DEF CompleteCheckout
<1>2. /\ e.id = n + 1 /\ e.kind = "subscription" /\ e.attempt = a /\ e.state = state
      /\ e.setupPaid = FALSE /\ e.customer = CustomerOf(a) /\ e.created = second
  BY DEF Numbered, SubscriptionEvent
<1>3. /\ f.id = n + 2 /\ f.kind = "checkout" /\ f.attempt = a
      /\ f.setupPaid = setupPaid /\ f.customer = CustomerOf(a) /\ f.created = second
  BY DEF Numbered, CheckoutEvent
<1>4. CustomerOf(a) \in Attempts
  BY CustomersAreAttempts
<1> HIDE DEF e, f
<1>5. AreEvents(events, second, paid) /\ paid \subseteq Attempts /\ n \in Nat
  BY EventsAreEvents
<1>6. AreEvents(events \cup {e}, second, paid) /\ Cardinality(events \cup {e}) = n + 1
  BY <1>2, <1>4, <1>5, OneMore DEF SubscriptionStates
<1>7. paid' \subseteq Attempts /\ paid \subseteq paid' /\ (setupPaid => a \in paid')
  BY <1>5 DEF CompleteCheckout
<1>8. f.id = Cardinality(events \cup {e}) + 1
  BY <1>3, <1>5, <1>6
<1>9. AreEvents((events \cup {e}) \cup {f}, second, paid')
  BY <1>3, <1>4, <1>6, <1>7, <1>8, OneMore
<1> QED
  BY <1>1, <1>9 DEF EventsTypeOK

LEMMA LaterKeeps ==
  ASSUME StripeTypeOK, NEW a \in Attempts,
         \/ \E succeeds \in BOOLEAN : PaymentArrives(a, succeeds)
         \/ SessionExpires(a)
         \/ \E state \in SubscriptionStates : SubscriptionChanges(a, state)
  PROVE  EventsTypeOK'
<1> DEFINE n == Cardinality(events)
<1>1. /\ CustomerOf(a) \in Attempts
      /\ AreEvents(events, second, paid) /\ paid \subseteq Attempts
  BY CustomersAreAttempts, EventsAreEvents
<1>2. CASE \E succeeds \in BOOLEAN : PaymentArrives(a, succeeds)
  <2>1. PICK succeeds \in BOOLEAN : PaymentArrives(a, succeeds)
    BY <1>2
  <2> DEFINE body == CheckoutEvent(a, IF succeeds THEN "completed" ELSE "failed", succeeds)
             e == Numbered(body, n + 1)
  <2>2. events' = events \cup {e} /\ second' = second
    BY <2>1, EmitOne DEF PaymentArrives
  <2>3. /\ e.id = n + 1 /\ e.kind = "checkout" /\ e.attempt = a
        /\ e.setupPaid = succeeds /\ e.customer = CustomerOf(a) /\ e.created = second
    BY DEF Numbered, CheckoutEvent
  <2>4. paid' \subseteq Attempts /\ paid \subseteq paid' /\ (succeeds => a \in paid')
    BY <1>1, <2>1 DEF PaymentArrives
  <2> HIDE DEF e
  <2> QED
    BY <1>1, <2>2, <2>3, <2>4, OneMore DEF EventsTypeOK
<1>3. CASE SessionExpires(a)
  <2> DEFINE e == Numbered(CheckoutEvent(a, "expired", FALSE), n + 1)
  <2>1. events' = events \cup {e} /\ second' = second /\ paid' = paid
    BY <1>3, EmitOne DEF SessionExpires
  <2>2. /\ e.id = n + 1 /\ e.kind = "checkout" /\ e.attempt = a
        /\ e.setupPaid = FALSE /\ e.customer = CustomerOf(a) /\ e.created = second
    BY DEF Numbered, CheckoutEvent
  <2> HIDE DEF e
  <2> QED
    BY <1>1, <2>1, <2>2, OneMore DEF EventsTypeOK
<1>4. CASE \E state \in SubscriptionStates : SubscriptionChanges(a, state)
  <2>1. PICK state \in SubscriptionStates : SubscriptionChanges(a, state)
    BY <1>4
  <2> DEFINE e == Numbered(SubscriptionEvent(a, state), n + 1)
  <2>2. events' = events \cup {e} /\ second' = second /\ paid' = paid
    BY <2>1, EmitOne DEF SubscriptionChanges
  <2>3. /\ e.id = n + 1 /\ e.kind = "subscription" /\ e.attempt = a /\ e.state = state
        /\ e.setupPaid = FALSE /\ e.customer = CustomerOf(a) /\ e.created = second
    BY DEF Numbered, SubscriptionEvent
  <2> HIDE DEF e
  <2> QED
    BY <1>1, <2>2, <2>3, OneMore DEF EventsTypeOK
<1> QED
  BY <1>2, <1>3, <1>4

LEMMA StripeKeepsTypes ==
  ASSUME BillingInv, BillingNext
  PROVE  StripeTypeOK'
<1> USE DEF BillingInv
<1>1. ASSUME NEW a \in Attempts, PrepareCheckout(a) PROVE StripeTypeOK'
  <2>1. asked' \in [Attempts -> Attempts \cup {Null}]
    BY <1>1 DEF PrepareCheckout, StripeTypeOK, AccountIsReported, Accounts
  <2> QED
    BY <1>1, <2>1 DEF PrepareCheckout, StripeTypeOK, EventsTypeOK, stripeVars
<1>2. ASSUME NEW a \in Attempts, CreateSession(a) PROVE StripeTypeOK'
  BY <1>2 DEF CreateSession, StripeTypeOK, EventsTypeOK, SessionStatuses, appVars
<1>3. ASSUME NEW a \in Attempts, Bind(a) PROVE StripeTypeOK'
  BY <1>3 DEF Bind, StripeTypeOK, EventsTypeOK, stripeVars
<1>4. ASSUME NEW a \in Attempts, NEW state \in {"active", "past_due"}, NEW setupPaid \in BOOLEAN,
             CompleteCheckout(a, state, setupPaid)
      PROVE  StripeTypeOK'
  BY <1>4, CheckoutKeeps
     DEF CompleteCheckout, StripeTypeOK, SessionStatuses, SubscriptionStates, appVars
<1>5. ASSUME NEW a \in Attempts, NEW succeeds \in BOOLEAN, PaymentArrives(a, succeeds)
      PROVE  StripeTypeOK'
  BY <1>5, LaterKeeps DEF PaymentArrives, StripeTypeOK, SessionStatuses, appVars
<1>6. ASSUME NEW a \in Attempts, SessionExpires(a) PROVE StripeTypeOK'
  BY <1>6, LaterKeeps DEF SessionExpires, StripeTypeOK, SessionStatuses, appVars
<1>7. ASSUME NEW a \in Attempts, NEW state \in SubscriptionStates, SubscriptionChanges(a, state)
      PROVE  StripeTypeOK'
  BY <1>7, LaterKeeps DEF SubscriptionChanges, StripeTypeOK, appVars
<1>8. ASSUME SecondPasses PROVE StripeTypeOK'
  <2>1. AreEvents(events, second, paid)
    BY EventsAreEvents
  <2>2. AreEvents(events, second + 1, paid)
    BY <2>1 DEF AreEvents
  <2> QED
    BY <1>8, <2>2 DEF SecondPasses, StripeTypeOK, EventsTypeOK, appVars
<1>9. ASSUME NEW e \in events, Deliver(e) \/ DeliverAgain(e) PROVE StripeTypeOK'
  BY <1>9 DEF Deliver, DeliverAgain, StripeTypeOK, EventsTypeOK, stripeVars, billingVars
<1> QED
  BY <1>1, <1>2, <1>3, <1>4, <1>5, <1>6, <1>7, <1>8, <1>9 DEF BillingNext

(* Unless an event is delivered the account stays, and Stripe forgets      *)
(* nothing.                                                                *)
LEMMA OnlyDeliveryTouchesTheAccount ==
  ASSUME BillingNext, ~DeliverAny
  PROVE  UNCHANGED <<account, recorded>> /\ events \subseteq events' /\ paid \subseteq paid'
BY DEF BillingNext, DeliverAny, PrepareCheckout, CreateSession, Bind, SessionExpires,
       CompleteCheckout, PaymentArrives, SubscriptionChanges, SecondPasses, DeliverAgain, Emit,
       appVars, stripeVars, billingVars

LEMMA DeliveryKeepsTheAccount ==
  ASSUME BillingInv, NEW e \in events, Deliver(e)
  PROVE  AccountIsReported'
<1>1. /\ e.attempt \in Attempts /\ e.customer \in Attempts /\ e.created \in Nat
      /\ e.setupPaid \in BOOLEAN /\ (e.setupPaid => e.attempt \in paid)
      /\ e.kind \in {"checkout", "subscription"}
      /\ e.kind = "subscription" => e.state \in SubscriptionStates
  BY EventsAreEvents DEF AreEvents, BillingInv
<1>2. account \in Accounts /\ events' = events /\ paid' = paid /\ paid \subseteq Attempts
  BY EventsAreEvents DEF BillingInv, AccountIsReported, Deliver, stripeVars
<1>3. /\ account.setupFeePaid => account.subscription \in paid
      /\ account.state # Null =>
           \E f \in SubscriptionEvents(account.subscription) :
             f.state = account.state /\ f.created = account.stateAt
      /\ account.status = "active" =>
           account.state # Null /\ account.state = "active" /\ account.setupFeePaid
  BY DEF BillingInv, AccountIsReported
<1>4. account.state # Null => account.subscription \in Attempts
  BY <1>1, <1>2, <1>3, EventsAreEvents DEF SubscriptionEvents, AreEvents, BillingInv
<1>5. \/ e.kind = "checkout" /\ e.state = "expired"
      \/ account.subscription = Null \/ account.subscription = e.attempt
  BY DEF Deliver, Acceptable, AccountMatches, Same
<1> DEFINE acct == IF e.kind = "checkout" THEN AfterCheckout(e) ELSE AfterSubscription(e)
<1>6. account' = [acct EXCEPT !.status = StatusFor(acct)]
  BY DEF Deliver, AfterEvent
<1>7. /\ acct \in Accounts /\ acct.status = account.status
      /\ acct.setupFeePaid => acct.subscription \in paid
      /\ acct.state # Null =>
           \E f \in SubscriptionEvents(acct.subscription) :
             f.state = acct.state /\ f.created = acct.stateAt
      /\ acct.state = Null => account.state = Null
  <2>1. CASE acct = account
    BY <1>2, <1>3, <2>1
  <2>2. CASE acct # account /\ e.kind = "checkout"
    <3>1. acct = [account EXCEPT !.customer = IF @ = Null THEN e.customer ELSE @,
                                 !.subscription = IF @ = Null THEN e.attempt ELSE @,
                                 !.setupFeePaid = @ \/ e.setupPaid]
          /\ e.state # "expired"
      BY <2>2 DEF AfterCheckout
    <3>2. /\ acct \in Accounts /\ acct.status = account.status
          /\ acct.state = account.state /\ acct.stateAt = account.stateAt
          /\ acct.subscription = e.attempt
          /\ acct.setupFeePaid = (account.setupFeePaid \/ e.setupPaid)
      BY <1>1, <1>2, <1>5, <3>1, NullAssumption DEF Accounts
    <3>3. account.state # Null => account.subscription = e.attempt
      BY <1>4, <1>5, <3>1, NullAssumption
    <3>4. account.setupFeePaid => e.attempt \in paid
      BY <1>2, <1>3, <1>5, <3>1, NullAssumption
    <3> QED
      BY <1>1, <1>3, <3>2, <3>3, <3>4
  <2>3. CASE acct # account /\ e.kind = "subscription"
    <3>1. acct = [account EXCEPT !.customer = e.customer, !.subscription = e.attempt,
                                 !.state = e.state, !.stateAt = e.created]
      BY <2>3 DEF AfterSubscription
    <3>2. /\ acct \in Accounts /\ acct.status = account.status
          /\ acct.state = e.state /\ acct.stateAt = e.created /\ acct.subscription = e.attempt
          /\ acct.setupFeePaid = account.setupFeePaid
      BY <1>1, <1>2, <2>3, <3>1 DEF Accounts
    <3>3. e \in SubscriptionEvents(acct.subscription) /\ acct.state # Null
      BY <1>1, <2>3, <3>2, NullAssumption DEF SubscriptionEvents, SubscriptionStates
    <3>4. account.setupFeePaid => e.attempt \in paid
      BY <1>2, <1>3, <1>5, <2>3, NullAssumption
    <3> QED
      BY <3>2, <3>3, <3>4
  <2> QED
    BY <1>1, <2>1, <2>2, <2>3
<1> HIDE DEF acct
<1>8. /\ StatusFor(acct) \in AccountStatuses
      /\ StatusFor(acct) = "active" =>
           acct.state # Null /\ acct.state = "active" /\ acct.setupFeePaid
  <2>1. /\ acct.state \in SubscriptionStates \cup {Null} /\ acct.setupFeePaid \in BOOLEAN
        /\ acct.status \in AccountStatuses
    BY <1>7 DEF Accounts
  <2>2. CASE acct.state = Null
    <3>1. StatusFor(acct) = acct.status
      BY <2>2, NullAssumption DEF StatusFor
    <3> QED
      BY <1>3, <1>7, <2>1, <2>2, <3>1
  <2>3. CASE acct.state # Null /\ acct.state = "active"
    BY <2>1, <2>3 DEF StatusFor, AccountStatuses
  <2>4. CASE acct.state # Null /\ acct.state # "active"
    BY <2>1, <2>4 DEF StatusFor, AccountStatuses, SubscriptionStates
  <2> QED
    BY <2>2, <2>3, <2>4
<1>9. /\ account' \in Accounts /\ account'.status = StatusFor(acct)
      /\ account'.setupFeePaid = acct.setupFeePaid /\ account'.subscription = acct.subscription
      /\ account'.state = acct.state /\ account'.stateAt = acct.stateAt
  BY <1>6, <1>7, <1>8 DEF Accounts
<1>10. \A a : SubscriptionEvents(a)' = SubscriptionEvents(a)
  BY <1>2 DEF SubscriptionEvents
<1> QED
  BY <1>2, <1>7, <1>8, <1>9, <1>10 DEF AccountIsReported

LEMMA BillingInvariant == BillingSpec => []BillingInv
<1>1. BillingInit => BillingInv
  <2> SUFFICES ASSUME BillingInit PROVE BillingInv
    OBVIOUS
  <2>1. StripeTypeOK
    BY FS_EmptySet DEF BillingInit, StripeTypeOK, EventsTypeOK, AreEvents, SessionStatuses
  <2>2. AccountIsReported
    BY DEF BillingInit, AccountIsReported, Accounts, AccountStatuses
  <2> QED
    BY <2>1, <2>2 DEF BillingInv
<1>2. ASSUME BillingInv, [BillingNext]_billingVars PROVE BillingInv'
  <2>1. CASE UNCHANGED billingVars
    BY <1>2, <2>1 DEF billingVars, BillingInv, StripeTypeOK, EventsTypeOK, AccountIsReported,
                      SubscriptionEvents
  <2>2. CASE BillingNext /\ ~DeliverAny
    <3>1. UNCHANGED account /\ events \subseteq events' /\ paid \subseteq paid'
      BY <2>2, OnlyDeliveryTouchesTheAccount
    <3>2. \A a : SubscriptionEvents(a) \subseteq SubscriptionEvents(a)'
      BY <3>1 DEF SubscriptionEvents
    <3>3. AccountIsReported'
      BY <1>2, <3>1, <3>2 DEF BillingInv, AccountIsReported
    <3> QED
      BY <1>2, <2>2, <3>3, StripeKeepsTypes DEF BillingInv
  <2>3. CASE DeliverAny
    BY <1>2, <2>3, DeliveryKeepsTheAccount, StripeKeepsTypes
       DEF BillingInv, DeliverAny, BillingNext
  <2> QED
    BY <1>2, <2>1, <2>2, <2>3
<1> QED
  BY <1>1, <1>2, PTL DEF BillingSpec

(* An account is active only if the setup fee of its own subscription is   *)
(* paid and that subscription was active at the time the account shows, in *)
(* whatever order the two are reported (apply_stripe_billing_event).       *)
THEOREM ActiveAccountsArePaid == BillingSpec => []ActiveIsPaid
<1>1. BillingInv => ActiveIsPaid
  BY DEF BillingInv, AccountIsReported, ActiveIsPaid, SubscriptionEvents
<1> QED
  BY <1>1, BillingInvariant, PTL

-----------------------------------------------------------------------------
(* Stale updates *)

(* Of a subscription only what it is now was emitted last, and every        *)
(* recorded event of a subscription is one of the account's, and not newer  *)
(* than what the account shows.                                             *)
Latest(e) ==
  \A f \in SubscriptionEvents(e.attempt) : f = e \/ f.created < e.created

FenceInv ==
  /\ \A a \in Attempts :
       session[a] \in {"none", "open", "expired"} <=> subscription[a] = "none"
  /\ \A e \in events :
       e.kind = "subscription" \/ e.state # "expired" => subscription[e.attempt] # "none"
  /\ \A a \in Attempts : subscription[a] # "none" =>
       \E e \in SubscriptionEvents(a) : e.state = subscription[a] /\ Latest(e)
  /\ account.subscription # Null => subscription[account.subscription] # "none"
  /\ \A i \in recorded : \E e \in events : e.id = i
  /\ \A e \in events : e.kind = "subscription" /\ e.id \in recorded =>
       /\ account.state # Null /\ account.subscription = e.attempt
       /\ e.created <= account.stateAt

LEMMA FenceImpliesFenced ==
  ASSUME BillingInv, FenceInv
  PROVE  StaleUpdatesAreFenced
<1> SUFFICES ASSUME NEW a \in Attempts, account.subscription = a, AllIn(a)
             PROVE  account.state = subscription[a]
  BY DEF StaleUpdatesAreFenced
<1>1. PICK e \in SubscriptionEvents(a) : e.state = subscription[a] /\ Latest(e)
  BY NullAssumption DEF FenceInv
<1>2. e \in events /\ e.kind = "subscription" /\ e.attempt = a /\ e.id \in recorded
  BY DEF SubscriptionEvents, AllIn
<1>3. account.state # Null /\ e.created <= account.stateAt
  BY <1>2 DEF FenceInv
<1>4. PICK g \in SubscriptionEvents(a) : g.state = account.state /\ g.created = account.stateAt
  BY <1>3 DEF BillingInv, AccountIsReported
<1>5. e.created \in Nat /\ g.created \in Nat
  BY <1>2, EventsAreEvents DEF BillingInv, AreEvents, SubscriptionEvents
<1>6. g = e
  BY <1>1, <1>2, <1>3, <1>4, <1>5 DEF Latest
<1> QED
  BY <1>1, <1>4, <1>6

LEMMA DeliveryKeepsTheFence ==
  ASSUME BillingInv, FenceInv, NEW e \in events, Deliver(e)
  PROVE  FenceInv'
<1>1. /\ e.attempt \in Attempts /\ e.created \in Nat
      /\ e.kind \in {"checkout", "subscription"}
      /\ e.kind = "subscription" => e.state \in SubscriptionStates
      /\ \A f \in events : f.created \in Nat /\ (f.id = e.id => f = e)
  BY EventsAreEvents DEF AreEvents, BillingInv
<1>2. /\ UNCHANGED <<events, session, subscription>> /\ recorded' = recorded \cup {e.id}
      /\ account \in Accounts
  BY DEF Deliver, stripeVars, BillingInv, AccountIsReported
<1>3. \A a : SubscriptionEvents(a)' = SubscriptionEvents(a)
  BY <1>2 DEF SubscriptionEvents
<1>4. \A f : Latest(f)' <=> Latest(f)
  BY <1>3 DEF Latest
<1>5. \/ e.kind = "checkout" /\ e.state = "expired"
      \/ account.subscription = Null \/ account.subscription = e.attempt
  BY DEF Deliver, Acceptable, AccountMatches, Same
<1>6. account.state # Null => account.subscription \in Attempts
  BY EventsAreEvents DEF BillingInv, AccountIsReported, SubscriptionEvents, AreEvents
<1> DEFINE acct == IF e.kind = "checkout" THEN AfterCheckout(e) ELSE AfterSubscription(e)
<1>7. account' = [acct EXCEPT !.status = StatusFor(acct)]
  BY DEF Deliver, AfterEvent
<1>8. acct \in Accounts
  BY <1>1, <1>2, EventsAreEvents
     DEF Accounts, AfterCheckout, AfterSubscription, AreEvents, BillingInv
<1>9. /\ account'.subscription = acct.subscription
      /\ account'.state = acct.state /\ account'.stateAt = acct.stateAt
  BY <1>7, <1>8 DEF Accounts
<1>10. /\ acct.subscription # Null => subscription[acct.subscription] # "none"
       /\ \A f \in events : f.kind = "subscription" /\ f.id \in recorded \cup {e.id} =>
            /\ acct.state # Null /\ acct.subscription = f.attempt
            /\ f.created <= acct.stateAt
  <2>1. CASE e.kind = "checkout"
    <3>1. /\ acct.state = account.state /\ acct.stateAt = account.stateAt
          /\ \/ acct.subscription = account.subscription
             \/ account.subscription = Null /\ acct.subscription = e.attempt
                /\ e.state # "expired"
      BY <1>2, <2>1 DEF AfterCheckout, Accounts
    <3>2. \A f \in events : f.kind = "subscription" /\ f.id \in recorded \cup {e.id} =>
            f.id \in recorded
      BY <1>1, <2>1
    <3> QED
      BY <1>1, <1>6, <3>1, <3>2, NullAssumption DEF FenceInv
  <2>2. CASE e.kind = "subscription" /\ Supersedes(e)
    <3>1. acct.subscription = e.attempt /\ acct.state = e.state /\ acct.stateAt = e.created
      BY <1>2, <2>2 DEF AfterSubscription, Accounts
    <3>2. acct.state # Null /\ subscription[e.attempt] # "none"
      BY <1>1, <2>2, <3>1, NullAssumption DEF FenceInv, SubscriptionStates
    <3>3. account.state = Null \/ e.created >= account.stateAt
      BY <1>1, <1>2, <2>2 DEF Supersedes, Accounts
    <3>4. ASSUME NEW f \in events, f.kind = "subscription", f.id \in recorded
          PROVE  f.attempt = e.attempt /\ f.created <= e.created
      <4>1. /\ account.state # Null /\ account.subscription = f.attempt
            /\ f.created <= account.stateAt
        BY <3>4 DEF FenceInv
      <4>2. account.stateAt \in Nat
        BY <1>2 DEF Accounts
      <4> QED
        BY <1>1, <1>5, <1>6, <2>2, <3>3, <4>1, <4>2, NullAssumption
    <3> QED
      BY <1>1, <3>1, <3>2, <3>4
  <2>3. CASE e.kind = "subscription" /\ ~Supersedes(e)
    <3>1. acct = account
      BY <2>3 DEF AfterSubscription
    <3>2. account.state # Null /\ e.created <= account.stateAt
      BY <1>1, <1>2, <2>3 DEF Supersedes, Accounts
    <3>3. account.subscription = e.attempt
      BY <1>5, <1>6, <2>3, <3>2, NullAssumption
    <3> QED
      BY <1>1, <3>1, <3>2, <3>3 DEF FenceInv
  <2> QED
    BY <1>1, <2>1, <2>2, <2>3
<1> HIDE DEF acct
<1>11. \A i \in recorded' : \E f \in events' : f.id = i
  BY <1>2 DEF FenceInv
<1> QED
  BY <1>2, <1>3, <1>4, <1>9, <1>10, <1>11 DEF FenceInv

(* Stripe emits an event that is not a subscription's. *)
LEMMA CheckoutEventKeepsTheFence ==
  ASSUME BillingInv, FenceInv, NEW e, events' = events \cup {e}, e.kind = "checkout",
         e.state = "expired" \/ subscription[e.attempt] # "none",
         UNCHANGED <<account, recorded, subscription>>,
         \A a \in Attempts :
           session'[a] \in {"none", "open", "expired"} <=> session[a] \in {"none", "open", "expired"},
         e.id = Cardinality(events) + 1
  PROVE  FenceInv'
<1>1. \A a : SubscriptionEvents(a)' = SubscriptionEvents(a)
  BY DEF SubscriptionEvents
<1>2. \A f : Latest(f)' <=> Latest(f)
  BY <1>1 DEF Latest
<1> QED
  BY <1>1, <1>2 DEF FenceInv

(* Stripe emits an event of a subscription, later than all before. *)
LEMMA SubscriptionEventKeepsTheFence ==
  ASSUME BillingInv, FenceInv, NEW a \in Attempts, NEW state \in SubscriptionStates,
         NEW e, NEW E, events' = E \cup {e}, events \subseteq E,
         \A f \in E \ events : f.kind = "checkout" /\ f.attempt = a,
         e.kind = "subscription", e.attempt = a, e.state = state, e.created = second,
         \A f \in SubscriptionEvents(a) : f.created < second,
         \A f \in events : f.id # e.id,
         subscription' = [subscription EXCEPT ![a] = state], UNCHANGED <<account, recorded>>,
         \A b \in Attempts \ {a} : session'[b] = session[b],
         session'[a] \notin {"none", "open", "expired"}
  PROVE  FenceInv'
<1>1. /\ subscription'[a] = state /\ state # "none"
      /\ \A b \in Attempts \ {a} : subscription'[b] = subscription[b]
      /\ \A b \in Attempts : subscription[b] # "none" => subscription'[b] # "none"
  BY DEF BillingInv, StripeTypeOK, SubscriptionStates
<1>2. SubscriptionEvents(a)' = SubscriptionEvents(a) \cup {e}
      /\ \A b \in Attempts \ {a} : SubscriptionEvents(b)' = SubscriptionEvents(b)
  BY DEF SubscriptionEvents
<1>3. \A f \in events : f.attempt \in Attempts
  BY EventsAreEvents DEF AreEvents, BillingInv
<1>4. \A b \in Attempts :
        session'[b] \in {"none", "open", "expired"} <=> subscription'[b] = "none"
  BY <1>1 DEF FenceInv
<1>5. \A f \in events' :
        f.kind = "subscription" \/ f.state # "expired" => subscription'[f.attempt] # "none"
  BY <1>1, <1>3 DEF FenceInv
<1>6. ASSUME NEW b \in Attempts, subscription'[b] # "none"
      PROVE  \E f \in SubscriptionEvents(b)' : f.state = subscription'[b] /\ Latest(f)'
  <2>1. CASE b = a
    <3>1. e \in SubscriptionEvents(a)' /\ Latest(e)'
      BY <1>2 DEF Latest
    <3> QED
      BY <1>1, <2>1, <3>1
  <2>2. CASE b # a
    <3>1. PICK f \in SubscriptionEvents(b) : f.state = subscription[b] /\ Latest(f)
      BY <1>1, <1>6, <2>2 DEF FenceInv
    <3>2. f.attempt = b
      BY <3>1 DEF SubscriptionEvents
    <3> QED
      BY <1>1, <1>2, <2>2, <3>1, <3>2 DEF Latest
  <2> QED
    BY <2>1, <2>2
<1>7. account'.subscription # Null => subscription'[account'.subscription] # "none"
  BY <1>1 DEF FenceInv, BillingInv, AccountIsReported, Accounts
<1>8. \A i \in recorded' : \E f \in events' : f.id = i
  BY DEF FenceInv
<1>9. ASSUME NEW f \in events', f.kind = "subscription", f.id \in recorded'
      PROVE  /\ account'.state # Null /\ account'.subscription = f.attempt
             /\ f.created <= account'.stateAt
  <2>1. e.id \notin recorded
    BY DEF FenceInv
  <2>2. f \in events
    BY <1>9, <2>1
  <2> QED
    BY <1>9, <2>2 DEF FenceInv
<1> QED
  BY <1>4, <1>5, <1>6, <1>7, <1>8, <1>9 DEF FenceInv

LEMMA EmissionsKeepTheFence ==
  ASSUME StrictClock, BillingInv, FenceInv, NEW a \in Attempts,
         \/ \E state \in {"active", "past_due"}, setupPaid \in BOOLEAN :
              CompleteCheckout(a, state, setupPaid)
         \/ \E succeeds \in BOOLEAN : PaymentArrives(a, succeeds)
         \/ SessionExpires(a)
         \/ \E state \in SubscriptionStates : SubscriptionChanges(a, state)
  PROVE  FenceInv'
<1> DEFINE n == Cardinality(events)
<1>1. /\ n \in Nat
      /\ \A f \in events : f.id \in Nat /\ f.id <= n
  BY EventsAreEvents DEF AreEvents, BillingInv
<1>2. session \in [Attempts -> SessionStatuses]
      /\ subscription \in [Attempts -> SubscriptionStates \cup {"none"}]
  BY DEF BillingInv, StripeTypeOK
<1>3. CASE \E state \in {"active", "past_due"}, setupPaid \in BOOLEAN :
             CompleteCheckout(a, state, setupPaid)
  <2>1. PICK state \in {"active", "past_due"}, setupPaid \in BOOLEAN :
          CompleteCheckout(a, state, setupPaid)
    BY <1>3
  <2> DEFINE e == Numbered(SubscriptionEvent(a, state), n + 1)
             f == Numbered(CheckoutEvent(a, "completed", setupPaid), n + 2)
             E == events \cup {f}
  <2>2. events' = E \cup {e}
    BY <2>1, EmitTwo DEF CompleteCheckout
  <2>3. /\ e.id = n + 1 /\ e.kind = "subscription" /\ e.attempt = a /\ e.state = state
        /\ e.created = second
    BY DEF Numbered, SubscriptionEvent
  <2>4. f.kind = "checkout" /\ f.attempt = a
    BY DEF Numbered, CheckoutEvent
  <2>5. SubscriptionEvents(a) = {}
    BY <2>1 DEF CompleteCheckout, FenceInv, SubscriptionEvents
  <2>6. /\ UNCHANGED <<account, recorded>>
        /\ subscription' = [subscription EXCEPT ![a] = state]
        /\ \A b \in Attempts \ {a} : session'[b] = session[b]
        /\ session'[a] \notin {"none", "open", "expired"}
    BY <1>2, <2>1 DEF CompleteCheckout, appVars
  <2>7. state \in SubscriptionStates
    BY DEF SubscriptionStates
  <2> HIDE DEF e, f
  <2>8. \A g \in events : g.id # e.id
    BY <1>1, <2>3
  <2>9. events \subseteq E /\ \A g \in E \ events : g.kind = "checkout" /\ g.attempt = a
    BY <2>4
  <2> HIDE DEF E, n
  <2> QED
    BY <2>2, <2>3, <2>5, <2>6, <2>7, <2>8, <2>9, SubscriptionEventKeepsTheFence
<1>4. CASE \E succeeds \in BOOLEAN : PaymentArrives(a, succeeds)
  <2>1. PICK succeeds \in BOOLEAN : PaymentArrives(a, succeeds)
    BY <1>4
  <2> DEFINE e == Numbered(CheckoutEvent(a, IF succeeds THEN "completed" ELSE "failed", succeeds),
                           n + 1)
  <2>2. events' = events \cup {e}
    BY <2>1, EmitOne DEF PaymentArrives
  <2>3. e.id = n + 1 /\ e.kind = "checkout" /\ e.attempt = a
    BY DEF Numbered, CheckoutEvent
  <2>4. subscription[a] # "none"
    BY <2>1 DEF PaymentArrives, FenceInv
  <2>5. /\ UNCHANGED <<account, recorded, subscription>>
        /\ \A b \in Attempts : session'[b] \in {"none", "open", "expired"}
                                 <=> session[b] \in {"none", "open", "expired"}
    BY <1>2, <2>1 DEF PaymentArrives, appVars
  <2> HIDE DEF e
  <2> QED
    BY <2>2, <2>3, <2>4, <2>5, CheckoutEventKeepsTheFence
<1>5. CASE SessionExpires(a)
  <2> DEFINE e == Numbered(CheckoutEvent(a, "expired", FALSE), n + 1)
  <2>1. events' = events \cup {e}
    BY <1>5, EmitOne DEF SessionExpires
  <2>2. e.id = n + 1 /\ e.kind = "checkout" /\ e.attempt = a /\ e.state = "expired"
    BY DEF Numbered, CheckoutEvent
  <2>3. /\ UNCHANGED <<account, recorded, subscription>>
        /\ \A b \in Attempts : session'[b] \in {"none", "open", "expired"}
                                 <=> session[b] \in {"none", "open", "expired"}
    BY <1>2, <1>5 DEF SessionExpires, appVars
  <2> HIDE DEF e
  <2> QED
    BY <2>1, <2>2, <2>3, CheckoutEventKeepsTheFence
<1>6. CASE \E state \in SubscriptionStates : SubscriptionChanges(a, state)
  <2>1. PICK state \in SubscriptionStates : SubscriptionChanges(a, state)
    BY <1>6
  <2> DEFINE e == Numbered(SubscriptionEvent(a, state), n + 1)
  <2>2. events' = events \cup {e}
    BY <2>1, EmitOne DEF SubscriptionChanges
  <2>3. /\ e.id = n + 1 /\ e.kind = "subscription" /\ e.attempt = a /\ e.state = state
        /\ e.created = second
    BY DEF Numbered, SubscriptionEvent
  <2>4. \A f \in SubscriptionEvents(a) : f.created < second
    BY <2>1 DEF SubscriptionChanges, SubscriptionEvents
  <2>5. /\ UNCHANGED <<account, recorded, session>>
        /\ subscription' = [subscription EXCEPT ![a] = state]
        /\ session[a] \notin {"none", "open", "expired"}
    BY <2>1 DEF SubscriptionChanges, appVars, FenceInv
  <2> HIDE DEF e
  <2>6. \A g \in events : g.id # e.id
    BY <1>1, <2>3
  <2> HIDE DEF n
  <2> QED
    BY <2>2, <2>3, <2>4, <2>5, <2>6, SubscriptionEventKeepsTheFence
<1> QED
  BY <1>3, <1>4, <1>5, <1>6

LEMMA OthersKeepTheFence ==
  ASSUME BillingInv, FenceInv,
         \/ \E a \in Attempts : PrepareCheckout(a) \/ CreateSession(a) \/ Bind(a)
         \/ SecondPasses \/ UNCHANGED billingVars
  PROVE  FenceInv'
<1>1. UNCHANGED <<account, recorded, events, subscription>>
  BY DEF PrepareCheckout, CreateSession, Bind, SecondPasses, billingVars, appVars, stripeVars
<1>2. \A a \in Attempts : session'[a] \in {"none", "open", "expired"}
                            <=> session[a] \in {"none", "open", "expired"}
  BY DEF PrepareCheckout, CreateSession, Bind, SecondPasses, billingVars, appVars, stripeVars,
         BillingInv, StripeTypeOK
<1>3. \A a : SubscriptionEvents(a)' = SubscriptionEvents(a)
  BY <1>1 DEF SubscriptionEvents
<1>4. \A f : Latest(f)' <=> Latest(f)
  BY <1>3 DEF Latest
<1> QED
  BY <1>1, <1>2, <1>3, <1>4 DEF FenceInv

(* "Event creation timestamps fence stale subscription updates": once      *)
(* every event of its subscription is in, in whatever order, the account   *)
(* shows the state Stripe has, if no subscription changes twice within one *)
(* second (apply_stripe_billing_event).                                    *)
THEOREM StaleUpdatesDoNotWin ==
  ASSUME StrictClock
  PROVE  BillingSpec => []StaleUpdatesAreFenced
<1>1. BillingInit => FenceInv
  BY NullAssumption DEF BillingInit, FenceInv
<1>2. BillingInv /\ FenceInv /\ [BillingNext]_billingVars => FenceInv'
  <2> SUFFICES ASSUME BillingInv, FenceInv, [BillingNext]_billingVars PROVE FenceInv'
    OBVIOUS
  <2>1. ASSUME NEW e \in events, Deliver(e) PROVE FenceInv'
    BY <2>1, DeliveryKeepsTheFence
  <2>2. ASSUME NEW e \in events, DeliverAgain(e) PROVE FenceInv'
    BY <2>2, OthersKeepTheFence DEF DeliverAgain
  <2> QED
    BY <2>1, <2>2, OthersKeepTheFence, EmissionsKeepTheFence DEF BillingNext
<1>3. BillingInv /\ FenceInv => StaleUpdatesAreFenced
  BY FenceImpliesFenced
<1> QED
  BY <1>1, <1>2, <1>3, BillingInvariant, PTL DEF BillingSpec

=============================================================================
