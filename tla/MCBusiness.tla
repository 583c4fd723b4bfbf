----------------------------- MODULE MCBusiness ------------------------------
(* What belongs to one business, in one run of modules that share no       *)
(* variable: only the one in focus moves.                                  *)
EXTENDS MCReviewCadence, GoogleSync, ClientAccess, Signup

CONSTANTS
  Shop, Other, Old,       \* two Google profiles, and a review of the first
  Salon, Olga, Otto, Amy  \* a business, its owners, and one of the agency

MCReviewsOf == (Shop :> {Old}) @@ (Other :> {})
MCBusinessOf == [l \in {Home, Branch} |-> Salon]
MCOwners == Salon :> {Olga, Otto}
MCUserOf == [t \in {"first", "second"} |-> Olga]

VARIABLE focus

mcVars == <<vars, syncVars, accessVars, signupVars, focus>>

MCInit ==
  /\ Init /\ SyncInit /\ AccessInit /\ SignupInit
  /\ focus \in {"cadence", "sync", "members", "tickets", "grants", "signup"}

CadenceMoves ==
  focus = "cadence" /\ Next /\ UNCHANGED <<syncVars, accessVars, signupVars, focus>>

SyncMoves ==
  focus = "sync" /\ SyncNext /\ UNCHANGED <<vars, accessVars, signupVars, focus>>

MembersMove ==
  /\ focus = "members" /\ MembershipNext
  /\ UNCHANGED <<vars, syncVars, signupVars, focus>>

TicketsMove ==
  /\ focus = "tickets" /\ (GrantNext \/ TicketNext)
  /\ UNCHANGED <<vars, syncVars, signupVars, focus>>

\* Beside the grants Otto may take Olga's membership away.
GrantsMove ==
  /\ focus = "grants"
  /\ \/ GrantNext \/ ClaimNext
     \/ ExamineMembership(Otto, Salon, Olga, [Owner EXCEPT !.active = FALSE])
     \/ WriteMembership(Otto)
  /\ UNCHANGED <<vars, syncVars, signupVars, focus>>

SignupMoves ==
  focus = "signup" /\ SignupNext /\ UNCHANGED <<vars, syncVars, accessVars, focus>>

MCNext ==
  \/ CadenceMoves \/ SyncMoves
  \/ MembersMove \/ TicketsMove \/ GrantsMove \/ SignupMoves

MCSpec == MCInit /\ [][MCNext]_mcVars

=============================================================================
