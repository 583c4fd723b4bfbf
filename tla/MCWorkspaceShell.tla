-------------------------- MODULE MCWorkspaceShell ---------------------------
(* Two businesses of one agency, an owner of the first and an administrator *)
(* of the agency.                                                           *)
EXTENDS WorkspaceShell, TLC

CONSTANTS
  Olga, Anna,         \* the owner of Here, an administrator of the agency
  Here, There,        \* businesses
  Front, Back, Away   \* locations, two of Here and one of There

MCRoleOf == (Olga :> "owner") @@ (Anna :> "agency_admin")
MCOwnBusiness == (Olga :> Here) @@ (Anna :> None)
MCPlaceOf == (Front :> Here) @@ (Back :> Here) @@ (Away :> There)
MCMainPlace == (Here :> Front) @@ (There :> Away)

\* The way to the agency, the way back from Stripe, and a bookmark whose
\* location belongs to another business.
MCReturns == {Route("billing", Here, Back)}
MCLinks == {Route("agency", None, None)} \cup MCReturns
MCMislaid == {Route("agency", None, None), Route("tenant", Here, Away)}

MCEarlier ==
  {<<>>, <<[agent |-> Anna, business |-> Here, scope |-> "configuration", open |-> TRUE]>>}
NoEarlier == {<<>>}

=============================================================================
