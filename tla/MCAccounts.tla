----------------------------- MODULE MCAccounts ------------------------------
(* What belongs to the accounts, in one run of modules that share no       *)
(* variable: the workspace in the browser, the subscription and a retired   *)
(* Google token.  Only the one in focus moves.                             *)
EXTENDS StripeBilling, TokenRevocation, MCWorkspaceShell

VARIABLE focus

mcVars == <<billingVars, revocationVars, shellVars, focus>>

\* Out of focus the public site is open and nothing is under way.
AtTheSite ==
  /\ cookie = None /\ sessions = <<>> /\ moves = 0
  /\ tab = [Page(Route("agency", None, None)) EXCEPT !.state = "left"]

\* A support session is open only where its agent is signed in, and who
\* comes back from Stripe is the owner.
Opening ==
  /\ ShellInit
  /\ sessions # <<>> => cookie = Anna
  /\ tab.refresh => cookie = Olga

MCInit ==
  /\ RevocationInit /\ BillingInit
  /\ \/ focus = "shell" /\ Opening
     \/ focus \in {"billing", "revocation"} /\ AtTheSite
  /\ focus # "billing" => account.status = "inactive"

BillingMoves ==
  focus = "billing" /\ BillingNext /\ UNCHANGED <<revocationVars, shellVars, focus>>

RevocationMoves ==
  focus = "revocation" /\ RevocationNext /\ UNCHANGED <<billingVars, shellVars, focus>>

ShellMoves == focus = "shell" /\ ShellNext /\ UNCHANGED <<billingVars, revocationVars, focus>>

MCNext == BillingMoves \/ RevocationMoves \/ ShellMoves

MCSpec ==
  /\ MCInit /\ [][MCNext]_mcVars
  /\ StripeFairness /\ RevocationFairness /\ ShellFairness

=============================================================================
