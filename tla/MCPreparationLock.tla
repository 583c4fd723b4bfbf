-------------------------- MODULE MCPreparationLock ---------------------------
(* Six runs of the command in the roles that tell the story of a claim     *)
(* file which is compared and then unlinked by its path: more freedom than *)
(* that is out of reach with six processes.                                *)
EXTENDS PreparationLock

CONSTANTS FirstOwner, Taker, Late, SecondOwner, Claimant, Rival

Failing == {"drop_handoff", "unlink_handoff_dropping", "undo_handoff",
            "unlink_handoff_undoing", "undo_claim", "unlink_claim",
            "undo_transition", "failed"}

(* The first owner only holds the lock and dies.  Then come the one that    *)
(* takes the lock over and the one that is late and fails; the second owner *)
(* follows the taker when the late one is between its two calls, and dies   *)
(* in turn, and two more processes claim its lock.                          *)
Roles ==
  /\ lockStep[FirstOwner] \in {"install", "hold"}
  /\ lockStep[Taker] # "install" => ~alive[FirstOwner]
  /\ lockStep[Late] # "install" => ~alive[FirstOwner]
  /\ lockStep[SecondOwner] # "install" =>
       lockStep[Taker] = "released" /\ lockStep[Late] \in Failing
  /\ \A p \in {Claimant, Rival} : lockStep[p] # "install" => ~alive[SecondOwner]
  /\ \A p \in Processes \ {Late} : lockStep[p] \notin Failing

=============================================================================
