-------------------------- MODULE MessageLifecycle --------------------------
(***************************************************************************)
(* What the delivery queue promises about one logical message, whatever    *)
(* the number of workers, leases and crashes behind it.                    *)
(*                                                                         *)
(* A queued message may be put in flight, once at a time and at most       *)
(* MaxAttempts times.  An attempt in flight ends in exactly one way: the   *)
(* provider accepted it, refused it, its outcome was lost, or it was       *)
(* parked before reaching the provider because the SMS allowance is used   *)
(* up.  A lost outcome leaves the message in doubt, and only a decision    *)
(* from outside settles a doubt.  A sent, dead or cancelled message never  *)
(* moves again.                                                            *)
(***************************************************************************)
EXTENDS Naturals

CONSTANTS
  Messages,      \* the logical messages
  MaxAttempts    \* attempts a message may use

VARIABLES
  phase,   \* phase[m]: where message m is in its life
  tries    \* tries[m]: attempts m has used

lifecycleVars == <<phase, tries>>

Phases == {"queued", "inflight", "doubt", "sent", "dead", "cancelled"}

LifecycleTypeOK ==
  /\ phase \in [Messages -> Phases]
  /\ tries \in [Messages -> 0..MaxAttempts]

LifecycleInit ==
  /\ phase = [m \in Messages |-> "queued"]
  /\ tries = [m \in Messages |-> 0]

Becomes(m, from, to) ==
  /\ phase[m] = from
  /\ phase' = [phase EXCEPT ![m] = to]

Launch(m) ==
  /\ tries[m] < MaxAttempts
  /\ Becomes(m, "queued", "inflight")
  /\ tries' = [tries EXCEPT ![m] = @ + 1]

Accept(m) == Becomes(m, "inflight", "sent") /\ UNCHANGED tries

(* A refusal spends the attempt: the message queues again or is dead. *)
AfterRefusal(m) == IF tries[m] < MaxAttempts THEN "queued" ELSE "dead"

Refuse(m) == Becomes(m, "inflight", AfterRefusal(m)) /\ UNCHANGED tries

(* An SMS held back for its allowance queues again, its attempt spent. *)
Park(m) == Becomes(m, "inflight", "queued") /\ UNCHANGED tries

Settle(m) ==
  \/ Becomes(m, "doubt", "sent") /\ UNCHANGED tries
  \/ Becomes(m, "doubt", AfterRefusal(m)) /\ UNCHANGED tries

(* One worker's claim puts every attempt it finds abandoned in doubt, and  *)
(* a disconnected Google profile cancels every message still queued: both  *)
(* take a set of messages at once.                                         *)
LoseAll(S) ==
  /\ \A m \in S : phase[m] = "inflight"
  /\ phase' = [m \in Messages |-> IF m \in S THEN "doubt" ELSE phase[m]]
  /\ UNCHANGED tries

CancelAll(S) ==
  /\ \A m \in S : phase[m] = "queued"
  /\ phase' = [m \in Messages |-> IF m \in S THEN "cancelled" ELSE phase[m]]
  /\ UNCHANGED tries

LifecycleNext ==
  \/ \E m \in Messages :
       Launch(m) \/ Accept(m) \/ Refuse(m) \/ Park(m) \/ Settle(m)
  \/ \E S \in SUBSET Messages : LoseAll(S) \/ CancelAll(S)

LifecycleSpec == LifecycleInit /\ [][LifecycleNext]_lifecycleVars

=============================================================================
