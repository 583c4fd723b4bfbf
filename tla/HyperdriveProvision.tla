------------------------- MODULE HyperdriveProvision -------------------------
(***************************************************************************)
(* scripts/cloudflare/provision.ts, provisionHyperdrives: one Hyperdrive   *)
(* per database binding is found in the account or created, its id is      *)
(* recorded in the account evidence, and the ids are written into the      *)
(* Wrangler configs.                                                       *)
(*                                                                         *)
(* A create may succeed without an answer, the listing may lag behind it,  *)
(* somebody else may create or delete resources of the same name, and the  *)
(* process may stop anywhere and be started again.  No lock is taken: one  *)
(* run at a time is the operator's business.                               *)
(***************************************************************************)
EXTENDS Naturals, FiniteSets

CONSTANTS
  Bindings,      \* AUTH_DB, RUNTIME_DB, INGRESS_DB, WORKER_DB
  Configs,       \* the application, ingress and jobs Wrangler configs
  ConfigOf,      \* the config a binding belongs to
  MaxResources   \* resources ever created (bound of the model)

ASSUME HyperdriveAssumption == ConfigOf \in [Bindings -> Configs] /\ MaxResources \in Nat

VARIABLES
  \* the Cloudflare account
  made,       \* every resource ever created: [id, of, ours, exact]
  gone,       \* those deleted again
  shown,      \* those the listing shows
  \* on disk
  operation,  \* the evidence: per binding what is recorded, "none" before a run
  boundIds,      \* the ids each config binds
  recent,      \* the evidence is not older than fifteen minutes
  \* the process
  step,       \* what it does
  known,      \* its copy of the operation
  target,     \* the binding it is creating
  answer      \* the id a create has answered with, or 0

cloudflare == <<made, gone, shown>>
hyperdriveVars == <<cloudflare, operation, boundIds, recent, step, known, target, answer>>

Ids == 1..MaxResources
Pending == [state |-> "pending", id |-> 0]
Attempted == [state |-> "attempted", id |-> 0]
Entries == {Pending, Attempted} \cup [state : {"created", "reused"}, id : Ids]
None == [b \in Bindings |-> [state |-> "none", id |-> 0]]
Resolved(entry) == entry.state \in {"created", "reused"}

(* A resource of the binding's name; exact when it points at the binding's  *)
(* database with the limits and the role of staging.                        *)
Resource == [id : Ids, of : Bindings, ours : BOOLEAN, exact : BOOLEAN]

HyperdriveInit ==
  /\ made = {} /\ gone = {} /\ shown = {}
  /\ operation = None /\ boundIds = [c \in Configs |-> {}] /\ recent = TRUE
  /\ step = "idle" /\ known = None /\ target = {} /\ answer = 0

-----------------------------------------------------------------------------
(* The account *)

NewResource(b, ours, exact) ==
  [id |-> Cardinality(made) + 1, of |-> b, ours |-> ours, exact |-> exact]

InAccount == made \ gone

SomebodyCreates(b, exact) ==
  /\ Cardinality(made) < MaxResources
  /\ made' = made \cup {NewResource(b, FALSE, exact)}
  /\ UNCHANGED <<gone, shown, operation, boundIds, recent, step, known, target, answer>>

SomebodyDeletes(r) ==
  /\ r \in InAccount
  /\ gone' = gone \cup {r} /\ shown' = shown \ {r}
  /\ UNCHANGED <<made, operation, boundIds, recent, step, known, target, answer>>

(* The listing catches up. *)
Appears(r) ==
  /\ r \in InAccount \ shown
  /\ shown' = shown \cup {r}
  /\ UNCHANGED <<made, gone, operation, boundIds, recent, step, known, target, answer>>

(* selectExactListEntry: two of the name, or one that is not exact, raise.  *)
Listed(b) == {r \in shown : r.of = b /\ r.exact}
Unambiguous(b) == {r \in shown : r.of = b} = Listed(b) /\ Cardinality(Listed(b)) <= 1

-----------------------------------------------------------------------------
(* The command *)

(* operationEntries for a new operation, and the resumption of a recorded   *)
(* one: whatever is listed now and was not resolved before is reused, even  *)
(* what this operation may have created itself.                             *)
Found(entry, b) ==
  CASE Resolved(entry) -> entry
    [] ~Resolved(entry) /\ Listed(b) # {} ->
         [state |-> "reused", id |-> (CHOOSE r \in Listed(b) : TRUE).id]
    [] OTHER -> IF entry.state = "none" THEN Pending ELSE entry

(* A recorded id must be the listed one; an attempt whose resource is not   *)
(* listed is left for a reconciliation by hand.                             *)
Resumable(entry, b) ==
  /\ Resolved(entry) => \E r \in Listed(b) : r.id = entry.id
  /\ entry.state = "attempted" => Listed(b) # {}

(* The evidence is read, the account verified and listed, and the operation *)
(* recorded.                                                                *)
Begin ==
  /\ step = "idle" /\ recent
  /\ \A b \in Bindings : Unambiguous(b) /\ Resumable(operation[b], b)
  /\ known' = [b \in Bindings |-> Found(operation[b], b)]
  /\ operation' = known'
  /\ step' = "next"
  /\ UNCHANGED <<cloudflare, boundIds, recent, target, answer>>

(* Slip: the attempt is recorded in memory alone. *)
AttemptInMemory(b) ==
  /\ step = "next" /\ known[b] = Pending /\ recent
  /\ known' = [known EXCEPT ![b] = Attempted]
  /\ target' = {b} /\ step' = "create"
  /\ UNCHANGED <<cloudflare, operation, boundIds, recent, answer>>

(* The evidence is checked again, and the attempt recorded before it is made. *)
Attempt(b) ==
  /\ step = "next" /\ known[b] = Pending /\ recent
  /\ known' = [known EXCEPT ![b] = Attempted]
  /\ operation' = known'
  /\ target' = {b} /\ step' = "create"
  /\ UNCHANGED <<cloudflare, boundIds, recent, answer>>

(* hyperdrive create: made or not, answered or not; an answer carries the   *)
(* id, and the get that follows may fail.                                   *)
Create(b, answered, got) ==
  /\ step = "create" /\ target = {b}
  /\ Cardinality(made) < MaxResources
  /\ made' = made \cup {NewResource(b, TRUE, TRUE)}
  /\ answer' = IF answered THEN NewResource(b, TRUE, TRUE).id ELSE 0
  /\ step' = IF answered /\ got THEN "created" ELSE "ambiguous"
  /\ UNCHANGED <<gone, shown, operation, boundIds, recent, known, target>>

CreateFails ==
  /\ step = "create"
  /\ answer' = 0 /\ step' = "ambiguous"
  /\ UNCHANGED <<cloudflare, operation, boundIds, recent, known, target>>

Record(b, how, id) ==
  /\ known' = [known EXCEPT ![b] = [state |-> how, id |-> id]]
  /\ operation' = known'
  /\ target' = {} /\ answer' = 0 /\ step' = "next"
  /\ UNCHANGED <<cloudflare, boundIds, recent>>

Confirm(b) == step = "created" /\ target = {b} /\ Record(b, "created", answer)

(* Slip: a resource that turns up after a create is taken to be its result. *)
ReconcileAsCreated(b) ==
  /\ step = "ambiguous" /\ target = {b} /\ Unambiguous(b)
  /\ \E r \in Listed(b) : (answer # 0 => r.id = answer) /\ Record(b, "created", r.id)

(* reconcileAmbiguousCreate: without the id of its own create the command   *)
(* does not claim a resource it finds.                                      *)
Reconcile(b) ==
  /\ step = "ambiguous" /\ target = {b} /\ Unambiguous(b)
  /\ \E r \in Listed(b) :
       /\ answer # 0 => r.id = answer
       /\ Record(b, IF answer = 0 THEN "reused" ELSE "created", r.id)

(* Every binding is resolved and recorded: the configs follow, one by one.  *)
BindConfig(c) ==
  /\ step = "next" /\ \A b \in Bindings : Resolved(known[b])
  /\ boundIds' = [boundIds EXCEPT ![c] =
       {<<b, known[b].id>> : b \in {x \in Bindings : ConfigOf[x] = c}}]
  /\ UNCHANGED <<cloudflare, operation, recent, step, known, target, answer>>

(* The command has ended, has raised, or its process is gone. *)
CommandEnds ==
  /\ step # "idle"
  /\ step' = "idle" /\ known' = None /\ target' = {} /\ answer' = 0
  /\ UNCHANGED <<cloudflare, operation, boundIds, recent>>

(* Fifteen minutes pass; the account is verified anew. *)
Ages == recent /\ recent' = FALSE
        /\ UNCHANGED <<cloudflare, operation, boundIds, step, known, target, answer>>
Verify == ~recent /\ recent' = TRUE
          /\ UNCHANGED <<cloudflare, operation, boundIds, step, known, target, answer>>

HyperdriveNext ==
  \/ Begin \/ CreateFails \/ CommandEnds \/ Ages \/ Verify
  \/ \E b \in Bindings : Attempt(b) \/ Confirm(b) \/ Reconcile(b)
  \/ \E b \in Bindings, answered, got \in BOOLEAN : Create(b, answered, got)
  \/ \E b \in Bindings, exact \in BOOLEAN : SomebodyCreates(b, exact)
  \/ \E r \in made : SomebodyDeletes(r) \/ Appears(r)
  \/ \E c \in Configs : BindConfig(c)

HyperdriveSpec == HyperdriveInit /\ [][HyperdriveNext]_hyperdriveVars

-----------------------------------------------------------------------------

(* createdHyperdriveCleanupTargets *)
CleanupTargets == {operation[b].id : b \in {x \in Bindings : operation[x].state = "created"}}

(* However often the command fails, is stopped and is started again, it     *)
(* creates at most one resource for a binding.                              *)
AtMostOneCreate ==
  \A b \in Bindings : Cardinality({r \in made : r.of = b /\ r.ours}) <= 1

(* The clean-up deletes only what the operation has created: a resource     *)
(* somebody else made under the same name is never a target.                *)
CleanupIsOwn == \A r \in made : r.id \in CleanupTargets => r.ours

=============================================================================
