--------------------------- MODULE SecretRotation ----------------------------
(***************************************************************************)
(* What `staging:prepare` promises about the files it writes: the secrets, *)
(* the environment and the origins of the staging Workers all change in    *)
(* one step to one new generation, whatever fails on the way, and the      *)
(* secrets the environment held before are kept in a file of their own,    *)
(* which is never overwritten.                                             *)
(***************************************************************************)
EXTENDS Naturals

CONSTANTS
  Kept,          \* pre-rotation-secrets.json
  Environment,   \* the staging environment file
  OriginConfigs,       \* the application and ingress Wrangler configs
  SecretFiles,   \* the Workers' secret files
  Generations    \* what one run of the command generates

Absent == 0      \* no such file
Template == 1    \* as tracked: no secrets, no origins

Outputs == {Environment} \cup OriginConfigs \cup SecretFiles
Destinations == {Kept} \cup Outputs

ASSUME RotationAssumption ==
  /\ Generations \subseteq Nat \ {Absent, Template}
  /\ Kept \notin Outputs /\ Environment \notin OriginConfigs \cup SecretFiles
  /\ OriginConfigs \cap SecretFiles = {}

VARIABLE files   \* the generation each file holds

Contents == Generations \cup {Absent, Template}

RotationInit == files = [d \in Destinations |->
                           IF d \in {Environment} \cup OriginConfigs THEN Template ELSE Absent]

HoldsSecrets(content) == content[Environment] \in Generations

(* What the next generation makes of the files. *)
Rotated(content, g) ==
  [d \in Destinations |->
     IF d \in Outputs THEN g
     ELSE IF HoldsSecrets(content) THEN content[Environment] ELSE content[Kept]]

Rotate(g) ==
  /\ HoldsSecrets(files) => files[Kept] = Absent
  /\ files' = Rotated(files, g)

(* The operator has no more use for the secrets that were replaced. *)
Discard == files' = [files EXCEPT ![Kept] = Absent]

RotationNext == Discard \/ \E g \in Generations : Rotate(g)

RotationSpec == RotationInit /\ [][RotationNext]_files

=============================================================================
