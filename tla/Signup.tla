------------------------------- MODULE Signup --------------------------------
(***************************************************************************)
(* How an account begins: somebody gives an e-mail address and is sent a   *)
(* link, follows it, and registers.  create_signup_intent counts and then  *)
(* inserts under a lock of the address, register_verified_signup looks for *)
(* the address among the users and then inserts; each is two steps here.   *)
(***************************************************************************)
EXTENDS Naturals, FiniteSets

CONSTANTS
  Addresses,
  Intents,      \* the rows of signup_intents there is room for
  MailLimit     \* four links in fifteen minutes

ASSUME SignupAssumption == MailLimit \in Nat

VARIABLES
  stage,      \* per intent: what has become of it
  address,    \* per intent: for whom it is
  mailed,     \* those whose link was delivered
  recent,     \* those issued in the last fifteen minutes
  lapsed,     \* those whose link has expired
  cookies,    \* those a browser holds the verification cookie of
  users       \* the intents whose registration made a user

signupVars == <<stage, address, mailed, recent, lapsed, cookies, users>>

SignupInit ==
  /\ stage = [i \in Intents |-> "unused"]
  /\ address \in [Intents -> Addresses]
  /\ mailed = {} /\ recent = {} /\ lapsed = {} /\ cookies = {} /\ users = {}

Registered(a) == \E i \in users : address[i] = a

-----------------------------------------------------------------------------
(* create_signup_intent *)

(* Slip: the advisory lock is not taken. *)
AddressUnlocked(a) == TRUE

AddressFree(a) == \A i \in Intents : address[i] = a => stage[i] # "counted"

LinksOf(a) == {i \in recent : address[i] = a}

(* Whoever is registered, or has had links enough, is told the same and is *)
(* sent nothing: no step.                                                  *)
CountLinks(i) ==
  /\ stage[i] = "unused" /\ AddressFree(address[i])
  /\ ~Registered(address[i])
  /\ Cardinality(LinksOf(address[i])) < MailLimit
  /\ stage' = [stage EXCEPT ![i] = "counted"]
  /\ UNCHANGED <<address, mailed, recent, lapsed, cookies, users>>

(* The row is there, whether or not the mail goes out. *)
IssueLink(i) ==
  /\ stage[i] = "counted"
  /\ stage' = [stage EXCEPT ![i] = "issued"]
  /\ recent' = recent \cup {i}
  /\ mailed' \in {mailed, mailed \cup {i}}
  /\ UNCHANGED <<address, lapsed, cookies, users>>

WindowPasses(i) ==
  /\ i \in recent
  /\ recent' = recent \ {i}
  /\ UNCHANGED <<stage, address, mailed, lapsed, cookies, users>>

LinkLapses(i) ==
  /\ stage[i] \in {"issued", "verified"} /\ i \notin lapsed
  /\ lapsed' = lapsed \cup {i}
  /\ UNCHANGED <<stage, address, mailed, recent, cookies, users>>

(* The page of the link follows it, maybe more than once: the first call   *)
(* that gets there consumes the intent, and its answer, with the cookie,   *)
(* may be lost.                                                            *)
FollowLink(i) ==
  /\ i \in mailed /\ stage[i] = "issued" /\ i \notin lapsed
  /\ stage' = [stage EXCEPT ![i] = "verified"]
  /\ cookies' \in {cookies, cookies \cup {i}}
  /\ UNCHANGED <<address, mailed, recent, lapsed, users>>

-----------------------------------------------------------------------------
(* register_verified_signup *)

(* The row of the intent is locked; the address is not. *)
LookForUser(i) ==
  /\ i \in cookies /\ stage[i] = "verified" /\ i \notin lapsed
  /\ ~Registered(address[i])
  /\ stage' = [stage EXCEPT ![i] = "registering"]
  /\ UNCHANGED <<address, mailed, recent, lapsed, cookies, users>>

(* Slip: users has no unique index on the address. *)
InsertedAnyway(i) == TRUE

(* users_email_canonical_uidx *)
Insertable(i) == ~Registered(address[i])

(* The answer clears the cookie, if it arrives. *)
Register(i) ==
  /\ stage[i] = "registering" /\ Insertable(i)
  /\ users' = users \cup {i}
  /\ stage' = [stage EXCEPT ![i] = "registered"]
  /\ cookies' \in {cookies, cookies \ {i}}
  /\ UNCHANGED <<address, mailed, recent, lapsed>>

(* The index refuses the row or the connection ends: all is undone. *)
RegisterFails(i) ==
  /\ stage[i] = "registering"
  /\ stage' = [stage EXCEPT ![i] = "verified"]
  /\ UNCHANGED <<address, mailed, recent, lapsed, cookies, users>>

SignupNext ==
  \E i \in Intents :
    \/ CountLinks(i) \/ IssueLink(i) \/ FollowLink(i)
    \/ LookForUser(i) \/ Register(i) \/ RegisterFails(i)
    \/ WindowPasses(i) \/ LinkLapses(i)

SignupSpec == SignupInit /\ [][SignupNext]_signupVars

-----------------------------------------------------------------------------
(* Nobody is sent more links in fifteen minutes than the limit, also by    *)
(* requests that count at the same time (create_signup_intent).            *)
MailsAreLimited ==
  \A a \in Addresses : Cardinality(LinksOf(a) \cap mailed) <= MailLimit

(* An address gets one account, also when two of its links are registered  *)
(* at the same time (register_verified_signup).                            *)
OneAccountPerAddress ==
  \A i, j \in users : address[i] = address[j] => i = j

=============================================================================
