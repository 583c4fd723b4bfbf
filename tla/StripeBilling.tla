--------------------------- MODULE StripeBilling ----------------------------
(***************************************************************************)
(* The billing account of one business and Stripe on the other side:       *)
(* Checkout attempts prepared, created and bound by the application, and   *)
(* signed events that the ingress process applies in whatever order and as *)
(* often as they arrive (migration 005, server/providers/stripe.ts).       *)
(*                                                                         *)
(* A Checkout session and the subscription it creates bear the name of     *)
(* their attempt, and so does the customer Stripe makes up when the        *)
(* session names none.  Events carry the second they were created in.      *)
(* Periods, prices and the live mode are left out.                         *)
(***************************************************************************)
EXTENDS Naturals, FiniteSets

CONSTANTS
  Attempts,       \* Checkout attempts (and their sessions, subscriptions)
  Null,           \* null
  StrictClock,    \* no two changes of a subscription within one second
  LastSecond,     \* bound: the last second
  MaxEvents       \* bound: the events Stripe emits

ASSUME NullAssumption == Null \notin Attempts \cup {"active", "past_due", "cancelled"}
ASSUME BoundsAssumption ==
  StrictClock \in BOOLEAN /\ LastSecond \in Nat /\ MaxEvents \in Nat

VARIABLES
  \* the application
  attempt,        \* stripe_checkout_attempts.status, "none" without a row
  bound,          \* attempts whose stripe_checkout_session_id is set
  asked,          \* asked[a]: the customer prepare_stripe_checkout returned
  account,        \* the billing_accounts row
  recorded,       \* stripe_billing_events: the ids it has
  \* Stripe
  second,
  session,        \* status of each Checkout session
  paid,           \* attempts whose setup fee is paid
  subscription,   \* state of each subscription, as subscriptionState maps it
  events          \* every event Stripe has emitted

appVars == <<attempt, bound, asked, account, recorded>>
stripeVars == <<second, session, paid, subscription, events>>
billingVars == <<attempt, bound, asked, account, recorded,
          second, session, paid, subscription, events>>

CheckoutStatuses == {"none", "prepared", "created", "completed", "failed", "expired"}
SessionStatuses == {"none", "open", "pending", "complete", "expired"}
SubscriptionStates == {"active", "past_due", "cancelled"}
AccountStatuses == {"inactive", "pilot", "active", "past_due", "cancelled"}

Event ==
  [id : 1..MaxEvents, kind : {"checkout", "subscription"}, attempt : Attempts,
   state : SubscriptionStates \cup {"completed", "failed", "expired"},
   setupPaid : BOOLEAN, customer : Attempts, created : 0..LastSecond]

BillingInit ==
  /\ attempt = [a \in Attempts |-> "none"]
  /\ bound = {}
  /\ asked = [a \in Attempts |-> Null]
  /\ \E status \in {"inactive", "pilot"} :
       account = [customer |-> Null, subscription |-> Null, setupFeePaid |-> FALSE,
                  state |-> Null, stateAt |-> 0, status |-> status]
  /\ recorded = {}
  /\ second = 0
  /\ session = [a \in Attempts |-> "none"]
  /\ paid = {}
  /\ subscription = [a \in Attempts |-> "none"]
  /\ events = {}

-----------------------------------------------------------------------------
(* The checkout route: prepare, create at Stripe, bind, redirect.  It may  *)
(* stop anywhere and be called again with the same attempt; a session that *)
(* exists keeps the customer it was created with.                          *)

PrepareCheckout(a) ==
  /\ account.status \notin {"active", "past_due"}
  /\ attempt' = [attempt EXCEPT ![a] = IF @ = "none" THEN "prepared" ELSE @]
  /\ asked' = [asked EXCEPT ![a] = IF session[a] = "none" THEN account.customer ELSE @]
  /\ UNCHANGED <<bound, account, recorded, stripeVars>>

(* The idempotency key is the attempt's, and every request also bears an   *)
(* identifier of its own: asked again, Stripe refuses, and only the request *)
(* that made the session can bind it.                                      *)
CreateSession(a) ==
  /\ attempt[a] # "none"
  /\ session[a] = "none"
  /\ session' = [session EXCEPT ![a] = "open"]
  /\ UNCHANGED <<appVars, second, paid, subscription, events>>

(* bind_stripe_checkout_session: only then does the browser get the URL. *)
Bind(a) ==
  /\ session[a] # "none"
  /\ bound' = bound \cup {a}
  /\ attempt' = [attempt EXCEPT ![a] = IF @ = "prepared" THEN "created" ELSE @]
  /\ UNCHANGED <<asked, account, recorded, stripeVars>>

-----------------------------------------------------------------------------
(* Stripe                                                                  *)

CustomerOf(a) == IF asked[a] = Null THEN a ELSE asked[a]

CheckoutEvent(a, state, setupPaid) ==
  [kind |-> "checkout", attempt |-> a, state |-> state, setupPaid |-> setupPaid,
   customer |-> CustomerOf(a), created |-> second]
SubscriptionEvent(a, state) ==
  [kind |-> "subscription", attempt |-> a, state |-> state, setupPaid |-> FALSE,
   customer |-> CustomerOf(a), created |-> second]

(* Stripe numbers what happened, the oldest first. *)
Numbered(body, id) ==
  [id |-> id, kind |-> body.kind, attempt |-> body.attempt, state |-> body.state,
   setupPaid |-> body.setupPaid, customer |-> body.customer, created |-> body.created]
Emit(bodies) ==
  LET n == Cardinality(events) IN
  /\ n + Cardinality(DOMAIN bodies) <= MaxEvents
  /\ events' = events \cup {Numbered(bodies[i], n + i) : i \in DOMAIN bodies}

(* The customer goes through with Checkout: at once paid, or with a method *)
(* that takes its time.                                                    *)
CompleteCheckout(a, state, setupPaid) ==
  /\ session[a] = "open" /\ a \in bound
  /\ session' = [session EXCEPT ![a] = IF setupPaid THEN "complete" ELSE "pending"]
  /\ paid' = IF setupPaid THEN paid \cup {a} ELSE paid
  /\ subscription' = [subscription EXCEPT ![a] = state]
  /\ Emit(<<SubscriptionEvent(a, state), CheckoutEvent(a, "completed", setupPaid)>>)
  /\ UNCHANGED <<appVars, second>>

(* async_payment_succeeded or async_payment_failed *)
PaymentArrives(a, succeeds) ==
  /\ session[a] = "pending"
  /\ session' = [session EXCEPT ![a] = "complete"]
  /\ paid' = IF succeeds THEN paid \cup {a} ELSE paid
  /\ Emit(<<CheckoutEvent(a, IF succeeds THEN "completed" ELSE "failed", succeeds)>>)
  /\ UNCHANGED <<appVars, second, subscription>>

SessionExpires(a) ==
  /\ session[a] = "open"
  /\ session' = [session EXCEPT ![a] = "expired"]
  /\ Emit(<<CheckoutEvent(a, "expired", FALSE)>>)
  /\ UNCHANGED <<appVars, second, paid, subscription>>

(* A renewal fails or recovers, or the subscription is cancelled for good. *)
SubscriptionChanges(a, state) ==
  /\ subscription[a] \in {"active", "past_due"} /\ subscription[a] # state
  /\ StrictClock => \A e \in events :
       e.kind = "subscription" /\ e.attempt = a => e.created < second
  /\ subscription' = [subscription EXCEPT ![a] = state]
  /\ Emit(<<SubscriptionEvent(a, state)>>)
  /\ UNCHANGED <<appVars, second, session, paid>>

SecondPasses ==
  /\ second < LastSecond
  /\ second' = second + 1
  /\ UNCHANGED <<appVars, session, paid, subscription, events>>

-----------------------------------------------------------------------------
(* apply_stripe_billing_event, in one transaction under the account's row  *)
(* lock.  An event it raises on leaves no trace and is delivered again.    *)

Same(known, given) == known = Null \/ known = given

AccountMatches(e) ==
  Same(account.customer, e.customer) /\ Same(account.subscription, e.attempt)

Acceptable(e) ==
  /\ e.attempt \in bound
  /\ (e.kind = "checkout" /\ e.state = "expired") \/ AccountMatches(e)

Severity(state) ==
  CASE state = "cancelled" -> 3 [] state = "past_due" -> 2
    [] state = "inactive" -> 1 [] OTHER -> 0

(* Slip: the event delivered last wins. *)
SupersedesAlways(e) == e \in events

(* Newer, or of the same second and not milder. *)
Supersedes(e) ==
  \/ account.state = Null
  \/ e.created > account.stateAt
  \/ e.created = account.stateAt /\ Severity(e.state) >= Severity(account.state)

AfterCheckout(e) ==
  IF e.state = "expired" THEN account
  ELSE [account EXCEPT !.customer = IF @ = Null THEN e.customer ELSE @,
                       !.subscription = IF @ = Null THEN e.attempt ELSE @,
                       !.setupFeePaid = @ \/ e.setupPaid]

AfterSubscription(e) ==
  IF Supersedes(e)
  THEN [account EXCEPT !.customer = e.customer, !.subscription = e.attempt,
                       !.state = e.state, !.stateAt = e.created]
  ELSE account

(* Slip: the setup fee is forgotten. *)
StatusWithoutFee(acct) == IF acct.state = Null THEN acct.status ELSE acct.state

(* The last statement: the status follows from the two facts. *)
StatusFor(acct) ==
  CASE acct.state = Null -> acct.status
    [] acct.state = "active" -> IF acct.setupFeePaid THEN "active" ELSE "inactive"
    [] OTHER -> acct.state

(* Slip: the status is only worked out when the subscription reports. *)
AfterEventOfSubscription(e) ==
  LET acct == AfterSubscription(e) IN
  IF e.kind = "checkout" THEN AfterCheckout(e)
  ELSE [acct EXCEPT !.status = StatusFor(acct)]

AfterEvent(e) ==
  LET acct == IF e.kind = "checkout" THEN AfterCheckout(e) ELSE AfterSubscription(e)
  IN [acct EXCEPT !.status = StatusFor(acct)]

Deliver(e) ==
  /\ e.id \notin recorded
  /\ Acceptable(e)
  /\ recorded' = recorded \cup {e.id}
  /\ account' = AfterEvent(e)
  /\ attempt' = IF e.kind = "checkout"
                THEN [attempt EXCEPT ![e.attempt] = e.state] ELSE attempt
  /\ UNCHANGED <<bound, asked, stripeVars>>

DeliverAgain(e) ==
  /\ e.id \in recorded
  /\ UNCHANGED billingVars

DeliverAny == \E e \in events : Deliver(e)

BillingNext ==
  \/ \E a \in Attempts :
       \/ PrepareCheckout(a) \/ CreateSession(a) \/ Bind(a) \/ SessionExpires(a)
       \/ \E state \in {"active", "past_due"}, setupPaid \in BOOLEAN :
            CompleteCheckout(a, state, setupPaid)
       \/ \E succeeds \in BOOLEAN : PaymentArrives(a, succeeds)
       \/ \E state \in SubscriptionStates : SubscriptionChanges(a, state)
  \/ SecondPasses
  \/ \E e \in events : Deliver(e) \/ DeliverAgain(e)

BillingSpec == BillingInit /\ [][BillingNext]_billingVars

(* Stripe delivers an event again until it is acknowledged. *)
StripeFairness == WF_billingVars(DeliverAny)

FairBillingSpec == BillingSpec /\ StripeFairness

-----------------------------------------------------------------------------

(* Every column has the values it may hold. *)
BillingTypeOK ==
  /\ attempt \in [Attempts -> CheckoutStatuses]
  /\ bound \subseteq Attempts
  /\ asked \in [Attempts -> Attempts \cup {Null}]
  /\ account \in
       [customer : Attempts \cup {Null}, subscription : Attempts \cup {Null},
        setupFeePaid : BOOLEAN, state : SubscriptionStates \cup {Null},
        stateAt : 0..LastSecond, status : AccountStatuses]
  /\ recorded \subseteq 1..MaxEvents
  /\ second \in 0..LastSecond
  /\ session \in [Attempts -> SessionStatuses]
  /\ paid \subseteq Attempts
  /\ subscription \in [Attempts -> SubscriptionStates \cup {"none"}]
  /\ events \subseteq Event

(* In whatever order the two facts are reported, an account is active only  *)
(* if the setup fee of its own subscription is paid and that subscription   *)
(* was, at the time the account shows, active.                              *)
ActiveIsPaid ==
  account.status = "active" =>
    /\ account.subscription \in paid
    /\ \E e \in events : e.kind = "subscription" /\ e.state = "active"
         /\ e.attempt = account.subscription /\ e.created = account.stateAt

(* "Event creation timestamps fence stale subscription updates."  Once      *)
(* every event of its subscription is in, in whatever order, the account    *)
(* shows the state Stripe has.                                              *)
AllIn(a) == \A e \in events : e.attempt = a => e.id \in recorded
StaleUpdatesAreFenced ==
  \A a \in Attempts : account.subscription = a /\ AllIn(a) =>
    account.state = subscription[a]

(* "Confirm checkout.session.completed and subscription events return HTTP  *)
(* 204."  So can what it reports of any Checkout the application opened.    *)
OwnEventsAreRecordable ==
  \A e \in events : e.id \notin recorded /\ e.attempt \in bound => Acceptable(e)

(* A business that paid the setup fee and has an active subscription gets   *)
(* active, although Stripe reports the two in any order.                    *)
PayingGetsActive ==
  \A a \in Attempts :
    <>[](subscription[a] = "active" /\ a \in paid /\ account.subscription = a)
      => <>[](account.status = "active")

=============================================================================
