---------------------------- MODULE CardPayments ----------------------------
(***************************************************************************)
(* Card payments (stripe.service.ts, routes/v1/payments.ts): hosted         *)
(* checkout sessions and embedded payment intents, and the webhook that     *)
(* credits the wallet.  Stripe delivers an event again until it gets a 2xx  *)
(* answer.                                                                  *)
(***************************************************************************)
EXTENDS Naturals

CONSTANTS
  Sessions,   \* hosted checkouts
  Intents,    \* payments through the embedded form
  MaxFaults   \* bound: webhook requests that throw or whose answer is lost

CardAssumption == Sessions \cap Intents = {} /\ MaxFaults \in Nat

VARIABLES
  pay,      \* Stripe's state of a payment
  event,    \* Stripe's state of each event
  credits,  \* creditBalance calls that landed, per event
  faults

vars == <<pay, event, credits, faults>>

Payments == Sessions \cup Intents
Kinds == {"session.completed", "intent.succeeded", "intent.failed"}
Events == Payments \X Kinds

Init ==
  /\ pay = [x \in Payments |-> "none"] /\ event = [e \in Events |-> "none"]
  /\ credits = [e \in Events |-> 0] /\ faults = 0

Queue(es) == event' = [e \in Events |-> IF e \in es THEN "queued" ELSE event[e]]

\* createCheckoutSession or createPaymentIntent.
Create(x) ==
  /\ pay[x] = "none"
  /\ pay' = [pay EXCEPT ![x] = "open"]
  /\ UNCHANGED <<event, credits, faults>>

\* The card is charged.  A hosted checkout has an intent underneath, which succeeds too; both events are
\* sent.  Only cards are accepted, so a completed session is paid.
Pay(x) ==
  /\ pay[x] = "open"
  /\ pay' = [pay EXCEPT ![x] = "paid"]
  /\ Queue({<<x, "intent.succeeded">>} \cup {<<s, "session.completed">> : s \in Sessions \cap {x}})
  /\ UNCHANGED <<credits, faults>>

Decline(x) ==
  /\ pay[x] = "open" /\ event[<<x, "intent.failed">>] = "none"
  /\ Queue({<<x, "intent.failed">>})
  /\ UNCHANGED <<pay, credits, faults>>

\* Mutant: the session's metadata is copied to its intent.
HasMetadataBoth(e) == TRUE

\* The object of the event carries userId and cldAmount: createCheckoutSession puts them on the session
\* only, createPaymentIntent on the intent.
HasMetadata(e) == e[2] = "session.completed" \/ e[1] \in Intents

\* Mutant: a failed intent is credited like one that succeeded.
CreditingAnyIntent(e) == HasMetadata(e)

\* Mutant: only hosted checkouts are credited.
CreditingSessions(e) == HasMetadata(e) /\ e[2] = "session.completed"

\* handleWebhook calls creditUserBalance for the event.
Crediting(e) == HasMetadata(e) /\ e[2] \in {"session.completed", "intent.succeeded"}

\* The signed event arrives; one that credits nobody is answered at once.
Deliver(e) ==
  /\ event[e] = "queued"
  /\ event' = [event EXCEPT ![e] = IF Crediting(e) THEN "credit" ELSE "answered"]
  /\ UNCHANGED <<pay, credits, faults>>

\* creditBalance: the batch lands, then the new balance is read for the answer.
Credit(e) ==
  /\ event[e] = "credit"
  /\ credits' = [credits EXCEPT ![e] = @ + 1]
  /\ event' = [event EXCEPT ![e] = "read"]
  /\ UNCHANGED <<pay, faults>>

\* Mutant: a credited event is not acknowledged.
AnswerNever(e) ==
  /\ event[e] = "read"
  /\ Queue({e})
  /\ UNCHANGED <<pay, credits, faults>>

Answer(e) ==
  /\ event[e] = "read"
  /\ event' = [event EXCEPT ![e] = "answered"]
  /\ UNCHANGED <<pay, credits, faults>>

\* A statement throws (the route answers 400) or the answer is lost: Stripe delivers the event again.
Redeliver(e) ==
  /\ event[e] \in {"credit", "read"} /\ faults < MaxFaults
  /\ faults' = faults + 1
  /\ Queue({e})
  /\ UNCHANGED <<pay, credits>>

Handle(e) == Deliver(e) \/ Credit(e) \/ Answer(e)

Next ==
  \/ \E x \in Payments : Create(x) \/ Pay(x) \/ Decline(x)
  \/ \E e \in Events : Handle(e) \/ Redeliver(e)

Spec == Init /\ [][Next]_vars

\* Stripe delivers every event until it is answered, and a request that does not throw goes on.
Fairness == \A e \in Events : WF_vars(Handle(e))

FairSpec == Spec /\ Fairness

-----------------------------------------------------------------------------
(* Properties. *)

\* The types; an event is credited at most once more than requests failed.
TypeOK ==
  /\ pay \in [Payments -> {"none", "open", "paid"}]
  /\ event \in [Events -> {"none", "queued", "credit", "read", "answered"}]
  /\ faults \in 0..MaxFaults
  /\ credits \in [Events -> 0..(faults + 1)]

\* "The intent is also fired for hosted checkout - avoid double-crediting": no two events of one payment
\* credit the wallet, and no event credits a payment that was not made.
OneEventCredits ==
  \A d, e \in Events : d[1] = e[1] /\ credits[d] > 0 /\ credits[e] > 0 => d = e /\ pay[e[1]] = "paid"

\* Every card payment is credited, whatever request fails on the way.
PaidIsCredited == \A x \in Payments : (pay[x] = "paid") ~> (\E k \in Kinds : credits[<<x, k>>] > 0)

\* An event that is delivered again after its credit landed is not credited again.
EventCreditedOnce == \A e \in Events : credits[e] =< 1
=============================================================================
