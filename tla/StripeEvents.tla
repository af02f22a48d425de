---------------------------- MODULE StripeEvents ----------------------------
(***************************************************************************)
(* Card payments: a tenant's checkout and a customer's subscription are    *)
(* completed at Stripe, which delivers checkout.session.completed until    *)
(* the webhook answers with a 2xx, and sometimes again. The rent handler   *)
(* looks for the payment and then writes it, two transactions; the         *)
(* subscription handler inserts ON CONFLICT DO NOTHING, and the platform   *)
(* owner approves or rejects what is pending.                              *)
(***************************************************************************)
EXTENDS Naturals, FiniteSets

CONSTANTS
    RentSessions,      \* checkout sessions of the rent flow (a bound)
    SubSessions,       \* checkout sessions of the subscription funnel (a bound)
    Deliveries,        \* deliveries that may be handled at once (a bound)
    MaxStripeFaults    \* how often a handler fails or its answer is lost (a bound)

Sessions == RentSessions \cup SubSessions

\* A handler that has nothing at hand.
Free == "free"

ASSUME StripeAssumption ==
    /\ RentSessions \cap SubSessions = {}
    /\ Free \notin Sessions
    /\ MaxStripeFaults \in Nat

VARIABLES
    session,       \* status of each checkout session at Stripe
    unanswered,    \* sessions whose event has had no 2xx yet
    delivery,      \* the session whose event a handler has found unrecorded
    cardPayments,  \* rows of rent_payments for each session
    subscription,  \* the session's row of pending_subscriptions
    decisions,     \* how often the owner has decided on each subscription
    stripeFaults,  \* faults so far
    handledTwice   \* sessions two handlers found unrecorded at once

stripeVars == <<session, unanswered, delivery, cardPayments, subscription,
                decisions, stripeFaults, handledTwice>>

StripeFault == stripeFaults < MaxStripeFaults /\ stripeFaults' = stripeFaults + 1
Answer(s) == unanswered' = unanswered \ {s}

-----------------------------------------------------------------------------
\* POST /api/tenant-portal/rent/checkout, or a pricing card: nothing is written
\* here, the session lives at Stripe.
OpenCheckout(s) ==
    /\ session[s] = "none"
    /\ session' = [session EXCEPT ![s] = "open"]
    /\ UNCHANGED <<unanswered, delivery, cardPayments, subscription, decisions, stripeFaults, handledTwice>>

\* Stripe: the money is there, or the method of payment settles later. In both
\* cases the event is due.
CompleteCheckout(s) ==
    /\ session[s] = "open"
    /\ session' \in {[session EXCEPT ![s] = "paid"], [session EXCEPT ![s] = "unpaid"]}
    /\ unanswered' = unanswered \cup {s}
    /\ UNCHANGED <<delivery, cardPayments, subscription, decisions, stripeFaults, handledTwice>>

Delivered(s) == session[s] \in {"paid", "unpaid"}

PaidFor(s) == session[s] = "paid"

\* A rent session that is not paid yet is answered and skipped for good.
SkipUnpaid(s) ==
    /\ s \in RentSessions /\ Delivered(s) /\ ~ PaidFor(s)
    /\ Answer(s)
    /\ UNCHANGED <<session, delivery, cardPayments, subscription, decisions, stripeFaults, handledTwice>>

\* Variants of Recorded: the payment is not looked for; any card payment will do.
NeverRecorded(s) == FALSE
AnyRecorded(s) == \E t \in RentSessions : cardPayments[t] > 0
Recorded(s) == cardPayments[s] > 0

\* The rent handler looks for the payment of the session.
LookForPayment(d, s) ==
    /\ s \in RentSessions /\ PaidFor(s)
    /\ delivery[d] = Free
    /\ IF Recorded(s)
       THEN Answer(s) /\ UNCHANGED delivery
       ELSE delivery' = [delivery EXCEPT ![d] = s] /\ UNCHANGED unanswered
    /\ UNCHANGED <<session, cardPayments, subscription, decisions, stripeFaults, handledTwice>>

\* The payment is written, whatever another handler wrote in between: nothing
\* is unique in reference_note. The answer may be lost.
WritePayment(d, s) ==
    /\ delivery[d] = s
    /\ cardPayments' = [cardPayments EXCEPT ![s] = @ + 1]
    /\ handledTwice' = handledTwice \cup
          {t \in {s} : \E e \in Deliveries \ {d} : delivery[e] = s}
    /\ delivery' = [delivery EXCEPT ![d] = Free]
    /\ \/ Answer(s) /\ UNCHANGED stripeFaults
       \/ StripeFault /\ UNCHANGED unanswered
    /\ UNCHANGED <<session, subscription, decisions>>

\* The handler throws, or its process ends: 500 or no answer at all.
HandlerFails(d) ==
    /\ delivery[d] # Free
    /\ StripeFault
    /\ delivery' = [delivery EXCEPT ![d] = Free]
    /\ UNCHANGED <<session, unanswered, cardPayments, subscription, decisions, handledTwice>>

OnConflict(s) == IF subscription[s] = "none" THEN "pending" ELSE subscription[s]

\* The subscription handler, one statement; its answer may be lost.
InsertSubscription(s) ==
    /\ s \in SubSessions /\ Delivered(s)
    /\ subscription' = [subscription EXCEPT ![s] = OnConflict(s)]
    /\ \/ Answer(s) /\ UNCHANGED stripeFaults
       \/ StripeFault /\ UNCHANGED unanswered
    /\ UNCHANGED <<session, delivery, cardPayments, decisions, handledTwice>>

\* mark-approved and mark-rejected: one update of a row that is pending.
Decide(s, verdict) ==
    /\ subscription[s] = "pending"
    /\ subscription' = [subscription EXCEPT ![s] = verdict]
    /\ decisions' = [decisions EXCEPT ![s] = @ + 1]
    /\ UNCHANGED <<session, unanswered, delivery, cardPayments, stripeFaults, handledTwice>>

MarkApproved(s) == Decide(s, "approved")
MarkRejected(s) == Decide(s, "rejected")

-----------------------------------------------------------------------------
StripeInit ==
    /\ session = [s \in Sessions |-> "none"]
    /\ unanswered = {}
    /\ delivery = [d \in Deliveries |-> Free]
    /\ cardPayments = [s \in RentSessions |-> 0]
    /\ subscription = [s \in SubSessions |-> "none"]
    /\ decisions = [s \in SubSessions |-> 0]
    /\ stripeFaults = 0
    /\ handledTwice = {}

\* Handling of the event of s, by any handler.
Handle(s) ==
    \/ SkipUnpaid(s)
    \/ InsertSubscription(s)
    \/ \E d \in Deliveries : LookForPayment(d, s) \/ WritePayment(d, s)

StripeNext ==
    \/ \E s \in Sessions : OpenCheckout(s) \/ CompleteCheckout(s)
    \/ \E s \in Sessions : Handle(s)
    \/ \E d \in Deliveries : HandlerFails(d)
    \/ \E s \in SubSessions : MarkApproved(s) \/ MarkRejected(s)

StripeSpec == StripeInit /\ [][StripeNext]_stripeVars
\* Stripe delivers an event that has no answer again.
HandleUnanswered(s) == s \in unanswered /\ Handle(s)
StripeFairness == \A s \in Sessions : WF_stripeVars(HandleUnanswered(s))

-----------------------------------------------------------------------------
(* Sessions, handlers and rows are in states the code can leave them in, and *)
(* no row of a session exists that Stripe did not complete.                  *)
StripeTypeOK ==
    /\ session \in [Sessions -> {"none", "open", "paid", "unpaid"}]
    /\ unanswered \subseteq {s \in Sessions : Delivered(s)}
    /\ delivery \in [Deliveries -> {Free} \cup {s \in RentSessions : session[s] = "paid"}]
    /\ cardPayments \in [RentSessions -> Nat]
    /\ \A s \in RentSessions : cardPayments[s] > 0 => session[s] = "paid"
    /\ subscription \in [SubSessions -> {"none", "pending", "approved", "rejected"}]
    /\ \A s \in SubSessions : subscription[s] # "none" => Delivered(s)
    /\ decisions \in [SubSessions -> Nat]
    /\ stripeFaults \in 0..MaxStripeFaults
    /\ handledTwice \subseteq RentSessions

(* An event that is delivered again, because its answer was lost or for no  *)
(* reason, is not paid again, unless two handlers were at it at once, and   *)
(* does not put a subscription before the owner that was decided already.   *)
CardEventActsOnce ==
    /\ \A s \in RentSessions : cardPayments[s] <= 1 \/ s \in handledTwice
    /\ \A s \in SubSessions : decisions[s] <= 1

(* What a card has paid ends up in the ledger, and every subscription with  *)
(* the owner, although handlers fail and answers are lost.                  *)
CardPaymentsAreRecorded ==
    <>[](/\ \A s \in RentSessions : session[s] = "paid" => cardPayments[s] > 0
         /\ \A s \in SubSessions : Delivered(s) => subscription[s] # "none")
=============================================================================
