---------------------------- MODULE CheckoutPage ----------------------------
(***************************************************************************)
(* The storefront's checkout page in one browser tab: the delivery form    *)
(* with its two lookups, the submission and its retries under one          *)
(* idempotency key, the payment step with Stripe's redirect, and the       *)
(* polling that tells the customer how the order ended. CheckoutService    *)
(* answers at the other end; the rest of the shop and Stripe move the      *)
(* order on.                                                               *)
(*                                                                         *)
(* Every step is one callback of the browser's event loop, or one          *)
(* statement of the server that another request can overtake. A request    *)
(* may lose its answer, before or after the server has worked on it.       *)
(*                                                                         *)
(* A place stands for a postal code the form looks up, NoPlace for one     *)
(* that is still too short; a pickup point is the pair of the method and   *)
(* the place it was offered for.                                           *)
(***************************************************************************)
EXTENDS Integers, FiniteSets

CONSTANTS
  Methods,         \* shipping methods
  PickupMethods,   \* the ones with requiresPickupPoint
  Places,          \* complete postal codes
  MethodsAt,       \* the methods the provider offers at a place
  NoMethod, NoPlace, NoPoint, NoBody,  \* the form's empty strings
  MaxEdits,        \* bound on what the customer changes in the form
  MaxSubmits,      \* bound on the presses of "place order"
  MaxPolls,        \* polls before POLL_TIMEOUT_MS has passed
  MaxLosses        \* bound on the answers the network loses

ASSUME MethodsAssumption ==
  PickupMethods \subseteq Methods /\ MethodsAt \in [Places \cup {NoPlace} -> SUBSET Methods]
ASSUME BoundsAssumption == {MaxEdits, MaxSubmits, MaxPolls, MaxLosses} \subseteq Nat

VARIABLES
  form,      \* method, pickup point and place in the form
  offered,   \* shippingMethods: the list the form shows
  points,    \* pickupPoints: the list the form shows
  loading,   \* isLoadingPickupPoints
  timers,    \* lookups whose setTimeout has not fired
  lookups,   \* lookups the API has not answered
  failed,    \* the kinds of lookup whose last answer was lost
  phase,     \* the screen of the tab
  waiting,   \* the submission the form waits for, 0 if isSubmitting is false
  request,   \* each submission on its way through the API
  idempotencyKey,  \* the IdempotencyKey row: the body that won, or NoBody
  order,     \* Order.status, "NONE" without an order
  paid,      \* has the customer's payment succeeded at Stripe?
  outcome,   \* the poller's outcome
  poll,      \* where the poller is, and the answer on its way to it
  stored,    \* is the order in sessionStorage?
  budget     \* edits, submissions, polls and losses so far

formVars == <<form, offered, points, loading, timers, lookups, failed>>
sendVars == <<waiting, request, idempotencyKey>>
pollVars == <<outcome, poll>>
vars == <<formVars, phase, sendVars, order, paid, pollVars, stored, budget>>

Submissions == 1..MaxSubmits
Points == Methods \X Places
Bodies == [method : Methods \cup {NoMethod}, point : Points \cup {NoPoint},
           place : Places \cup {NoPlace}]
ASSUME NothingIsFresh == NoPlace \notin Places /\ NoBody \notin Bodies
Kinds == {"methods", "points"}
PointsAt(m, p) == IF m \in PickupMethods /\ p \in Places THEN {<<m, p>>} ELSE {}

Count(what) == [budget EXCEPT ![what] = @ + 1]
MayLose == budget.losses < MaxLosses

\* The effects a postal code starts, also the one of the default address that
\* is in the form from the beginning.
EffectsOf(p) == {"points"} \cup (IF p \in Places THEN {"methods"} ELSE {})

Init ==
  /\ offered = MethodsAt[NoPlace]
  /\ \E m \in IF offered = {} THEN {NoMethod} ELSE offered, p \in Places \cup {NoPlace} :
       /\ form = [method |-> m, point |-> NoPoint, place |-> p]
       /\ timers = EffectsOf(p)
  /\ points = {}
  /\ loading = FALSE
  /\ lookups = {}
  /\ failed = {}
  /\ phase = "form"
  /\ waiting = 0
  /\ request = [i \in Submissions |-> [at |-> "none", body |-> NoBody, reply |-> "none", overlaps |-> FALSE]]
  /\ idempotencyKey = NoBody
  /\ order = "NONE"
  /\ paid = FALSE
  /\ outcome = "polling"
  /\ poll = [at |-> "idle", status |-> "none"]
  /\ stored = FALSE
  /\ budget = [edits |-> 0, submits |-> 0, polls |-> 0, losses |-> 0]

-----------------------------------------------------------------------------
(* The form                                                                *)

Required(m) == m \in PickupMethods
InForm == phase = "form"

\* Bug: the cleanup clears the timer only.
CancelNothing(kinds) == lookups

\* The cleanup of an effect that runs again: its timer is cleared and the
\* answer to what it has asked is ignored.
Cancelled(kinds) == {l \in lookups : l.kind \notin kinds}

\* A new postal code, typed or taken from a saved address, runs both effects
\* again; the one for methods waits for a complete postal code.
EnterPlace(p) ==
  /\ InForm /\ budget.edits < MaxEdits /\ p # form.place
  /\ form' = [form EXCEPT !.place = p]
  /\ lookups' = Cancelled(Kinds)
  /\ timers' = EffectsOf(p)
  /\ budget' = Count("edits")
  /\ UNCHANGED <<offered, points, loading, failed, phase, sendVars, order, paid, pollVars, stored>>

\* Another method runs the effect for pickup points again.
ChooseMethod(m) ==
  /\ InForm /\ budget.edits < MaxEdits /\ m \in offered \ {form.method}
  /\ form' = [form EXCEPT !.method = m]
  /\ lookups' = Cancelled({"points"})
  /\ timers' = timers \cup {"points"}
  /\ budget' = Count("edits")
  /\ UNCHANGED <<offered, points, loading, failed, phase, sendVars, order, paid, pollVars, stored>>

\* The list is shown for a method that needs a point, and not while loading.
ChoosePoint(x) ==
  /\ InForm /\ budget.edits < MaxEdits
  /\ Required(form.method) /\ ~loading /\ x \in points \ {form.point}
  /\ form' = [form EXCEPT !.point = x]
  /\ budget' = Count("edits")
  /\ UNCHANGED <<offered, points, loading, timers, lookups, failed, phase, sendVars, order, paid, pollVars, stored>>

AskMethods ==
  /\ InForm /\ "methods" \in timers
  /\ timers' = timers \ {"methods"}
  /\ lookups' = lookups \cup {[kind |-> "methods", method |-> NoMethod, place |-> form.place]}
  /\ UNCHANGED <<form, offered, points, loading, failed, phase, sendVars, order, paid, pollVars, stored, budget>>

\* The timer of the effect for pickup points, when there is nothing to ask.
ClearPoints ==
  /\ InForm /\ "points" \in timers
  /\ ~(Required(form.method) /\ form.place \in Places)
  /\ timers' = timers \ {"points"}
  /\ points' = {}
  /\ UNCHANGED <<form, offered, loading, lookups, failed, phase, sendVars, order, paid, pollVars, stored, budget>>

AskPoints ==
  /\ InForm /\ "points" \in timers
  /\ Required(form.method) /\ form.place \in Places
  /\ timers' = timers \ {"points"}
  /\ loading' = TRUE
  /\ form' = [form EXCEPT !.point = NoPoint]
  /\ lookups' = lookups \cup {[kind |-> "points", method |-> form.method, place |-> form.place]}
  /\ UNCHANGED <<offered, points, failed, phase, sendVars, order, paid, pollVars, stored, budget>>

\* A method that is no longer offered gives way to the first of the list.
SelectionAfter(list) ==
  IF form.method \in list THEN {form}
  ELSE {[form EXCEPT !.method = m, !.point = NoPoint] :
          m \in IF list = {} THEN {NoMethod} ELSE list}

\* The list replaces the one shown; another selection runs the effect for
\* pickup points again.
AnswerMethods(l) ==
  /\ InForm /\ l \in lookups /\ l.kind = "methods"
  /\ offered' = MethodsAt[l.place]
  /\ \E f \in SelectionAfter(MethodsAt[l.place]) :
       /\ form' = f
       /\ IF f.method = form.method
            THEN lookups' = lookups \ {l} /\ UNCHANGED timers
            ELSE /\ lookups' = Cancelled({"points"}) \ {l}
                 /\ timers' = timers \cup {"points"}
  /\ failed' = failed \ {"methods"}
  /\ UNCHANGED <<points, loading, phase, sendVars, order, paid, pollVars, stored, budget>>

\* An error of the API counts as an empty list.
AnswerPoints(l) ==
  /\ InForm /\ l \in lookups /\ l.kind = "points"
  /\ points' \in {PointsAt(l.method, l.place), {}}
  /\ loading' = FALSE
  /\ lookups' = lookups \ {l}
  /\ failed' = failed \ {"points"}
  /\ UNCHANGED <<form, offered, timers, phase, sendVars, order, paid, pollVars, stored, budget>>

\* An error leaves the methods as they are. A rejected fetch skips the callback of .then and runs the one of .finally:
\* the list on the screen stays the one for the method and place before.
LoseLookup(l) ==
  /\ InForm /\ MayLose /\ l \in lookups
  /\ lookups' = lookups \ {l}
  /\ failed' = failed \cup {l.kind}
  /\ loading' = (loading /\ l.kind # "points")
  /\ budget' = Count("losses")
  /\ UNCHANGED <<form, offered, points, timers, phase, sendVars, order, paid, pollVars, stored>>

-----------------------------------------------------------------------------
(* Submitting it, and CheckoutService.initiate                             *)

\* The button is disabled while a submission is under way and while the
\* method shown needs a pickup point that has not been chosen.
CanSubmit ==
  /\ waiting = 0 /\ offered # {}
  /\ Required(form.method) => form.point # NoPoint

InHand(j) == request[j].at \in {"sent", "checked"}

Submit(i) ==
  /\ InForm /\ CanSubmit /\ request[i].at = "none" /\ i = budget.submits + 1
  /\ waiting' = i
  /\ request' = [request EXCEPT ![i] = [at |-> "sent", body |-> form, reply |-> "none",
                                        overlaps |-> \E j \in Submissions : InHand(j)]]
  /\ budget' = Count("submits")
  /\ UNCHANGED <<formVars, phase, idempotencyKey, order, paid, pollVars, stored>>

Reply(i, what) == request' = [request EXCEPT ![i].at = "replied", ![i].reply = what]

\* Bug: the stored request hash is not compared.
ReplayAny(b) == "order"

\* The same body gets the answer of the first, another one a conflict.
ReplayOrConflict(b) == IF idempotencyKey = b THEN "order" ELSE "error"

CheckKey(i) ==
  /\ request[i].at = "sent"
  /\ IF idempotencyKey = NoBody
       THEN request' = [request EXCEPT ![i].at = "checked"]
       ELSE Reply(i, ReplayOrConflict(request[i].body))
  /\ UNCHANGED <<formVars, phase, waiting, idempotencyKey, order, paid, pollVars, stored, budget>>

Deliverable(b) ==
  /\ b.method \in MethodsAt[b.place]
  /\ IF Required(b.method) THEN b.point \in PointsAt(b.method, b.place) ELSE b.point = NoPoint

\* The transaction: the order, the emptied cart and the key commit together.
PlaceOrder(i) ==
  /\ request[i].at = "checked" /\ idempotencyKey = NoBody
  /\ Deliverable(request[i].body)
  /\ idempotencyKey' = request[i].body
  /\ order' = "PENDING_PAYMENT"
  /\ Reply(i, "order")
  /\ UNCHANGED <<formVars, phase, waiting, paid, pollVars, stored, budget>>

\* The API's guards may refuse any submission, a replay too. The transaction
\* refuses a body the provider does not deliver, and may refuse any other:
\* stock, prices and the cart are outside this module.
RefuseOrder(i) ==
  /\ request[i].at = "sent" \/ (request[i].at = "checked" /\ idempotencyKey = NoBody)
  /\ Reply(i, "error")
  /\ UNCHANGED <<formVars, phase, waiting, idempotencyKey, order, paid, pollVars, stored, budget>>

\* Another submission has committed since the key was checked: the cart is
\* empty, or, if it was read before, the key's unique constraint is violated
\* and the winner's snapshot is the answer, whatever this body says.
LoseKeyRace(i) ==
  /\ request[i].at = "checked" /\ idempotencyKey # NoBody
  /\ \E what \in {"order", "error"} : Reply(i, what)
  /\ UNCHANGED <<formVars, phase, waiting, idempotencyKey, order, paid, pollVars, stored, budget>>

\* CheckoutForm is unmounted: its state, its timers and its lookups are gone.
LeaveForm ==
  /\ form' = [method |-> NoMethod, point |-> NoPoint, place |-> NoPlace]
  /\ offered' = {} /\ points' = {} /\ timers' = {} /\ lookups' = {} /\ failed' = {}
  /\ loading' = FALSE

\* The order is kept for a redirect, if the browser lets the page.
SaveCheckoutOrder == stored' \in BOOLEAN

\* The form's answer. The order is saved, and the page goes on to the payment, or straight to polling when
\* no payment processor is configured.
AcceptAnswer(i) ==
  /\ InForm /\ waiting = i /\ request[i].at = "replied" /\ request[i].reply = "order"
  /\ waiting' = 0
  /\ request' = [request EXCEPT ![i].at = "over"]
  /\ SaveCheckoutOrder
  /\ LeaveForm
  /\ \E next \in {"payment", "polling"} :
       /\ phase' = next
       /\ poll' = [poll EXCEPT !.at = IF next = "polling" THEN "due" ELSE "idle"]
  /\ UNCHANGED <<idempotencyKey, order, paid, outcome, budget>>

\* A message, and the form as it was, under the key it had.
RefusedAnswer(i) ==
  /\ InForm /\ waiting = i /\ request[i].at = "replied" /\ request[i].reply = "error"
  /\ waiting' = 0
  /\ request' = [request EXCEPT ![i].at = "over"]
  /\ UNCHANGED <<formVars, phase, idempotencyKey, order, paid, pollVars, stored, budget>>

\* The fetch is rejected; the API may have answered, or may do so later.
LoseAnswer(i) ==
  /\ InForm /\ waiting = i /\ MayLose
  /\ waiting' = 0
  /\ budget' = Count("losses")
  /\ UNCHANGED <<formVars, phase, request, idempotencyKey, order, paid, pollVars, stored>>

-----------------------------------------------------------------------------
(* Paying and polling                                                      *)

StartPolling == poll' = [at |-> "due", status |-> "none"]

\* confirmPayment resolves without an error, with the money taken or about to
\* be; an error leaves the form where it is and is no step here.
ConfirmInline ==
  /\ phase = "payment"
  /\ phase' = "polling"
  /\ paid' \in {paid, TRUE}
  /\ StartPolling
  /\ UNCHANGED <<formVars, sendVars, order, outcome, stored, budget>>

\* Stripe takes the whole tab and comes back to /checkout/complete, which has
\* only what sessionStorage kept; the challenge may have failed.
ComeBack ==
  /\ phase = "payment"
  /\ paid' \in {paid, TRUE}
  /\ IF stored THEN phase' = "polling" /\ StartPolling
               ELSE phase' = "unknown" /\ UNCHANGED poll
  /\ UNCHANGED <<formVars, sendVars, order, outcome, stored, budget>>

\* Bug: the poller has no end of its own.
NeverTimedOut == FALSE

TimedOut == budget.polls = MaxPolls

GiveUp ==
  /\ phase = "polling" /\ poll.at = "due" /\ TimedOut
  /\ outcome' = "timeout"
  /\ poll' = [poll EXCEPT !.at = "over"]
  /\ UNCHANGED <<formVars, phase, sendVars, order, paid, stored, budget>>

Polled == [budget EXCEPT !.polls = IF @ < MaxPolls THEN @ + 1 ELSE @]

\* The API reads the status; its answer reaches the page later. It refuses a
\* caller that asks too often, and the page then sees no data.
AskStatus ==
  /\ phase = "polling" /\ poll.at = "due" /\ ~TimedOut
  /\ \E seen \in {order, "refused"} : poll' = [at |-> "answered", status |-> seen]
  /\ budget' = Polled
  /\ UNCHANGED <<formVars, phase, sendVars, order, paid, outcome, stored>>

\* Bug: what is not pending any more counts as confirmed.
OutcomeUnlessPending(status) ==
  IF status \in {"PENDING_PAYMENT", "refused"} THEN "polling" ELSE "confirmed"

OutcomeOf(status) ==
  CASE status = "CONFIRMED" -> "confirmed"
    [] status = "PAYMENT_SUCCEEDED_STOCK_LOST" -> "stockLost"
    [] status = "CANCELED" -> "canceled"
    [] OTHER -> "polling"

ReadStatus ==
  /\ phase = "polling" /\ poll.at = "answered"
  /\ outcome' = OutcomeOf(poll.status)
  /\ poll' = [at |-> IF outcome' = "polling" THEN "due" ELSE "over", status |-> "none"]
  /\ UNCHANGED <<formVars, phase, sendVars, order, paid, stored, budget>>

\* Nothing catches a rejected poll: it was the last one.
LosePoll ==
  /\ phase = "polling" /\ poll.at = "answered" /\ MayLose
  /\ poll' = [at |-> "broken", status |-> "none"]
  /\ budget' = Count("losses")
  /\ UNCHANGED <<formVars, phase, sendVars, order, paid, outcome, stored>>

-----------------------------------------------------------------------------
(* The order at the other end, as OrderStock and RefundFlow move it        *)

OrderMoves(from, to) ==
  /\ order \in from
  /\ order' = to
  /\ UNCHANGED <<formVars, phase, sendVars, paid, pollVars, stored, budget>>

Cancel == OrderMoves({"PENDING_PAYMENT"}, "CANCELED")
ConfirmPaid == paid /\ \E to \in {"CONFIRMED", "IN_PRODUCTION"} : OrderMoves({"PENDING_PAYMENT"}, to)
FlagStockLost == paid /\ OrderMoves({"PENDING_PAYMENT", "CANCELED"}, "PAYMENT_SUCCEEDED_STOCK_LOST")
Fulfil == OrderMoves({"CONFIRMED", "IN_PRODUCTION"}, "READY_TO_SHIP")
Refund == OrderMoves({"CONFIRMED", "IN_PRODUCTION", "READY_TO_SHIP", "PAYMENT_SUCCEEDED_STOCK_LOST"},
                     "REFUNDED")

-----------------------------------------------------------------------------
Edit ==
  \/ \E p \in Places \cup {NoPlace} : EnterPlace(p)
  \/ \E m \in Methods : ChooseMethod(m)
  \/ \E x \in Points : ChoosePoint(x)

Lookup ==
  \/ AskMethods \/ ClearPoints \/ AskPoints
  \/ \E l \in lookups : AnswerMethods(l) \/ AnswerPoints(l)

Checkout(i) ==
  \/ CheckKey(i) \/ PlaceOrder(i) \/ RefuseOrder(i) \/ LoseKeyRace(i)
  \/ AcceptAnswer(i) \/ RefusedAnswer(i)

Polling == AskStatus \/ ReadStatus \/ GiveUp

Lose == (\E l \in lookups : LoseLookup(l)) \/ (\E i \in Submissions : LoseAnswer(i)) \/ LosePoll

Next ==
  \/ Edit \/ Lookup \/ Lose
  \/ \E i \in Submissions : Submit(i) \/ Checkout(i)
  \/ ConfirmInline \/ ComeBack \/ Polling
  \/ Cancel \/ ConfirmPaid \/ FlagStockLost \/ Fulfil \/ Refund

Spec == Init /\ [][Next]_vars

\* The browser fires the poller's timers and the API answers what it has been
\* asked; nobody has to submit, to pay or to move the order on.
FairSpec == Spec /\ WF_vars(Polling) /\ \A i \in Submissions : WF_vars(Checkout(i))

-----------------------------------------------------------------------------
(* Properties                                                              *)

Requests == [at : {"none", "sent", "checked", "replied", "over"}, body : {NoBody} \cup Bodies,
             reply : {"none", "order", "error"}, overlaps : BOOLEAN]
LookupRecords == [kind : Kinds, method : Methods \cup {NoMethod}, place : Places]
Statuses == {"NONE", "PENDING_PAYMENT", "CONFIRMED", "IN_PRODUCTION", "CANCELED",
             "PAYMENT_SUCCEEDED_STOCK_LOST", "READY_TO_SHIP", "REFUNDED"}
Polls == [at : {"idle", "due", "answered", "over", "broken"}, status : Statuses \cup {"none", "refused"}]
Budgets == [edits : 0..MaxEdits, submits : 0..MaxSubmits, polls : 0..MaxPolls, losses : 0..MaxLosses]

TypeOK ==
  /\ form \in Bodies
  /\ offered \subseteq Methods /\ points \subseteq Points
  /\ loading \in BOOLEAN /\ paid \in BOOLEAN /\ stored \in BOOLEAN
  /\ timers \subseteq Kinds /\ failed \subseteq Kinds
  /\ lookups \subseteq LookupRecords
  /\ phase \in {"form", "payment", "polling", "unknown"}
  /\ waiting \in 0..MaxSubmits
  /\ request \in [Submissions -> Requests]
  /\ idempotencyKey \in {NoBody} \cup Bodies
  /\ order \in Statuses
  /\ outcome \in {"polling", "confirmed", "stockLost", "canceled", "timeout"}
  /\ poll \in Polls
  /\ budget \in Budgets

\* Whatever order the answers arrive in, the selected method is one the form
\* shows, so the radio group is never without its selection.
SelectionIsShown ==
  IF offered = {} THEN form.method = NoMethod ELSE form.method \in offered

Settled(kind) == kind \notin timers \cup failed /\ \A l \in lookups : l.kind # kind

\* When the lookups have come to rest, and unless the network lost one, the
\* form shows what the provider offers for the postal code that is in it, and
\* a chosen pickup point is one of the method's at that place.
SettledFormIsRight ==
  form.place \in Places =>
    /\ Settled("methods") => offered = MethodsAt[form.place]
    /\ Settled("points") /\ Required(form.method) =>
         points \cup ({form.point} \ {NoPoint}) \subseteq PointsAt(form.method, form.place)

\* The order the customer pays for is the one the form last described: a retry
\* is not answered with an order for another address. Only a submission that
\* came while the API was still working on an earlier one may be.
PaysForWhatWasSent ==
  phase # "form" =>
    /\ order # "NONE"
    /\ idempotencyKey = request[budget.submits].body \/ request[budget.submits].overlaps

\* The page says that an order is confirmed, lost its stock or is canceled only
\* of an order that was: what it says of a payment is never the browser's view.
OutcomeIsTrue ==
  /\ outcome = "confirmed" => paid /\ order \in {"CONFIRMED", "READY_TO_SHIP", "REFUNDED"}
  /\ outcome = "stockLost" => paid /\ order \in {"PAYMENT_SUCCEEDED_STOCK_LOST", "REFUNDED"}
  /\ outcome = "canceled" => order \in {"CANCELED", "PAYMENT_SUCCEEDED_STOCK_LOST", "REFUNDED"}

\* The page does not spin for ever: a submission is answered or given up, and
\* the poller ends, unless the network took one of its answers.
NothingSpins ==
  /\ waiting # 0 ~> waiting = 0
  /\ phase = "polling" ~> poll.at \in {"over", "broken"}

\* What this leaves when no fairness is assumed: whatever the page is seen to
\* wait for is on its way. The submission is in the API's hands or answered, the
\* poller has a timer or an answer, and the pickup points that are shown as
\* loading have been asked for, or will be when their timer fires.
SpinsForSomething ==
  /\ waiting # 0 =>
       /\ InForm /\ request[waiting].at \in {"sent", "checked", "replied"}
       /\ request[waiting].at = "replied" => request[waiting].reply # "none"
  /\ phase = "polling" => poll.at # "idle"
  /\ loading /\ Required(form.method) /\ form.place \in Places =>
       "points" \in timers \/ \E l \in lookups : l.kind = "points"

\* A stale selection from a previous method or address is never submitted, at
\* least once the effect for pickup points has run for a complete postal code.
\* A comment of the form says so; the code breaks it (see the README).
StalePointNeverSent ==
  [][waiting' > waiting /\ Settled("points") /\ form.place \in Places =>
       form.point \in {NoPoint} \cup PointsAt(form.method, form.place)]_vars
=============================================================================
