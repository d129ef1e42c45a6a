----------------------------- MODULE OrderStock -----------------------------
(***************************************************************************)
(* Orders, stock reservations and payments between checkout and            *)
(* confirmation: CheckoutService, ReservationExpiryService (swept by every *)
(* API instance and by the admin endpoint), PaymentsWebhookService and     *)
(* InventoryService.adjustStock, over one Postgres database, with Stripe   *)
(* as the environment that charges customers and delivers events.          *)
(*                                                                         *)
(* A database transaction whose decision is protected by a row lock or by  *)
(* a guarded update is one action; what the code reads or writes outside   *)
(* that transaction (the sweep's snapshot, the claim of a webhook event,   *)
(* the e-mail after the commit) is an action of its own, and a process may *)
(* die between any two of them.                                            *)
(***************************************************************************)
EXTENDS Integers, FiniteSets

CONSTANTS
  Orders,          \* identities of the orders checkout may create
  Items,           \* InventoryItems with tracksStock = true
  Sweepers,        \* sweeps that may be running at the same time
  MaxQty,          \* bound on the quantity of a cart line
  InitialOnHand,   \* InventoryItem.onHand before the first order
  Deltas,          \* stock adjustments an admin may enter
  MaxAdjust,       \* bound on the sum of adjustments of an item
  EventKinds,      \* the kinds of event Stripe sends about an order's intent, each at most once
  HandlersMayFail  \* may a webhook handler die after claiming its event?

Outcomes == {"succeeded", "failed", "canceled", "paymentMethodRecorded", "irrelevant"}

ASSUME MaxQtyAssumption == MaxQty \in Nat \ {0}
ASSUME OrdersAssumption == IsFiniteSet(Orders)
ASSUME InitialOnHandAssumption == InitialOnHand \in [Items -> Nat]
ASSUME DeltasAssumption == Deltas \subseteq Int /\ MaxAdjust \in Nat
ASSUME EventKindsAssumption == EventKinds \in [Orders -> SUBSET Outcomes]
ASSUME HandlersMayFailAssumption == HandlersMayFail \in BOOLEAN

VARIABLES
  order,        \* Order.status, or "NONE" before checkout creates the order
  line,         \* quantity of each tracked item on the order
  madeToOrder,  \* has the order a line with OrderItem.madeToOrder?
  overdue,      \* has CHECKOUT_RESERVATION_TTL_MINUTES passed since checkout?
  resv,         \* StockReservation.status of each line, "NONE" without a row
  payment,      \* Payment.status
  method,       \* has Payment.method been recorded?
  onHand,       \* InventoryItem.onHand
  reserved,     \* InventoryItem.reserved
  sold,         \* units in the InventoryMovement rows of type SALE
  adjusted,     \* sum of the movements of type RESTOCK and ADJUSTMENT
  intent,       \* the PaymentIntent at Stripe
  webhook,      \* each Stripe event on its way through the handler
  mailDue,      \* orders a live handler is about to send a confirmation for
  mailCalls,    \* calls of sendOrderConfirmation per order
  pc,           \* where each sweep is
  batch,        \* expired reservations the sweep has read
  stale         \* orders past the sweep's cutoff, then the ones it will cancel

orderVars == <<order, line, madeToOrder, resv, payment, method>>
stockVars == <<onHand, reserved, sold, adjusted>>
mailVars  == <<mailDue, mailCalls>>
sweepVars == <<pc, batch, stale>>
vars == <<orderVars, stockVars, mailVars, sweepVars, overdue, intent, webhook>>

OrderStatus == {"PENDING_PAYMENT", "CONFIRMED", "IN_PRODUCTION",
                "PAYMENT_SUCCEEDED_STOCK_LOST", "CANCELED"}
PaymentStatus == {"PENDING", "PAID", "FAILED", "CANCELED"}
ReservationStatus == {"PENDING", "CONSUMED", "EXPIRED"}
Events == {e \in Orders \X Outcomes : e[2] \in EventKinds[e[1]]}

\* "orphaned": claimed, its handler died, Stripe has no answer yet;
\* "lost": Stripe's retry was answered 200 and nothing was processed.
WebhookStates == {"unsent", "sent", "claimed", "orphaned", "lost", "processed"}

TypeOK ==
  /\ order \in [Orders -> OrderStatus \cup {"NONE"}]
  /\ line \in [Orders -> [Items -> 0..MaxQty]]
  /\ madeToOrder \in [Orders -> BOOLEAN]
  /\ overdue \in [Orders -> BOOLEAN]
  /\ resv \in [Orders -> [Items -> ReservationStatus \cup {"NONE"}]]
  /\ payment \in [Orders -> PaymentStatus \cup {"NONE"}]
  /\ method \in [Orders -> BOOLEAN]
  /\ onHand \in [Items -> Int]
  /\ reserved \in [Items -> Int]
  /\ sold \in [Items -> Int]
  /\ adjusted \in [Items -> Int]
  /\ intent \in [Orders -> {"none", "open", "succeeded", "canceled"}]
  /\ webhook \in [Events -> WebhookStates]
  /\ mailDue \in SUBSET Orders
  /\ mailCalls \in [Orders -> Nat]
  /\ pc \in [Sweepers -> {"idle", "release", "stale"}]
  /\ batch \in [Sweepers -> SUBSET (Orders \X Items)]
  /\ stale \in [Sweepers -> SUBSET Orders]

Init ==
  /\ order = [o \in Orders |-> "NONE"]
  /\ line = [o \in Orders |-> [i \in Items |-> 0]]
  /\ madeToOrder = [o \in Orders |-> FALSE]
  /\ overdue = [o \in Orders |-> FALSE]
  /\ resv = [o \in Orders |-> [i \in Items |-> "NONE"]]
  /\ payment = [o \in Orders |-> "NONE"]
  /\ method = [o \in Orders |-> FALSE]
  /\ onHand = InitialOnHand
  /\ reserved = [i \in Items |-> 0]
  /\ sold = [i \in Items |-> 0]
  /\ adjusted = [i \in Items |-> 0]
  /\ intent = [o \in Orders |-> "none"]
  /\ webhook = [e \in Events |-> "unsent"]
  /\ mailDue = {}
  /\ mailCalls = [o \in Orders |-> 0]
  /\ pc = [s \in Sweepers |-> "idle"]
  /\ batch = [s \in Sweepers |-> {}]
  /\ stale = [s \in Sweepers |-> {}]

-----------------------------------------------------------------------------
(* Checkout                                                                *)

\* Bug: a check of onHand alone forgets what other orders hold.
AvailableOnHand(lines) == \A i \in Items : lines[i] > 0 => onHand[i] >= lines[i]

\* The rows are locked when availability is read, so nothing moves between
\* the check and the increments.
Available(lines) == \A i \in Items : lines[i] > 0 => onHand[i] - reserved[i] >= lines[i]

Checkout(o, lines, mto) ==
  /\ order[o] = "NONE"
  /\ mto \/ \E i \in Items : lines[i] > 0
  /\ Available(lines)
  /\ order' = [order EXCEPT ![o] = "PENDING_PAYMENT"]
  /\ line' = [line EXCEPT ![o] = lines]
  /\ madeToOrder' = [madeToOrder EXCEPT ![o] = mto]
  /\ resv' = [resv EXCEPT ![o] =
                [i \in Items |-> IF lines[i] > 0 THEN "PENDING" ELSE "NONE"]]
  /\ reserved' = [i \in Items |-> reserved[i] + lines[i]]
  /\ payment' = [payment EXCEPT ![o] = "PENDING"]
  /\ intent' = [intent EXCEPT ![o] = "open"]
  /\ UNCHANGED <<overdue, method, onHand, sold, adjusted, webhook, mailVars, sweepVars>>

\* The reservation's expiresAt, or createdAt + TTL, is now in the past.
Lapse(o) ==
  /\ order[o] # "NONE"
  /\ ~overdue[o]
  /\ overdue' = [overdue EXCEPT ![o] = TRUE]
  /\ UNCHANGED <<orderVars, stockVars, mailVars, sweepVars, intent, webhook>>

-----------------------------------------------------------------------------
(* Releasing reservations, shared by the sweep and the failed webhook      *)

\* Bug: the claim's row count is ignored, every line counts as released here.
ReservedItems(o) == {i \in Items : resv[o][i] # "NONE"}

PendingItems(o) == {i \in Items : resv[o][i] = "PENDING"}

\* Bug: reservations are left to the TTL when the order is canceled.
KeepReservations(o, S) == UNCHANGED <<resv, reserved>>

Release(o, S) ==
  /\ resv' = [resv EXCEPT ![o] = [i \in Items |-> IF i \in S THEN "EXPIRED" ELSE resv[o][i]]]
  /\ reserved' = [i \in Items |-> IF i \in S THEN reserved[i] - line[o][i] ELSE reserved[i]]

\* Bug: the status guard of the update is dropped.
CancelAnyway(S) ==
  order' = [o \in Orders |-> IF o \in S /\ order[o] # "NONE" THEN "CANCELED" ELSE order[o]]

CancelIfPending(S) ==
  order' = [o \in Orders |->
              IF o \in S /\ order[o] = "PENDING_PAYMENT" THEN "CANCELED" ELSE order[o]]

-----------------------------------------------------------------------------
(* The reservation-expiry sweep                                            *)

\* findMany of the expired reservations, outside any transaction. The sweep's
\* "now" fixes which orders are overdue for both of its branches.
StartSweep(s) ==
  /\ pc[s] = "idle"
  /\ pc' = [pc EXCEPT ![s] = "release"]
  /\ batch' = [batch EXCEPT ![s] =
                 {r \in Orders \X Items : resv[r[1]][r[2]] = "PENDING" /\ overdue[r[1]]}]
  /\ stale' = [stale EXCEPT ![s] = {o \in Orders : overdue[o]}]
  /\ UNCHANGED <<orderVars, stockVars, mailVars, overdue, intent, webhook>>

\* One order's transaction: claim each reservation that is still PENDING,
\* then cancel the order if it still awaits payment.
SweepOrder(s, o) ==
  LET mine == {r \in batch[s] : r[1] = o}
  IN /\ pc[s] = "release"
     /\ mine # {}
     /\ Release(o, {i \in PendingItems(o) : <<o, i>> \in mine})
     /\ CancelIfPending({o})
     /\ batch' = [batch EXCEPT ![s] = @ \ mine]
     /\ UNCHANGED <<line, madeToOrder, payment, method, onHand, sold, adjusted,
                    mailVars, pc, stale, overdue, intent, webhook>>

\* Bug: no second branch, orders without reservations are never looked for.
FindNothing(s) ==
  /\ pc[s] = "release"
  /\ batch[s] = {}
  /\ pc' = [pc EXCEPT ![s] = "stale"]
  /\ stale' = [stale EXCEPT ![s] = {}]
  /\ UNCHANGED <<orderVars, stockVars, mailVars, batch, overdue, intent, webhook>>

\* findMany of overdue orders none of whose lines has a reservation.
FindStale(s) ==
  /\ pc[s] = "release"
  /\ batch[s] = {}
  /\ pc' = [pc EXCEPT ![s] = "stale"]
  /\ stale' = [stale EXCEPT ![s] =
                 {o \in stale[s] : /\ order[o] = "PENDING_PAYMENT"
                                   /\ \A i \in Items : resv[o][i] = "NONE"}]
  /\ UNCHANGED <<orderVars, stockVars, mailVars, batch, overdue, intent, webhook>>

CancelStale(s) ==
  /\ pc[s] = "stale"
  /\ CancelIfPending(stale[s])
  /\ pc' = [pc EXCEPT ![s] = "idle"]
  /\ stale' = [stale EXCEPT ![s] = {}]
  /\ UNCHANGED <<line, madeToOrder, resv, payment, method, stockVars, mailVars,
                 batch, overdue, intent, webhook>>

\* An exception ends the tick (sweep() catches it), or the instance dies.
SweepFails(s) ==
  /\ pc[s] # "idle"
  /\ pc' = [pc EXCEPT ![s] = "idle"]
  /\ batch' = [batch EXCEPT ![s] = {}]
  /\ stale' = [stale EXCEPT ![s] = {}]
  /\ UNCHANGED <<orderVars, stockVars, mailVars, overdue, intent, webhook>>

-----------------------------------------------------------------------------
(* Stripe: charging the customer and sending events                        *)

Sent(S) == [e \in Events |-> IF e \in S /\ webhook[e] = "unsent" THEN "sent" ELSE webhook[e]]

\* A confirmation succeeds, possibly after declined ones and after the TTL.
Charge(o) ==
  /\ intent[o] = "open"
  /\ intent' = [intent EXCEPT ![o] = "succeeded"]
  /\ webhook' = Sent({<<o, "succeeded">>, <<o, "paymentMethodRecorded">>})
  /\ UNCHANGED <<orderVars, stockVars, mailVars, sweepVars, overdue>>

\* A declined confirmation: the intent stays open and the payment form stays
\* on screen with the same client secret.
Decline(o) ==
  /\ intent[o] = "open"
  /\ Sent({<<o, "failed">>}) # webhook
  /\ webhook' = Sent({<<o, "failed">>})
  /\ UNCHANGED <<orderVars, stockVars, mailVars, sweepVars, overdue, intent>>

CancelIntent(o) ==
  /\ intent[o] = "open"
  /\ intent' = [intent EXCEPT ![o] = "canceled"]
  /\ webhook' = Sent({<<o, "canceled">>})
  /\ UNCHANGED <<orderVars, stockVars, mailVars, sweepVars, overdue>>

\* Any other event type about the intent (processing, requires_action, ...).
OtherEvent(o) ==
  /\ intent[o] # "none"
  /\ Sent({<<o, "irrelevant">>}) # webhook
  /\ webhook' = Sent({<<o, "irrelevant">>})
  /\ UNCHANGED <<orderVars, stockVars, mailVars, sweepVars, overdue, intent>>

-----------------------------------------------------------------------------
(* PaymentsWebhookService.handle                                           *)

\* The WebhookEvent row is committed on its own, before any processing. The
\* primary key lets one delivery of an event through; the others return.
Claim(e) ==
  /\ webhook[e] = "sent"
  /\ webhook' = [webhook EXCEPT ![e] = "claimed"]
  /\ UNCHANGED <<orderVars, stockVars, mailVars, sweepVars, overdue, intent>>

Processed(e) == webhook' = [webhook EXCEPT ![e] = "processed"]

\* handleSucceeded for a PENDING payment, all reservations still PENDING.
ConfirmOrder(o) ==
  LET mine == PendingItems(o)
      confirmed == order[o] = "PENDING_PAYMENT"
  IN /\ payment[o] = "PENDING"
     /\ \A i \in Items : resv[o][i] \in {"NONE", "PENDING"}
     /\ payment' = [payment EXCEPT ![o] = "PAID"]
     /\ resv' = [resv EXCEPT ![o] = [i \in Items |-> IF i \in mine THEN "CONSUMED" ELSE "NONE"]]
     /\ onHand' = [i \in Items |-> IF i \in mine THEN onHand[i] - line[o][i] ELSE onHand[i]]
     /\ reserved' = [i \in Items |-> IF i \in mine THEN reserved[i] - line[o][i] ELSE reserved[i]]
     /\ sold' = [i \in Items |-> IF i \in mine THEN sold[i] + line[o][i] ELSE sold[i]]
     /\ order' = IF confirmed
                 THEN [order EXCEPT ![o] = IF madeToOrder[o] THEN "IN_PRODUCTION" ELSE "CONFIRMED"]
                 ELSE order
     /\ mailDue' = IF confirmed THEN mailDue \cup {o} ELSE mailDue
     /\ UNCHANGED <<line, madeToOrder, method, adjusted, mailCalls>>

\* Bug: the sweep's CANCELED is not accepted as a predecessor.
FlagOnlyPending(o) ==
  /\ payment[o] = "PENDING"
  /\ \E i \in Items : resv[o][i] \notin {"NONE", "PENDING"}
  /\ payment' = [payment EXCEPT ![o] = "PAID"]
  /\ order' = IF order[o] = "PENDING_PAYMENT"
              THEN [order EXCEPT ![o] = "PAYMENT_SUCCEEDED_STOCK_LOST"]
              ELSE order
  /\ UNCHANGED <<line, madeToOrder, resv, method, stockVars, mailVars>>

\* handleSucceeded for a PENDING payment, a reservation already gone.
FlagStockLost(o) ==
  /\ payment[o] = "PENDING"
  /\ \E i \in Items : resv[o][i] \notin {"NONE", "PENDING"}
  /\ payment' = [payment EXCEPT ![o] = "PAID"]
  /\ order' = IF order[o] \in {"PENDING_PAYMENT", "CANCELED"}
              THEN [order EXCEPT ![o] = "PAYMENT_SUCCEEDED_STOCK_LOST"]
              ELSE order
  /\ UNCHANGED <<line, madeToOrder, resv, method, stockVars, mailVars>>

\* handleFailedOrCanceled for a PENDING payment.
FailPayment(o, status) ==
  /\ payment[o] = "PENDING"
  /\ payment' = [payment EXCEPT ![o] = status]
  /\ Release(o, PendingItems(o))
  /\ CancelIfPending({o})
  /\ UNCHANGED <<line, madeToOrder, method, onHand, sold, adjusted, mailVars>>

\* Bug: the order is reported as confirmed although the guard missed.
SettledButNotified(o) ==
  /\ payment[o] # "PENDING"
  /\ mailDue' = mailDue \cup {o}
  /\ UNCHANGED <<orderVars, stockVars, mailCalls>>

\* Every guarded update misses: nothing but processedAt is written.
AlreadySettled(o) ==
  /\ payment[o] # "PENDING"
  /\ UNCHANGED <<orderVars, stockVars, mailVars>>

RecordPaymentMethod(o) ==
  /\ method' = [method EXCEPT ![o] = TRUE]
  /\ UNCHANGED <<order, line, madeToOrder, resv, payment, stockVars, mailVars>>

\* The processing transaction of the handler that claimed e.
Process(e) ==
  LET o == e[1]
  IN /\ webhook[e] = "claimed"
     /\ \/ e[2] = "succeeded" /\ (ConfirmOrder(o) \/ FlagStockLost(o) \/ AlreadySettled(o))
        \/ e[2] = "failed" /\ (FailPayment(o, "FAILED") \/ AlreadySettled(o))
        \/ e[2] = "canceled" /\ (FailPayment(o, "CANCELED") \/ AlreadySettled(o))
        \/ e[2] = "paymentMethodRecorded" /\ RecordPaymentMethod(o)
        \/ e[2] = "irrelevant" /\ UNCHANGED <<orderVars, stockVars, mailVars>>
     /\ Processed(e)
     /\ UNCHANGED <<sweepVars, overdue, intent>>

\* The handler dies, or its transaction is rolled back, after the claim.
HandlerFails(e) ==
  /\ HandlersMayFail
  /\ webhook[e] = "claimed"
  /\ webhook' = [webhook EXCEPT ![e] = "orphaned"]
  /\ UNCHANGED <<orderVars, stockVars, mailVars, sweepVars, overdue, intent>>

\* Stripe delivers again, the row exists, handle returns and the controller
\* answers 200: Stripe will not come back.
Redeliver(e) ==
  /\ webhook[e] = "orphaned"
  /\ webhook' = [webhook EXCEPT ![e] = "lost"]
  /\ UNCHANGED <<orderVars, stockVars, mailVars, sweepVars, overdue, intent>>

\* After the commit; a process that dies first never sends it.
SendConfirmation(o) ==
  /\ o \in mailDue
  /\ mailDue' = mailDue \ {o}
  /\ mailCalls' = [mailCalls EXCEPT ![o] = @ + 1]
  /\ UNCHANGED <<orderVars, stockVars, sweepVars, overdue, intent, webhook>>

DieBeforeMail(o) ==
  /\ HandlersMayFail
  /\ o \in mailDue
  /\ mailDue' = mailDue \ {o}
  /\ UNCHANGED <<orderVars, stockVars, mailCalls, sweepVars, overdue, intent, webhook>>

-----------------------------------------------------------------------------
(* InventoryService.adjustStock                                            *)

AdjustStock(i, d) ==
  /\ d < 0 => onHand[i] >= -d
  /\ adjusted[i] + d \in -MaxAdjust..MaxAdjust
  /\ onHand' = [onHand EXCEPT ![i] = @ + d]
  /\ adjusted' = [adjusted EXCEPT ![i] = @ + d]
  /\ UNCHANGED <<orderVars, reserved, sold, mailVars, sweepVars, overdue, intent, webhook>>

-----------------------------------------------------------------------------
SweepNext(s) ==
  \/ StartSweep(s) \/ FindStale(s) \/ CancelStale(s) \/ SweepFails(s)
  \/ \E o \in Orders : SweepOrder(s, o)

StripeNext(o) == Charge(o) \/ Decline(o) \/ CancelIntent(o) \/ OtherEvent(o)

WebhookNext(e) == Claim(e) \/ Process(e) \/ HandlerFails(e) \/ Redeliver(e)

Next ==
  \/ \E o \in Orders, lines \in [Items -> 0..MaxQty], mto \in BOOLEAN : Checkout(o, lines, mto)
  \/ \E o \in Orders : Lapse(o) \/ StripeNext(o) \/ SendConfirmation(o) \/ DieBeforeMail(o)
  \/ \E s \in Sweepers : SweepNext(s)
  \/ \E e \in Events : WebhookNext(e)
  \/ \E i \in Items, d \in Deltas : AdjustStock(i, d)

Spec == Init /\ [][Next]_vars

\* The interval keeps firing, and a sweep that keeps reaching an order's
\* transaction, or the stale branch, does not fail there for ever. Time passes,
\* a delivery is taken up and a live handler finishes. Nothing is assumed of
\* customers, admins, crashes or Stripe's retries.
Fairness ==
  /\ \A o \in Orders : WF_vars(Lapse(o))
  /\ \A s \in Sweepers : /\ WF_vars(StartSweep(s))
                         /\ SF_vars(FindStale(s))
                         /\ SF_vars(CancelStale(s))
                         /\ \A o \in Orders : SF_vars(SweepOrder(s, o))
  /\ \A e \in Events : WF_vars(Claim(e) \/ Process(e))

FairSpec == Spec /\ Fairness
-----------------------------------------------------------------------------
(* Properties                                                              *)

HasTrackedLine(o) == \E i \in Items : line[o][i] > 0
Confirmed(o) == order[o] \in {"CONFIRMED", "IN_PRODUCTION"}
Settled(o) == Confirmed(o) \/ order[o] = "PAYMENT_SUCCEEDED_STOCK_LOST"

\* The units of an item on the orders in S, one pair each, when q gives
\* the quantity on every order.
Units(S, q) == {u \in S \X (1..MaxQty) : u[2] <= q[u[1]]}
Quantity(i) == [o \in Orders |-> line[o][i]]

HoldingOrders(i) == {o \in Orders : resv[o][i] = "PENDING"}
ConfirmedOrders == {o \in Orders : Confirmed(o)}

\* InventoryItem.reserved is maintained by increments in four transactions
\* that race; it always equals the units of the PENDING reservation rows, so
\* no release is applied twice and none is forgotten.
ReservedMatchesPending == \A i \in Items : 
  reserved[i] = Cardinality(Units(HoldingOrders(i), Quantity(i)))

\* Stock leaves the shelf, and a SALE movement is written, exactly once for
\* each unit of each confirmed order, and for no other order; onHand can be
\* reconstructed from the movement log.
StockMatchesSales ==
  \A i \in Items : /\ sold[i] = Cardinality(Units(ConfirmedOrders, Quantity(i)))
                   /\ onHand[i] = InitialOnHand[i] + adjusted[i] - sold[i]

\* What is promised to unpaid orders is on the shelf: checkout never
\* oversells (as long as no admin takes reserved stock away).
NoOversell == \A i \in Items : 0 <= reserved[i] /\ reserved[i] <= onHand[i]

\* The lines of an order move together and with its status: no partial
\* consumption, and no reservation left behind by an order that is settled.
ReservationsFollowOrder ==
  \A o \in Orders : \A i \in Items :
    /\ (resv[o][i] = "NONE") = (line[o][i] = 0)
    /\ line[o][i] > 0 =>
         resv[o][i] = CASE order[o] = "PENDING_PAYMENT" -> "PENDING"
                        [] Confirmed(o) -> "CONSUMED"
                        [] OTHER -> "EXPIRED"

\* An order is beyond PENDING_PAYMENT and CANCELED exactly when its payment
\* is PAID and Stripe has the money, whichever of sweep and webhook won.
\* Stated for orders that hold stock.
MoneyAndOrderAgree ==
  \A o \in Orders : HasTrackedLine(o) =>
    /\ Settled(o) <=> payment[o] = "PAID"
    /\ payment[o] = "PAID" => intent[o] = "succeeded"

\* The same without the restriction: a PAID payment never sits under a
\* CANCELED order. docs/PAYMENTS.md says so; the code breaks it.
PaidOrderNeverCanceled == \A o \in Orders : payment[o] = "PAID" => order[o] # "CANCELED"

\* What docs/PAYMENTS.md 4a promises a customer who retries a card: a charge
\* that has been reported does not leave the order CANCELED. The code breaks it
\* in the case ChargedIsSettled exempts, also for orders that hold stock: see
\* the README.
ReportedChargeIsSeen ==
  \A o \in Orders : <<o, "succeeded">> \in Events =>
    (webhook[<<o, "succeeded">>] = "processed" => order[o] # "CANCELED")

\* An event Stripe has been told was received has been processed. The code
\* breaks this when a handler dies: see the README.
NoEventLost == \A e \in Events : webhook[e] # "lost"

\* sendOrderConfirmation runs at most once per order, for confirmed orders
\* only, whatever is redelivered, reordered or raced.
ConfirmationMailOnce ==
  \A o \in Orders : /\ mailCalls[o] + (IF o \in mailDue THEN 1 ELSE 0) <= 1
                    /\ mailCalls[o] = 1 \/ o \in mailDue => Confirmed(o)

\* Order.status moves along the documented edges only; in particular nothing
\* leaves CONFIRMED, IN_PRODUCTION or PAYMENT_SUCCEEDED_STOCK_LOST here.
OrderEdges ==
  {<<"NONE", "PENDING_PAYMENT">>,
   <<"PENDING_PAYMENT", "CONFIRMED">>, <<"PENDING_PAYMENT", "IN_PRODUCTION">>,
   <<"PENDING_PAYMENT", "CANCELED">>,
   <<"PENDING_PAYMENT", "PAYMENT_SUCCEEDED_STOCK_LOST">>,
   <<"CANCELED", "PAYMENT_SUCCEEDED_STOCK_LOST">>}
OrderMovesAlongEdges ==
  [][\A o \in Orders : order'[o] # order[o] => <<order[o], order'[o]>> \in OrderEdges]_vars

\* An order nobody pays does not hold its stock, or its place in the queue,
\* for ever: the sweep reaches it, with or without reservations.
AbandonedIsReleased ==
  \A o \in Orders : order[o] = "PENDING_PAYMENT" ~> order[o] # "PENDING_PAYMENT"

\* A customer whose card was charged ends with a confirmed order or with one
\* an admin is alerted to, if no handler dies. One case is exempt because the
\* code does not keep it: handleFailedOrCanceled had already closed the payment
\* for a declined attempt on the same intent, and handleSucceeded's guard on
\* PENDING turns the report of the charge into a no-op.
ClosedByDecline(o) == payment[o] = "FAILED" /\ order[o] = "CANCELED"
ChargedIsSettled ==
  \A o \in Orders :
    (intent[o] = "succeeded" /\ HasTrackedLine(o)) ~> (Settled(o) \/ ClosedByDecline(o))

\* What these two leave when no fairness is assumed, in every build: a charge
\* that is not settled is one whose event is still on its way, unless a handler
\* died with it or an earlier, declined attempt had settled the payment ...
Somewhere(o, kind, states) == \E e \in Events : e = <<o, kind>> /\ webhook[e] \in states
ChargeAccountedFor ==
  \A o \in Orders : intent[o] = "succeeded" /\ HasTrackedLine(o) =>
    \/ Settled(o) \/ Somewhere(o, "succeeded", {"sent", "claimed"})
    \/ Somewhere(o, "succeeded", {"orphaned", "lost"}) \/ Somewhere(o, "failed", {"processed"})

\* ... and a sweep that gets to its second branch has canceled, or is about to
\* cancel, every order that was overdue when it began and is still unpaid.
NoneIsPassedOver ==
  [][\A s \in Sweepers : FindStale(s) =>
       \A o \in stale[s] : order[o] = "PENDING_PAYMENT" => o \in stale'[s]]_vars

\* What makes the invariants above inductive: an order that checkout has not
\* created has left no trace; a sweep's snapshot holds all lines of an order
\* or none; the orders the stale branch cancels hold no stock; and Stripe
\* reports a success only after charging.
NothingBeforeCheckout ==
  \A o \in Orders : order[o] = "NONE" =>
    payment[o] = "NONE" /\ intent[o] = "none" /\ \A i \in Items : line[o][i] = 0
BatchIsWhole ==
  \A s \in Sweepers : \A r \in batch[s] :
    /\ line[r[1]][r[2]] > 0
    /\ \A i \in Items : line[r[1]][i] > 0 => <<r[1], i>> \in batch[s]
StaleIsUntracked ==
  \A s \in Sweepers : pc[s] = "stale" =>
    \A o \in stale[s] : order[o] # "NONE" /\ \A i \in Items : line[o][i] = 0
ReportedIsCharged ==
  \A e \in Events : e[2] = "succeeded" /\ webhook[e] # "unsent" => intent[e[1]] = "succeeded"

OrdersInv ==
  /\ NothingBeforeCheckout
  /\ ReservationsFollowOrder
  /\ MoneyAndOrderAgree
  /\ BatchIsWhole
  /\ StaleIsUntracked
  /\ ReportedIsCharged

\* The shop keeps the promise of StockPromise: free units are those on hand
\* and not reserved, and an order's phase is read off its status.
PhaseOf(o) ==
  CASE order[o] = "NONE" -> "none"
    [] order[o] = "PENDING_PAYMENT" -> "holding"
    [] Confirmed(o) -> "sold"
    [] order[o] = "CANCELED" -> "freed"
    [] OTHER -> "owed"

Promise == INSTANCE StockPromise WITH
  InitialFree <- InitialOnHand,
  free <- [i \in Items |-> onHand[i] - reserved[i]],
  counted <- adjusted,
  held <- line,
  phase <- [o \in Orders |-> PhaseOf(o)]

KeepsPromise == Promise!Spec
=============================================================================
