----------------------------- MODULE RefundFlow -----------------------------
(***************************************************************************)
(* Refunds and fulfilment of one paid order: AdminOrdersService.           *)
(* issueRefund, markReadyToShip, markShipped and markDelivered.            *)
(*                                                                         *)
(* A refund cannot be one transaction, because Stripe is called outside    *)
(* any lock. Each call of issueRefund is a process: every transaction and  *)
(* every write of its own is a step, other calls run between them, and a   *)
(* call may die anywhere. Orders share nothing here (the Payment row, its  *)
(* refunds and the idempotency keys carry the order's id), so one order    *)
(* stands for all of them.                                                 *)
(***************************************************************************)
EXTENDS Integers, FiniteSets

CONSTANTS
  Calls,          \* calls of issueRefund that may be running at the same time
  Keys,           \* values of the Idempotency-Key header
  Refunds,        \* identities of the Refund rows that may be created (a bound)
  Amounts,        \* amounts an admin may enter
  Captured,       \* Payment.amountMinor
  Ordered,        \* units on the order's lines that are not made to order
  Answers,        \* what Stripe may decide: subset of {"succeeded", "failed", "pending"}
  StripeMayThrow, \* may the provider call throw, before or after Stripe acted?
  CallsMayDie,    \* may a call die between two of its steps?
  KeysMayExpire,  \* may REFUND_IDEMPOTENCY_TTL_HOURS pass?
  NoCall, NoRefund, NoKey \* absent values

ASSUME CapturedAssumption == Captured \in Nat \ {0}
ASSUME AmountsAssumption == Amounts \subseteq Nat \ {0}
ASSUME OrderedAssumption == Ordered \in Nat
ASSUME RefundsAssumption == IsFiniteSet(Refunds)
ASSUME AnswersAssumption == Answers \subseteq {"succeeded", "failed", "pending"}
ASSUME AbsentAssumption == NoCall \notin Calls /\ NoRefund \notin Refunds /\ NoKey \notin Keys
ASSUME SwitchesAssumption == {StripeMayThrow, CallsMayDie, KeysMayExpire} \subseteq BOOLEAN

VARIABLES
  payment,   \* Payment.status
  order,     \* Order.status
  returned,  \* units of the order in movements of type RETURN
  shipments, \* number of Shipment rows
  delivered, \* is the latest Shipment DELIVERED?
  notices,   \* calls of sendShippingNotification
  taken,     \* units of the order the confirmation took off the shelf (history)
  status,    \* Refund.status, "NONE" without a row
  amount,    \* Refund.amountMinor
  owner,     \* the idempotency key a refund was reserved under
  audited,   \* is there an AuditLog row for the refund?
  row,       \* the IdempotencyKey rows
  stripe,    \* what Stripe has stored under the idempotency key of a refund
  lock,      \* the call that holds the Payment row, or NoCall
  pc,        \* the next step of each call
  req,       \* the request of each call: key and amount
  todo,      \* refunds a call is still to reconcile
  cur,       \* the refund a call works on
  seen       \* what applyRefundEffects has read under the lock

orderVars  == <<payment, order, returned>>
shipVars   == <<shipments, delivered, notices, taken>>
refundVars == <<status, amount, owner, audited>>
callVars   == <<lock, pc, req, todo, cur, seen>>
vars == <<orderVars, shipVars, refundVars, row, stripe, callVars>>

NoRow == [phase |-> "none", refund |-> NoRefund, amount |-> 0, live |-> FALSE]

PaymentStatus == {"PAID", "PARTIALLY_REFUNDED", "REFUNDED"}
OrderStatus == {"CONFIRMED", "IN_PRODUCTION", "PAYMENT_SUCCEEDED_STOCK_LOST", "READY_TO_SHIP",
                "SHIPPED", "DELIVERED", "PARTIALLY_REFUNDED", "REFUNDED"}
RefundStatus == {"PENDING", "SUCCEEDED", "FAILED"}
Steps == {"idle", "reconcile", "reconcileWrite", "lookup", "reclaim", "reserve", "resolve",
          "continue", "call", "succeeded", "failed", "unkey", "pending", "apply",
          "applyWrite", "finalize"}
Rows == [phase : {"none", "pending", "final"}, refund : Refunds \cup {NoRefund},
         amount : Amounts \cup {0}, live : BOOLEAN]

LocalsOK ==
  /\ pc \in [Calls -> Steps]
  /\ req \in [Calls -> [key : Keys \cup {NoKey}, amount : Amounts \cup {0}]]
  /\ todo \in [Calls -> SUBSET Refunds]
  /\ cur \in [Calls -> Refunds \cup {NoRefund}]
  /\ seen \in [Calls -> [full : BOOLEAN, shipped : BOOLEAN]]

TypeOK ==
  /\ LocalsOK
  /\ payment \in PaymentStatus
  /\ order \in OrderStatus
  /\ returned \in Nat
  /\ shipments \in Nat /\ delivered \in BOOLEAN
  /\ notices \in Nat
  /\ taken \in {0, Ordered}
  /\ status \in [Refunds -> RefundStatus \cup {"NONE"}]
  /\ amount \in [Refunds -> Amounts \cup {0}]
  /\ owner \in [Refunds -> Keys \cup {NoKey}]
  /\ audited \in SUBSET Refunds
  /\ row \in [Keys -> Rows]
  /\ stripe \in [Refunds -> Answers \cup {"none"}]
  /\ lock \in Calls \cup {NoCall}

\* The states the Stripe webhook leaves a paid order with stock in. The branch
\* that flags the stock as lost takes nothing off the shelf.
Init ==
  /\ payment = "PAID"
  /\ order \in {"CONFIRMED", "IN_PRODUCTION", "PAYMENT_SUCCEEDED_STOCK_LOST"}
  /\ returned = 0
  /\ shipments = 0 /\ delivered = FALSE
  /\ notices = 0
  /\ taken = IF order = "PAYMENT_SUCCEEDED_STOCK_LOST" THEN 0 ELSE Ordered
  /\ status = [r \in Refunds |-> "NONE"]
  /\ amount = [r \in Refunds |-> 0]
  /\ owner = [r \in Refunds |-> NoKey]
  /\ audited = {}
  /\ row = [k \in Keys |-> NoRow]
  /\ stripe = [r \in Refunds |-> "none"]
  /\ lock = NoCall
  /\ pc = [c \in Calls |-> "idle"]
  /\ req = [c \in Calls |-> [key |-> NoKey, amount |-> 0]]
  /\ todo = [c \in Calls |-> {}]
  /\ cur = [c \in Calls |-> NoRefund]
  /\ seen = [c \in Calls |-> [full |-> FALSE, shipped |-> FALSE]]

-----------------------------------------------------------------------------
(* Amounts                                                                 *)

WithStatus(S) == {r \in Refunds : status[r] \in S}

\* The sum of the amounts of the refunds in R, as a number of minor units.
Minor(R) == Cardinality({u \in R \X (1..Captured) : u[2] <= amount[u[1]]})

\* Bug: what is in flight at Stripe is not counted as reserved.
RemainingAfterSuccess == Captured - Minor(WithStatus({"SUCCEEDED"}))

Remaining == Captured - Minor(WithStatus({"PENDING", "SUCCEEDED"}))

FullyRefunded == Minor(WithStatus({"SUCCEEDED"})) >= Captured

Eligible(s) == s \in {"PAID", "PARTIALLY_REFUNDED"}
ShippedStatus(s) == s \in {"SHIPPED", "DELIVERED"}

-----------------------------------------------------------------------------
(* issueRefund: reconcile, look the key up, reserve                        *)

Goto(c, step) == pc' = [pc EXCEPT ![c] = step]

\* The call returns or throws; its locals are gone.
Return(c) ==
  /\ pc' = [pc EXCEPT ![c] = "idle"]
  /\ req' = [req EXCEPT ![c] = [key |-> NoKey, amount |-> 0]]
  /\ todo' = [todo EXCEPT ![c] = {}]
  /\ cur' = [cur EXCEPT ![c] = NoRefund]
  /\ seen' = [seen EXCEPT ![c] = [full |-> FALSE, shipped |-> FALSE]]

Begin(c, k, a) ==
  /\ pc[c] = "idle"
  /\ Eligible(payment)
  /\ Goto(c, "reconcile")
  /\ req' = [req EXCEPT ![c] = [key |-> k, amount |-> a]]
  /\ todo' = [todo EXCEPT ![c] = WithStatus({"SUCCEEDED"})]
  /\ UNCHANGED <<orderVars, shipVars, refundVars, row, stripe, lock, cur, seen>>

\* reconcileOutstandingRefunds has no refund left to look at.
Reconciled(c) ==
  /\ pc[c] = "reconcile"
  /\ todo[c] = {}
  /\ Goto(c, "lookup")
  /\ UNCHANGED <<orderVars, shipVars, refundVars, row, stripe, lock, req, todo, cur, seen>>

\* A live row of the same request is replayed or resumed; with another
\* request it is a conflict.
UseRow(c) ==
  LET found == row[req[c].key]
  IN IF found.amount = req[c].amount /\ found.phase = "pending"
     THEN /\ Goto(c, "continue")
          /\ cur' = [cur EXCEPT ![c] = found.refund]
          /\ UNCHANGED <<req, todo, seen>>
     ELSE Return(c)

\* checkRefundIdempotency before the reservation.
Lookup(c) ==
  LET found == row[req[c].key]
  IN /\ pc[c] = "lookup"
     /\ \/ found = NoRow /\ Goto(c, "reserve") /\ UNCHANGED <<req, todo, cur, seen>>
        \/ found # NoRow /\ ~found.live /\ Goto(c, "reclaim") /\ UNCHANGED <<req, todo, cur, seen>>
        \/ found.live /\ UseRow(c)
     /\ UNCHANGED <<orderVars, shipVars, refundVars, row, stripe, lock>>

\* The expired row is deleted by its key, whatever the key holds by now.
Reclaim(c) ==
  /\ pc[c] = "reclaim"
  /\ row' = [row EXCEPT ![req[c].key] = NoRow]
  /\ Goto(c, "reserve")
  /\ UNCHANGED <<orderVars, shipVars, refundVars, stripe, lock, req, todo, cur, seen>>

\* Txn A, under the Payment row's lock: the refund and its key in one commit.
Reserve(c, r) ==
  LET k == req[c].key
  IN /\ pc[c] = "reserve"
     /\ lock = NoCall
     /\ req[c].amount <= Remaining
     /\ row[k] = NoRow
     /\ status[r] = "NONE"
     /\ status' = [status EXCEPT ![r] = "PENDING"]
     /\ amount' = [amount EXCEPT ![r] = req[c].amount]
     /\ owner' = [owner EXCEPT ![r] = k]
     /\ row' = [row EXCEPT ![k] =
                  [phase |-> "pending", refund |-> r, amount |-> req[c].amount, live |-> TRUE]]
     /\ cur' = [cur EXCEPT ![c] = r]
     /\ Goto(c, "continue")
     /\ UNCHANGED <<orderVars, shipVars, audited, stripe, lock, req, todo, seen>>

\* RefundExceedsRemaining, or the key's row appeared since it was looked up.
CannotReserve(c) ==
  /\ pc[c] = "reserve"
  /\ lock = NoCall
  /\ \/ req[c].amount > Remaining /\ Return(c)
     \/ /\ req[c].amount <= Remaining
        /\ row[req[c].key] # NoRow
        /\ Goto(c, "resolve")
        /\ UNCHANGED <<req, todo, cur, seen>>
  /\ UNCHANGED <<orderVars, shipVars, refundVars, row, stripe, lock>>

\* checkRefundIdempotency after losing the race for the key; an expired row
\* is deleted, and without a winner the constraint error is rethrown.
Resolve(c) ==
  LET k == req[c].key
  IN /\ pc[c] = "resolve"
     /\ IF row[k].live THEN UseRow(c) ELSE Return(c)
     /\ row' = IF row[k].live THEN row ELSE [row EXCEPT ![k] = NoRow]
     /\ UNCHANGED <<orderVars, shipVars, refundVars, stripe, lock>>

-----------------------------------------------------------------------------
(* continueRefund                                                          *)

Continue(c) ==
  /\ pc[c] = "continue"
  /\ \/ status[cur[c]] = "SUCCEEDED" /\ Goto(c, "apply") /\ UNCHANGED <<req, todo, cur, seen>>
     \/ status[cur[c]] = "FAILED" /\ Return(c)
     \/ status[cur[c]] = "PENDING" /\ Goto(c, "call") /\ UNCHANGED <<req, todo, cur, seen>>
  /\ UNCHANGED <<orderVars, shipVars, refundVars, row, stripe, lock>>

\* Stripe repeats the stored answer of a request it has seen, refuses what the
\* charge no longer covers, and otherwise decides.
AtStripe == {r \in Refunds : stripe[r] \in {"succeeded", "pending"}}
StripeRefuses(r) == stripe[r] = "none" /\ Minor(AtStripe \cup {r}) > Captured
StripeDecides(r, answer) == ~StripeRefuses(r) /\ stripe[r] \in {"none", answer}

CallStripe(c, answer) ==
  /\ pc[c] = "call"
  /\ StripeDecides(cur[c], answer)
  /\ stripe' = [stripe EXCEPT ![cur[c]] = answer]
  /\ Goto(c, answer)
  /\ UNCHANGED <<orderVars, shipVars, refundVars, row, lock, req, todo, cur, seen>>

\* The provider call throws: the request was refused or never arrived, or
\* Stripe acted on it and the answer was lost.
StripeThrows(c) ==
  /\ pc[c] = "call"
  /\ StripeMayThrow \/ StripeRefuses(cur[c])
  /\ Goto(c, "failed")
  /\ \/ UNCHANGED stripe
     \/ \E answer \in Answers : /\ StripeDecides(cur[c], answer)
                                /\ stripe' = [stripe EXCEPT ![cur[c]] = answer]
  /\ UNCHANGED <<orderVars, shipVars, refundVars, row, lock, req, todo, cur, seen>>

\* The guarded update of the refund's status, in either direction.
SettleRefund(r, s) ==
  status' = IF status[r] = "PENDING" THEN [status EXCEPT ![r] = s] ELSE status

\* Bug: the durable proof is written, the effects are not.
RecordSuccessOnly(c) ==
  /\ pc[c] = "succeeded"
  /\ SettleRefund(cur[c], "SUCCEEDED")
  /\ Goto(c, "finalize")
  /\ UNCHANGED <<orderVars, shipVars, amount, owner, audited, row, stripe, lock, req, todo, cur, seen>>

RecordSuccess(c) ==
  /\ pc[c] = "succeeded"
  /\ SettleRefund(cur[c], "SUCCEEDED")
  /\ Goto(c, "apply")
  /\ UNCHANGED <<orderVars, shipVars, amount, owner, audited, row, stripe, lock, req, todo, cur, seen>>

RecordFailure(c) ==
  /\ pc[c] = "failed"
  /\ SettleRefund(cur[c], "FAILED")
  /\ Goto(c, "unkey")
  /\ UNCHANGED <<orderVars, shipVars, amount, owner, audited, row, stripe, lock, req, todo, cur, seen>>

\* The key's row is deleted, whichever refund it names by now.
Unkey(c) ==
  /\ pc[c] = "unkey"
  /\ row' = [row EXCEPT ![req[c].key] = NoRow]
  /\ Return(c)
  /\ UNCHANGED <<orderVars, shipVars, refundVars, stripe, lock>>

\* Stripe has not decided: the refund stays PENDING under its pending key.
RecordPending(c) ==
  /\ pc[c] = "pending"
  /\ Return(c)
  /\ UNCHANGED <<orderVars, shipVars, refundVars, row, stripe, lock>>

\* The snapshot becomes final; without a row the update throws.
Finalize(c) ==
  LET k == req[c].key
  IN /\ pc[c] = "finalize"
     /\ row' = IF row[k] = NoRow THEN row
               ELSE [row EXCEPT ![k].phase = "final", ![k].refund = cur[c]]
     /\ Return(c)
     /\ UNCHANGED <<orderVars, shipVars, refundVars, stripe, lock>>

-----------------------------------------------------------------------------
(* applyRefundEffects, for the call's own refund or a reconciled one       *)

\* Bug: whole or partial is decided by this refund's own amount.
ReadOwnAmount(c, r) ==
  /\ lock = NoCall
  /\ r \notin audited
  /\ lock' = c
  /\ seen' = [seen EXCEPT ![c] = [full |-> amount[r] >= Captured, shipped |-> ShippedStatus(order)]]

\* The transaction's reads, under the Payment row's lock. Order.status is read
\* without a lock of its own.
ReadForEffects(c, r) ==
  /\ lock = NoCall
  /\ r \notin audited
  /\ lock' = c
  /\ seen' = [seen EXCEPT ![c] = [full |-> FullyRefunded, shipped |-> ShippedStatus(order)]]

ReconcileRead(c, r) ==
  /\ pc[c] = "reconcile"
  /\ r \in todo[c]
  /\ todo' = [todo EXCEPT ![c] = @ \ {r}]
  /\ \/ ReadForEffects(c, r) /\ Goto(c, "reconcileWrite") /\ cur' = [cur EXCEPT ![c] = r]
     \/ lock = NoCall /\ r \in audited /\ UNCHANGED <<lock, seen, pc, cur>>
  /\ UNCHANGED <<orderVars, shipVars, refundVars, row, stripe, req>>

ApplyRead(c) ==
  /\ pc[c] = "apply"
  /\ \/ ReadForEffects(c, cur[c]) /\ Goto(c, "applyWrite")
     \/ lock = NoCall /\ cur[c] \in audited /\ Goto(c, "finalize") /\ UNCHANGED <<lock, seen>>
  /\ UNCHANGED <<orderVars, shipVars, refundVars, row, stripe, req, todo, cur>>

\* Bug: the restock is gated on the full refund alone.
RestockWhenFull(c) == seen[c].full

\* The guarded update of the order changed a row, and it was a full refund of
\* an order that had not shipped when it was read.
Restocks(c) == seen[c].full /\ ~seen[c].shipped /\ order # "REFUNDED"

\* The transaction's writes and its commit.
WriteEffects(c) ==
  LET new == IF seen[c].full THEN "REFUNDED" ELSE "PARTIALLY_REFUNDED"
  IN /\ payment' = IF Eligible(payment) THEN new ELSE payment
     /\ order' = IF order # "REFUNDED" THEN new ELSE order
     /\ returned' = IF Restocks(c) THEN returned + Ordered ELSE returned
     /\ audited' = audited \cup {cur[c]}
     /\ lock' = NoCall
     /\ UNCHANGED <<shipVars, status, amount, owner, row, stripe, req, todo, seen>>

ReconcileWrite(c) ==
  /\ pc[c] = "reconcileWrite"
  /\ WriteEffects(c)
  /\ Goto(c, "reconcile")
  /\ cur' = [cur EXCEPT ![c] = NoRefund]

ApplyWrite(c) ==
  /\ pc[c] = "applyWrite"
  /\ WriteEffects(c)
  /\ Goto(c, "finalize")
  /\ UNCHANGED cur

\* The call dies between two steps; an open transaction is rolled back.
Die(c) ==
  /\ CallsMayDie
  /\ pc[c] # "idle"
  /\ Return(c)
  /\ lock' = IF lock = c THEN NoCall ELSE lock
  /\ UNCHANGED <<orderVars, shipVars, refundVars, row, stripe>>

ExpireKey(k) ==
  /\ KeysMayExpire
  /\ row[k].live
  /\ row' = [row EXCEPT ![k].live = FALSE]
  /\ UNCHANGED <<orderVars, shipVars, refundVars, stripe, callVars>>

-----------------------------------------------------------------------------
(* Fulfilment                                                              *)

MarkReadyToShip ==
  /\ order \in {"CONFIRMED", "IN_PRODUCTION"}
  /\ order' = "READY_TO_SHIP"
  /\ UNCHANGED <<payment, returned, shipVars, refundVars, row, stripe, callVars>>

\* The guarded transaction of markShipped. The carrier has been called before
\* it; the e-mail goes out after the commit, unless the process dies.
ShipFrom(from) ==
  /\ order \in from
  /\ order' = "SHIPPED"
  /\ shipments' = shipments + 1
  /\ delivered' = FALSE
  /\ notices' \in {notices + 1} \cup (IF CallsMayDie THEN {notices} ELSE {})
  /\ UNCHANGED <<payment, returned, taken, refundVars, row, stripe, callVars>>

\* Bug: a delivered order may be reported as shipped again.
ShipAgain == shipments < 2 /\ ShipFrom({"READY_TO_SHIP", "DELIVERED"})

MarkShipped == ShipFrom({"READY_TO_SHIP"})

MarkDelivered ==
  /\ order = "SHIPPED"
  /\ order' = "DELIVERED"
  /\ delivered' = TRUE
  /\ UNCHANGED <<payment, returned, shipments, notices, taken, refundVars, row, stripe,
                 callVars>>

-----------------------------------------------------------------------------
ReconcileNext(c) == Reconciled(c) \/ ReconcileWrite(c) \/ \E r \in Refunds : ReconcileRead(c, r)

ReserveNext(c) ==
  \/ Lookup(c) \/ Reclaim(c) \/ CannotReserve(c) \/ Resolve(c)
  \/ \E r \in Refunds : Reserve(c, r)

ContinueNext(c) ==
  \/ Continue(c) \/ StripeThrows(c) \/ \E answer \in Answers : CallStripe(c, answer)
  \/ RecordSuccess(c) \/ RecordFailure(c) \/ Unkey(c) \/ RecordPending(c)
  \/ ApplyRead(c) \/ ApplyWrite(c) \/ Finalize(c)

CallNext(c) == ReconcileNext(c) \/ ReserveNext(c) \/ ContinueNext(c)

Fulfil == MarkReadyToShip \/ MarkShipped \/ MarkDelivered

Next ==
  \/ \E c \in Calls, k \in Keys, a \in Amounts : Begin(c, k, a)
  \/ \E c \in Calls : CallNext(c) \/ Die(c)
  \/ \E k \in Keys : ExpireKey(k)
  \/ Fulfil

Spec == Init /\ [][Next]_vars

\* A call that does not die runs to its end: Postgres grants a row lock to
\* every waiter in the end. No admin has to ask for a refund or to ship.
FairSpec == Spec /\ \A c \in Calls : SF_vars(CallNext(c))
-----------------------------------------------------------------------------
(* Properties                                                              *)

\* Two requests racing for one payment never reserve more than was captured:
\* what is refunded and what may still be at Stripe fits the payment.
NeverOverRefunded == Minor(WithStatus({"PENDING", "SUCCEEDED"})) <= Captured

\* The RETURN movements of an order are written at most once, for a refund of
\* the whole payment only, and the order then is REFUNDED: also when two partial
\* refunds that add up to the whole are applied by calls that both see the full
\* sum. It does not say that the units had left: see OnlySoldComesBack.
RestockedOnce ==
  /\ returned \in {0, Ordered}
  /\ returned > 0 => order = "REFUNDED" /\ FullyRefunded

\* Payment and order tell the same story, they say REFUNDED only when all the
\* money went back, and they do say so once every successful refund has been
\* applied, in whatever order the effects were written.
StatusesConverge ==
  /\ payment = "REFUNDED" <=> order = "REFUNDED"
  /\ payment = "PARTIALLY_REFUNDED" <=> order = "PARTIALLY_REFUNDED"
  /\ payment = "PAID" <=> audited = {}
  /\ payment = "REFUNDED" => FullyRefunded
  /\ FullyRefunded /\ WithStatus({"SUCCEEDED"}) \subseteq audited => payment = "REFUNDED"

\* A refund that ended as SUCCEEDED or FAILED keeps that status, however many
\* calls resume it with answers that arrive late; a full refund is final.
OutcomesAreFinal ==
  [][/\ \A r \in Refunds : status[r] \in {"SUCCEEDED", "FAILED"} => status'[r] = status[r]
     /\ order = "REFUNDED" => order' = "REFUNDED" /\ UNCHANGED <<payment, shipments, returned>>]_vars

\* An order has one shipment at most, and one e-mail about it.
ShippedOnce ==
  /\ shipments <= 1 /\ notices <= shipments
  /\ order \in {"SHIPPED", "DELIVERED"} => shipments = 1
  /\ order \in {"CONFIRMED", "IN_PRODUCTION", "READY_TO_SHIP"} => shipments = 0

\* What Stripe confirmed reaches the order, the payment and the audit log, if
\* no call dies.
SuccessIsApplied == \A r \in Refunds : status[r] = "SUCCEEDED" ~> r \in audited

\* The same, as far as no fairness is needed: a refund Stripe confirmed whose
\* effects are not written yet is one that a running call is about to write.
SuccessIsPursued ==
  \A r \in Refunds : status[r] = "SUCCEEDED" /\ r \notin audited =>
    \E c \in Calls : cur[c] = r /\ pc[c] \in {"apply", "applyWrite"}

\* Calls that race, resume each other, read stale sums and die do together what
\* RefundPromise does in single steps; it cannot tell Order.status, so a part of
\* what it says of goods is that markShipped never follows a booked refund.
Promise == INSTANCE RefundPromise WITH
  outcome <- status, left <- Remaining, given <- Minor(WithStatus({"SUCCEEDED"})), booked <- audited,
  standing <- payment, parcels <- shipments, letters <- notices

GivesBackAsPromised == Promise!Spec

\* No more units come back than the confirmation took off the shelf. The code
\* breaks this when an order flagged PAYMENT_SUCCEEDED_STOCK_LOST is refunded
\* as a whole: it counts as not shipped and is restocked like the others.
OnlySoldComesBack == returned <= taken

\* A shipped order is never restocked. The code breaks this, and the two
\* promises of the docs that follow: see the README.
ShippedNeverRestocked == returned > 0 => shipments = 0

\* Money that Stripe has given back is not recorded as a refund that failed.
StripeSuccessRecorded == \A r \in Refunds : stripe[r] = "succeeded" => status[r] # "FAILED"

\* Within the key's lifetime the same key and body never reserve a second
\* refund beside one that is not FAILED.
SameKeySameRefund ==
  \A r, q \in Refunds : r # q /\ {r, q} \subseteq WithStatus({"PENDING", "SUCCEEDED"})
                          => owner[r] # owner[q]

\* What makes the invariants inductive. A call past the reservation works on
\* a refund that exists, one that writes effects on a refund that is settled,
\* and holds the lock exactly then; what it read under the lock may be stale
\* only if some other successful refund is still to be applied.
Settled == WithStatus({"SUCCEEDED", "FAILED"})
Writing == {"reconcileWrite", "applyWrite"}

CallsInv ==
  /\ \A c \in Calls :
       /\ pc[c] # "idle" => req[c].key \in Keys /\ req[c].amount \in Amounts
       /\ pc[c] \in {"continue", "call", "succeeded", "failed", "unkey", "pending"}
            => cur[c] \in WithStatus(RefundStatus)
       /\ pc[c] \in Writing \cup {"apply", "finalize"} => cur[c] \in Settled
       /\ todo[c] \subseteq WithStatus({"SUCCEEDED"})
       /\ lock = c <=> pc[c] \in Writing
  /\ \A k \in Keys : row[k] # NoRow => row[k].refund \in WithStatus(RefundStatus)

EffectsInv ==
  /\ audited \subseteq Settled
  /\ \A c \in Calls : lock = c =>
       /\ cur[c] \notin audited
       /\ seen[c].full => FullyRefunded
       /\ FullyRefunded /\ ~seen[c].full =>
            \E r \in WithStatus({"SUCCEEDED"}) \ audited : r # cur[c]

RefundsInv ==
  /\ CallsInv
  /\ EffectsInv
  /\ NeverOverRefunded
  /\ StatusesConverge
  /\ RestockedOnce
  /\ ShippedOnce
=============================================================================
