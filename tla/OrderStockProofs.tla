-------------------------- MODULE OrderStockProofs --------------------------
(* Theorems about OrderStock for every value of its constants. *)
EXTENDS OrderStock, FiniteSetTheorems, TLAPS

USE OrdersAssumption, MaxQtyAssumption

-----------------------------------------------------------------------------
(* Type correctness                                                        *)

LEMMA TypeInit == Init => TypeOK
BY InitialOnHandAssumption DEF Init, TypeOK, WebhookStates

LEMMA TypeStep == TypeOK /\ [Next]_vars => TypeOK'
<1> SUFFICES ASSUME TypeOK, [Next]_vars PROVE TypeOK'
  OBVIOUS
<1> USE DEF TypeOK, OrderStatus, PaymentStatus, ReservationStatus, WebhookStates, Events,
            orderVars, stockVars, mailVars, sweepVars
<1>1. ASSUME NEW o \in Orders, NEW lines \in [Items -> 0..MaxQty], NEW mto \in BOOLEAN,
             Checkout(o, lines, mto)
      PROVE TypeOK'
  BY <1>1 DEF Checkout
<1>2. ASSUME NEW o \in Orders, Lapse(o) PROVE TypeOK'
  BY <1>2 DEF Lapse
<1>3. ASSUME NEW o \in Orders, StripeNext(o) PROVE TypeOK'
  <2>1. \A S : Sent(S) \in [Events -> WebhookStates]
    BY DEF Sent
  <2>2. CASE Charge(o)
    BY <2>1, <2>2 DEF Charge
  <2>3. CASE Decline(o)
    BY <2>1, <2>3 DEF Decline
  <2>5. CASE OtherEvent(o)
    BY <2>1, <2>5 DEF OtherEvent
  <2>4. CASE CancelIntent(o)
    BY <2>1, <2>4 DEF CancelIntent
  <2> QED
    BY <1>3, <2>2, <2>3, <2>4, <2>5 DEF StripeNext
<1>4. ASSUME NEW o \in Orders, SendConfirmation(o) \/ DieBeforeMail(o) PROVE TypeOK'
  BY <1>4 DEF SendConfirmation, DieBeforeMail
<1>5. ASSUME NEW s \in Sweepers, SweepNext(s) PROVE TypeOK'
  <2>1. CASE StartSweep(s)
    BY <2>1 DEF StartSweep
  <2>2. CASE FindStale(s)
    BY <2>2 DEF FindStale
  <2>3. CASE CancelStale(s)
    BY <2>3 DEF CancelStale, CancelIfPending
  <2>4. CASE SweepFails(s)
    BY <2>4 DEF SweepFails
  <2>5. ASSUME NEW o \in Orders, SweepOrder(s, o) PROVE TypeOK'
    BY <2>5 DEF SweepOrder, Release, CancelIfPending
  <2> QED
    BY <1>5, <2>1, <2>2, <2>3, <2>4, <2>5 DEF SweepNext
<1>6. ASSUME NEW e \in Events, WebhookNext(e) PROVE TypeOK'
  <2>1. CASE Claim(e)
    BY <2>1 DEF Claim
  <2>2. CASE HandlerFails(e) \/ Redeliver(e)
    BY <2>2 DEF HandlerFails, Redeliver
  <2>3. CASE Process(e)
    <3> DEFINE o == e[1]
    <3>0. /\ o \in Orders
          /\ webhook' = [webhook EXCEPT ![e] = "processed"]
          /\ UNCHANGED <<sweepVars, overdue, intent>>
      BY <2>3 DEF Process, Processed
    <3>1. CASE ConfirmOrder(o)
      BY <3>0, <3>1 DEF ConfirmOrder
    <3>2. CASE FlagStockLost(o)
      BY <3>0, <3>2 DEF FlagStockLost
    <3>3. CASE AlreadySettled(o)
      BY <3>0, <3>3 DEF AlreadySettled
    <3>4. ASSUME NEW st \in {"FAILED", "CANCELED"}, FailPayment(o, st) PROVE TypeOK'
      BY <3>0, <3>4 DEF FailPayment, Release, CancelIfPending
    <3>5. CASE RecordPaymentMethod(o)
      BY <3>0, <3>5 DEF RecordPaymentMethod
    <3>6. CASE UNCHANGED <<orderVars, stockVars, mailVars>>
      BY <3>0, <3>6
    <3> HIDE DEF o
    <3> QED
      BY <2>3, <3>1, <3>2, <3>3, <3>4, <3>5, <3>6 DEF Process, o
  <2> QED
    BY <1>6, <2>1, <2>2, <2>3 DEF WebhookNext
<1>7. ASSUME NEW i \in Items, NEW d \in Deltas, AdjustStock(i, d) PROVE TypeOK'
  BY <1>7, DeltasAssumption DEF AdjustStock
<1>8. CASE UNCHANGED vars
  BY <1>8 DEF vars
<1> HIDE DEF TypeOK, Events
<1> QED
  BY <1>1, <1>2, <1>3, <1>4, <1>5, <1>6, <1>7, <1>8 DEF Next

\* Every variable keeps its type: no handler writes a status another table
\* uses, and no counter leaves the integers.
THEOREM TypeCorrect == Spec => []TypeOK
BY TypeInit, TypeStep, PTL DEF Spec

-----------------------------------------------------------------------------
(* Orders, reservations, payments and the sweep's snapshots stay in step    *)

orderInvVars == <<order, line, resv, payment, intent, webhook, pc, batch, stale>>

LEMMA OrdersInit == Init => OrdersInv
BY DEF Init, OrdersInv, NothingBeforeCheckout, ReservationsFollowOrder, MoneyAndOrderAgree,
       BatchIsWhole, StaleIsUntracked, ReportedIsCharged, HasTrackedLine, Settled, Confirmed

LEMMA OrdersFrame == OrdersInv /\ UNCHANGED orderInvVars => OrdersInv'
BY DEF orderInvVars, OrdersInv, NothingBeforeCheckout, ReservationsFollowOrder,
       MoneyAndOrderAgree, BatchIsWhole, StaleIsUntracked, ReportedIsCharged,
       HasTrackedLine, Settled, Confirmed

\* A reservation is PENDING exactly while its order awaits payment.
LEMMA PendingAwaitsPayment ==
  ASSUME TypeOK, ReservationsFollowOrder, NEW o \in Orders, NEW i \in Items
  PROVE  resv[o][i] = "PENDING" <=> line[o][i] > 0 /\ order[o] = "PENDING_PAYMENT"
<1>1. line[o][i] \in Nat
  BY DEF TypeOK
<1> QED
  BY <1>1 DEF ReservationsFollowOrder, Confirmed

LEMMA OrdersCheckout ==
  ASSUME TypeOK, OrdersInv, NEW o \in Orders, NEW lines \in [Items -> 0..MaxQty],
         NEW mto \in BOOLEAN, Checkout(o, lines, mto)
  PROVE  OrdersInv'
<1> USE DEF OrdersInv
<1>1. /\ order' = [order EXCEPT ![o] = "PENDING_PAYMENT"]
      /\ line' = [line EXCEPT ![o] = lines]
      /\ resv' = [resv EXCEPT ![o] =
                    [i \in Items |-> IF lines[i] > 0 THEN "PENDING" ELSE "NONE"]]
      /\ payment' = [payment EXCEPT ![o] = "PENDING"]
      /\ intent' = [intent EXCEPT ![o] = "open"]
      /\ UNCHANGED <<webhook, pc, batch, stale>>
      /\ order[o] = "NONE"
  BY DEF Checkout, sweepVars
<1>2. NothingBeforeCheckout'
  BY <1>1 DEF NothingBeforeCheckout, TypeOK
<1>3. ReservationsFollowOrder'
  BY <1>1 DEF ReservationsFollowOrder, TypeOK, Confirmed
<1>4. MoneyAndOrderAgree'
  BY <1>1 DEF MoneyAndOrderAgree, TypeOK, HasTrackedLine, Settled, Confirmed
<1>5. BatchIsWhole'
  BY <1>1 DEF BatchIsWhole, NothingBeforeCheckout, TypeOK
<1>6. StaleIsUntracked'
  BY <1>1 DEF StaleIsUntracked, TypeOK
<1>7. ReportedIsCharged'
  BY <1>1 DEF ReportedIsCharged, NothingBeforeCheckout, TypeOK, Events
<1> QED
  BY <1>2, <1>3, <1>4, <1>5, <1>6, <1>7

LEMMA OrdersStripe ==
  ASSUME TypeOK, OrdersInv, NEW o \in Orders, StripeNext(o)
  PROVE  OrdersInv'
<1> USE DEF OrdersInv
<1>1. /\ UNCHANGED <<order, line, resv, payment, pc, batch, stale>>
      /\ intent[o] # "none"
  BY DEF StripeNext, Charge, Decline, CancelIntent, OtherEvent, orderVars, sweepVars
<1>2. \/ UNCHANGED intent
      \/ intent[o] = "open" /\ \E st \in {"succeeded", "canceled"} : intent' = [intent EXCEPT ![o] = st]
  BY DEF StripeNext, Charge, Decline, CancelIntent, OtherEvent
<1>3. \A e \in Events : e[2] = "succeeded" /\ webhook'[e] # "unsent" =>
        webhook[e] # "unsent" \/ intent'[e[1]] = "succeeded"
  <2> SUFFICES ASSUME NEW e \in Events, e[2] = "succeeded", webhook'[e] # "unsent",
                      webhook[e] = "unsent"
               PROVE  intent'[e[1]] = "succeeded"
    OBVIOUS
  <2>1. CASE Charge(o)
    <3>1. e \in {<<o, "succeeded">>, <<o, "paymentMethodRecorded">>}
      BY <2>1 DEF Charge, Sent
    <3> QED
      BY <2>1, <3>1 DEF Charge, TypeOK
  <2>2. CASE Decline(o)
    <3>1. e = <<o, "failed">>
      BY <2>2 DEF Decline, Sent
    <3> QED
      BY <3>1
  <2>3. CASE CancelIntent(o)
    <3>1. e = <<o, "canceled">>
      BY <2>3 DEF CancelIntent, Sent
    <3> QED
      BY <3>1
  <2>4. CASE OtherEvent(o)
    <3>1. e = <<o, "irrelevant">>
      BY <2>4 DEF OtherEvent, Sent
    <3> QED
      BY <3>1
  <2> QED
    BY <2>1, <2>2, <2>3, <2>4 DEF StripeNext
<1>4. NothingBeforeCheckout'
  BY <1>1, <1>2 DEF NothingBeforeCheckout, TypeOK
<1>5. ReservationsFollowOrder'
  BY <1>1 DEF ReservationsFollowOrder, Confirmed
<1>6. MoneyAndOrderAgree'
  BY <1>1, <1>2 DEF MoneyAndOrderAgree, TypeOK, HasTrackedLine, Settled, Confirmed
<1>7. BatchIsWhole' /\ StaleIsUntracked'
  BY <1>1 DEF BatchIsWhole, StaleIsUntracked
<1>8. ReportedIsCharged'
  <2>1. \A e \in Events : e[1] \in Orders
    BY DEF Events
  <2>2. \A p \in Orders : intent[p] = "succeeded" => intent'[p] = "succeeded"
    BY <1>2 DEF TypeOK
  <2> QED
    BY <1>3, <2>1, <2>2 DEF ReportedIsCharged
<1> QED
  BY <1>4, <1>5, <1>6, <1>7, <1>8

LEMMA OrdersSweep ==
  ASSUME TypeOK, OrdersInv, NEW s \in Sweepers, SweepNext(s)
  PROVE  OrdersInv'
<1> USE DEF OrdersInv
<1>1. UNCHANGED <<line, payment, intent, webhook>>
  BY DEF SweepNext, StartSweep, FindStale, CancelStale, SweepFails, SweepOrder, orderVars
<1>2. ReportedIsCharged'
  BY <1>1 DEF ReportedIsCharged
<1>3. CASE StartSweep(s)
  <2>1. BatchIsWhole'
    <3>1. batch' = [batch EXCEPT ![s] =
                      {r \in Orders \X Items : resv[r[1]][r[2]] = "PENDING" /\ overdue[r[1]]}]
      BY <1>3 DEF StartSweep
    <3>2. ASSUME NEW r \in batch'[s]
          PROVE  /\ line[r[1]][r[2]] > 0
                 /\ \A i \in Items : line[r[1]][i] > 0 => <<r[1], i>> \in batch'[s]
      BY <3>1, PendingAwaitsPayment DEF TypeOK
    <3> QED
      BY <1>1, <3>1, <3>2 DEF BatchIsWhole, TypeOK
  <2>2. StaleIsUntracked'
    BY <1>1, <1>3 DEF StartSweep, StaleIsUntracked, TypeOK, orderVars
  <2> QED
    BY <1>1, <1>2, <1>3, <2>1, <2>2
    DEF StartSweep, orderVars, NothingBeforeCheckout, ReservationsFollowOrder,
        MoneyAndOrderAgree, HasTrackedLine, Settled, Confirmed
<1>4. CASE FindStale(s)
  <2>1. StaleIsUntracked'
    BY <1>1, <1>4 DEF FindStale, StaleIsUntracked, ReservationsFollowOrder, TypeOK, orderVars
  <2> QED
    BY <1>1, <1>2, <1>4, <2>1
    DEF FindStale, orderVars, NothingBeforeCheckout, ReservationsFollowOrder,
        MoneyAndOrderAgree, HasTrackedLine, Settled, Confirmed, BatchIsWhole
<1>5. CASE CancelStale(s)
  <2>1. /\ UNCHANGED <<resv, batch>>
        /\ \A o \in stale[s] : \A i \in Items : line[o][i] = 0
        /\ CancelIfPending(stale[s])
    BY <1>5 DEF CancelStale, StaleIsUntracked
  <2>2. StaleIsUntracked'
    BY <1>1, <1>5, <2>1 DEF CancelStale, StaleIsUntracked, TypeOK, CancelIfPending
  <2>3. ReservationsFollowOrder'
    BY <1>1, <2>1 DEF ReservationsFollowOrder, CancelIfPending, TypeOK, Confirmed
  <2>4. MoneyAndOrderAgree'
    BY <1>1, <2>1 DEF MoneyAndOrderAgree, CancelIfPending, HasTrackedLine, Settled, Confirmed
  <2> QED
    BY <1>1, <1>2, <2>1, <2>2, <2>3, <2>4 DEF NothingBeforeCheckout, BatchIsWhole, CancelIfPending
<1>6. CASE SweepFails(s)
  <2>1. BatchIsWhole' /\ StaleIsUntracked'
    BY <1>1, <1>6 DEF SweepFails, BatchIsWhole, StaleIsUntracked, TypeOK, orderVars
  <2> QED
    BY <1>1, <1>2, <1>6, <2>1
    DEF SweepFails, orderVars, NothingBeforeCheckout, ReservationsFollowOrder,
        MoneyAndOrderAgree, HasTrackedLine, Settled, Confirmed
<1>7. ASSUME NEW o \in Orders, SweepOrder(s, o) PROVE OrdersInv'
  <2> DEFINE mine == {r \in batch[s] : r[1] = o}
             gone == {i \in PendingItems(o) : <<o, i>> \in mine}
  <2>1. /\ mine # {}
        /\ resv' = [resv EXCEPT ![o] = [i \in Items |-> IF i \in gone THEN "EXPIRED" ELSE resv[o][i]]]
        /\ CancelIfPending({o})
        /\ batch' = [batch EXCEPT ![s] = batch[s] \ mine]
        /\ UNCHANGED <<pc, stale>>
    BY <1>7 DEF SweepOrder, Release
  <2>2. \A i \in Items : line[o][i] > 0 => <<o, i>> \in mine
    BY <2>1 DEF BatchIsWhole, TypeOK
  <2>3. \E i \in Items : line[o][i] > 0
    BY <2>1 DEF BatchIsWhole, TypeOK
  <2>4. order[o] # "NONE"
    BY <2>3 DEF NothingBeforeCheckout
  <2>5. \A i \in Items : i \in gone <=> line[o][i] > 0 /\ resv[o][i] = "PENDING"
    BY <2>2, PendingAwaitsPayment DEF PendingItems
  <2> HIDE DEF gone, mine
  <2>6. NothingBeforeCheckout'
    BY <1>1, <2>1 DEF NothingBeforeCheckout, CancelIfPending
  <2>7. ReservationsFollowOrder'
    BY <1>1, <2>1, <2>4, <2>5 DEF ReservationsFollowOrder, CancelIfPending, TypeOK, Confirmed, OrderStatus
  <2>8. MoneyAndOrderAgree'
    BY <1>1, <2>1 DEF MoneyAndOrderAgree, CancelIfPending, HasTrackedLine, Settled, Confirmed
  <2>9. BatchIsWhole'
    BY <1>1, <2>1 DEF BatchIsWhole, TypeOK, mine
  <2>10. StaleIsUntracked'
    BY <1>1, <2>1 DEF StaleIsUntracked, CancelIfPending, TypeOK
  <2> QED
    BY <1>2, <2>6, <2>7, <2>8, <2>9, <2>10
<1> QED
  BY <1>3, <1>4, <1>5, <1>6, <1>7 DEF SweepNext

LEMMA OrdersConfirm ==
  ASSUME TypeOK, OrdersInv, NEW o \in Orders, ConfirmOrder(o), intent[o] = "succeeded",
         UNCHANGED intent
  PROVE  /\ NothingBeforeCheckout'
         /\ ReservationsFollowOrder'
         /\ MoneyAndOrderAgree'
<1> USE DEF OrdersInv
<1> DEFINE st == IF madeToOrder[o] THEN "IN_PRODUCTION" ELSE "CONFIRMED"
<1>1. /\ payment[o] = "PENDING"
      /\ payment' = [payment EXCEPT ![o] = "PAID"]
      /\ \A i \in Items : resv[o][i] \in {"NONE", "PENDING"}
      /\ resv' = [resv EXCEPT ![o] =
                    [i \in Items |-> IF i \in PendingItems(o) THEN "CONSUMED" ELSE "NONE"]]
      /\ order' = IF order[o] = "PENDING_PAYMENT" THEN [order EXCEPT ![o] = st] ELSE order
      /\ UNCHANGED line
  BY DEF ConfirmOrder
<1>2. st \in {"IN_PRODUCTION", "CONFIRMED"}
  OBVIOUS
<1> HIDE DEF st
<1>3. \A i \in Items : i \in PendingItems(o) <=> line[o][i] > 0 /\ order[o] = "PENDING_PAYMENT"
  BY PendingAwaitsPayment DEF PendingItems
<1>4. \A i \in Items : line[o][i] > 0 => order[o] = "PENDING_PAYMENT"
  BY <1>1, PendingAwaitsPayment DEF ReservationsFollowOrder, TypeOK
<1>5. order[o] # "NONE"
  BY <1>1 DEF NothingBeforeCheckout
<1>6. NothingBeforeCheckout'
  BY <1>1, <1>2, <1>5 DEF NothingBeforeCheckout, TypeOK
<1>7. ReservationsFollowOrder'
  BY <1>1, <1>2, <1>3, <1>4 DEF ReservationsFollowOrder, TypeOK, Confirmed
<1>8. MoneyAndOrderAgree'
  BY <1>1, <1>2, <1>4 DEF MoneyAndOrderAgree, TypeOK, HasTrackedLine, Settled, Confirmed
<1> QED
  BY <1>6, <1>7, <1>8

LEMMA OrdersFlag ==
  ASSUME TypeOK, OrdersInv, NEW o \in Orders, FlagStockLost(o), intent[o] = "succeeded",
         UNCHANGED intent
  PROVE  /\ NothingBeforeCheckout'
         /\ ReservationsFollowOrder'
         /\ MoneyAndOrderAgree'
<1> USE DEF OrdersInv
<1>1. /\ payment[o] = "PENDING"
      /\ payment' = [payment EXCEPT ![o] = "PAID"]
      /\ UNCHANGED <<line, resv>>
      /\ order' = IF order[o] \in {"PENDING_PAYMENT", "CANCELED"}
                  THEN [order EXCEPT ![o] = "PAYMENT_SUCCEEDED_STOCK_LOST"] ELSE order
  BY DEF FlagStockLost
<1>2. PICK j \in Items : resv[o][j] \notin {"NONE", "PENDING"}
  BY DEF FlagStockLost
<1>3. line[o][j] > 0
  BY <1>2 DEF ReservationsFollowOrder, TypeOK
<1>4. order[o] = "CANCELED"
  <2>1. ~Settled(o)
    BY <1>1, <1>3 DEF MoneyAndOrderAgree, HasTrackedLine
  <2>2. order[o] # "PENDING_PAYMENT" /\ order[o] # "NONE"
    BY <1>2, <1>3, PendingAwaitsPayment DEF NothingBeforeCheckout
  <2> QED
    BY <2>1, <2>2 DEF Settled, Confirmed, TypeOK, OrderStatus
<1>5. order' = [order EXCEPT ![o] = "PAYMENT_SUCCEEDED_STOCK_LOST"]
  BY <1>1, <1>4
<1>6. NothingBeforeCheckout'
  BY <1>1, <1>5 DEF NothingBeforeCheckout, TypeOK
<1>7. ReservationsFollowOrder'
  BY <1>1, <1>4, <1>5 DEF ReservationsFollowOrder, TypeOK, Confirmed
<1>8. MoneyAndOrderAgree'
  BY <1>1, <1>5 DEF MoneyAndOrderAgree, TypeOK, HasTrackedLine, Settled, Confirmed
<1> QED
  BY <1>6, <1>7, <1>8

LEMMA OrdersFail ==
  ASSUME TypeOK, OrdersInv, NEW o \in Orders, NEW st \in {"FAILED", "CANCELED"},
         FailPayment(o, st), UNCHANGED intent
  PROVE  /\ NothingBeforeCheckout'
         /\ ReservationsFollowOrder'
         /\ MoneyAndOrderAgree'
<1> USE DEF OrdersInv
<1>1. /\ payment[o] = "PENDING"
      /\ payment' = [payment EXCEPT ![o] = st]
      /\ resv' = [resv EXCEPT ![o] =
                    [i \in Items |-> IF i \in PendingItems(o) THEN "EXPIRED" ELSE resv[o][i]]]
      /\ CancelIfPending({o})
      /\ UNCHANGED line
  BY DEF FailPayment, Release
<1>2. \A i \in Items : i \in PendingItems(o) <=> line[o][i] > 0 /\ order[o] = "PENDING_PAYMENT"
  BY PendingAwaitsPayment DEF PendingItems
<1>3. order[o] # "NONE"
  BY <1>1 DEF NothingBeforeCheckout
<1>4. NothingBeforeCheckout'
  BY <1>1, <1>3 DEF NothingBeforeCheckout, CancelIfPending, TypeOK
<1>5. ReservationsFollowOrder'
  BY <1>1, <1>2, <1>3 DEF ReservationsFollowOrder, CancelIfPending, TypeOK, Confirmed
<1>6. MoneyAndOrderAgree'
  BY <1>1 DEF MoneyAndOrderAgree, CancelIfPending, TypeOK, HasTrackedLine, Settled, Confirmed
<1> QED
  BY <1>4, <1>5, <1>6

LEMMA OrdersWebhook ==
  ASSUME TypeOK, OrdersInv, NEW e \in Events, WebhookNext(e)
  PROVE  OrdersInv'
<1> USE DEF OrdersInv
<1> DEFINE o == e[1]
<1>1. /\ o \in Orders
      /\ UNCHANGED <<line, pc, batch, stale, intent>>
      /\ webhook[e] # "unsent"
      /\ \E w \in WebhookStates : webhook' = [webhook EXCEPT ![e] = w]
  BY DEF Events, WebhookStates, WebhookNext, Claim, Process, HandlerFails, Redeliver, Processed,
         ConfirmOrder, FlagStockLost, AlreadySettled, FailPayment, RecordPaymentMethod,
         orderVars, sweepVars
<1>2. BatchIsWhole'
  BY <1>1 DEF BatchIsWhole
<1>3. ReportedIsCharged'
  BY <1>1 DEF ReportedIsCharged, TypeOK
<1>4. CASE UNCHANGED <<order, resv, payment>>
  BY <1>1, <1>2, <1>3, <1>4
  DEF NothingBeforeCheckout, ReservationsFollowOrder, MoneyAndOrderAgree, StaleIsUntracked,
      HasTrackedLine, Settled, Confirmed
<1>5. ASSUME order' # order
      PROVE  \A p \in Orders : order[p] # "NONE" => order'[p] # "NONE"
  BY DEF WebhookNext, Claim, Process, HandlerFails, Redeliver, ConfirmOrder, FlagStockLost,
         AlreadySettled, FailPayment, CancelIfPending, RecordPaymentMethod, orderVars, TypeOK
<1>6. StaleIsUntracked'
  BY <1>1, <1>5 DEF StaleIsUntracked, TypeOK
<1>7. ASSUME Process(e), ~UNCHANGED <<order, resv, payment>>
      PROVE  \/ e[2] = "succeeded" /\ (ConfirmOrder(o) \/ FlagStockLost(o))
             \/ \E st \in {"FAILED", "CANCELED"} : FailPayment(o, st)
  BY <1>7 DEF Process, AlreadySettled, RecordPaymentMethod, orderVars
<1>8. e[2] = "succeeded" => intent[o] = "succeeded"
  BY <1>1 DEF ReportedIsCharged
<1> HIDE DEF o
<1>9. CASE Process(e) /\ ~UNCHANGED <<order, resv, payment>>
  BY <1>1, <1>2, <1>3, <1>6, <1>7, <1>8, <1>9, OrdersConfirm, OrdersFlag, OrdersFail
<1>10. WebhookNext(e) => Process(e) \/ UNCHANGED <<order, resv, payment>>
  BY DEF WebhookNext, Claim, HandlerFails, Redeliver, orderVars
<1> QED
  BY <1>4, <1>9, <1>10

LEMMA OrdersStep == TypeOK /\ OrdersInv /\ [Next]_vars => OrdersInv'
<1> SUFFICES ASSUME TypeOK, OrdersInv, [Next]_vars PROVE OrdersInv'
  OBVIOUS
<1>1. ASSUME NEW o \in Orders, Lapse(o) \/ SendConfirmation(o) \/ DieBeforeMail(o)
      PROVE  OrdersInv'
  BY <1>1, OrdersFrame DEF Lapse, SendConfirmation, DieBeforeMail, orderVars, sweepVars, orderInvVars
<1>2. ASSUME NEW i \in Items, NEW d \in Deltas, AdjustStock(i, d)
      PROVE  OrdersInv'
  BY <1>2, OrdersFrame DEF AdjustStock, orderVars, sweepVars, orderInvVars
<1>3. CASE UNCHANGED vars
  BY <1>3, OrdersFrame DEF vars, orderVars, sweepVars, orderInvVars
<1> QED
  BY <1>1, <1>2, <1>3, OrdersCheckout, OrdersStripe, OrdersSweep, OrdersWebhook DEF Next

-----------------------------------------------------------------------------
(* Counting units                                                          *)

LEMMA UnitsFinite ==
  ASSUME NEW S \in SUBSET Orders, NEW q
  PROVE  IsFiniteSet(Units(S, q)) /\ Cardinality(Units(S, q)) \in Nat
<1>1. IsFiniteSet(S) /\ IsFiniteSet(1..MaxQty)
  BY FS_Subset, FS_Interval
<1>2. IsFiniteSet(S \X (1..MaxQty))
  BY <1>1, FS_Product
<1>3. Units(S, q) \in SUBSET (S \X (1..MaxQty))
  BY DEF Units
<1>4. IsFiniteSet(Units(S, q))
  BY <1>2, <1>3, FS_Subset
<1> QED
  BY <1>4, FS_CardinalityType

\* An order adds as many units as its line asks for.
LEMMA UnitsAdd ==
  ASSUME NEW S \in SUBSET Orders, NEW q \in [Orders -> 0..MaxQty], NEW o \in Orders, o \notin S
  PROVE  Cardinality(Units(S \cup {o}, q)) = Cardinality(Units(S, q)) + q[o]
<1> DEFINE own == {o} \X (1..q[o])
<1>1. q[o] \in Nat /\ q[o] <= MaxQty
  OBVIOUS
<1>2. IsFiniteSet(own) /\ Cardinality(own) = q[o]
  <2>1. IsFiniteSet({o}) /\ Cardinality({o}) = 1
    BY FS_Singleton
  <2>2. IsFiniteSet(1..q[o]) /\ Cardinality(1..q[o]) = q[o]
    BY <1>1, FS_Interval
  <2>3. IsFiniteSet(own) /\ Cardinality(own) = Cardinality({o}) * Cardinality(1..q[o])
    BY <2>1, <2>2, FS_Product
  <2> QED
    BY <1>1, <2>1, <2>2, <2>3
<1>3. Units(S \cup {o}, q) = Units(S, q) \cup own
  <2>1. ASSUME NEW u \in Units(S \cup {o}, q) PROVE u \in Units(S, q) \cup own
    BY <2>1, <1>1 DEF Units
  <2>2. ASSUME NEW u \in Units(S, q) \cup own PROVE u \in Units(S \cup {o}, q)
    BY <2>2, <1>1 DEF Units
  <2> QED
    BY <2>1, <2>2
<1>4. Units(S, q) \cap own = {}
  BY DEF Units
<1>5. Cardinality(Units(S, q) \cap own) = 0
  BY <1>4, FS_EmptySet
<1>6. IsFiniteSet(Units(S, q)) /\ Cardinality(Units(S, q)) \in Nat
  BY UnitsFinite
<1> HIDE DEF own
<1>7. Cardinality(Units(S, q) \cup own)
        = Cardinality(Units(S, q)) + Cardinality(own) - Cardinality(Units(S, q) \cap own)
  BY <1>2, <1>6, FS_Union
<1>8. Cardinality(Units(S \cup {o}, q)) = Cardinality(Units(S, q) \cup own)
  BY <1>3
<1> QED
  BY <1>1, <1>2, <1>5, <1>6, <1>7, <1>8

\* When one order joins, leaves or changes its line, the units change by
\* exactly what it held before and holds after.
DifferAt(o, S, q, T, r) ==
  /\ o \in Orders
  /\ S \in SUBSET Orders /\ T \in SUBSET Orders
  /\ q \in [Orders -> 0..MaxQty] /\ r \in [Orders -> 0..MaxQty]
  /\ \A p \in Orders \ {o} : (p \in S <=> p \in T) /\ (p \in S => q[p] = r[p])

LEMMA UnitsChange ==
  ASSUME NEW o, NEW S, NEW q, NEW T, NEW r, DifferAt(o, S, q, T, r)
  PROVE  Cardinality(Units(T, r)) = Cardinality(Units(S, q))
           - (IF o \in S THEN q[o] ELSE 0) + (IF o \in T THEN r[o] ELSE 0)
<1> USE DEF DifferAt
<1> DEFINE R == S \ {o}
<1>1. R \in SUBSET Orders /\ o \notin R
  OBVIOUS
<1>2. Units(R, q) = Units(R, r)
  BY DEF Units
<1>3. Cardinality(Units(R, q)) \in Nat
  BY UnitsFinite
<1>4. (IF o \in S THEN q[o] ELSE 0) \in Nat /\ (IF o \in T THEN r[o] ELSE 0) \in Nat
  OBVIOUS
<1>5. Cardinality(Units(S, q)) = Cardinality(Units(R, q)) + (IF o \in S THEN q[o] ELSE 0)
  <2>1. CASE o \in S
    <3>1. S = R \cup {o}
      BY <2>1
    <3> HIDE DEF R
    <3> QED
      BY <1>1, <2>1, <3>1, UnitsAdd
  <2>2. CASE o \notin S
    <3>1. S = R
      BY <2>2
    <3> QED
      BY <1>3, <2>2, <3>1
  <2> QED
    BY <2>1, <2>2
<1>6. Cardinality(Units(T, r)) = Cardinality(Units(R, r)) + (IF o \in T THEN r[o] ELSE 0)
  <2>1. CASE o \in T
    <3>1. T = R \cup {o}
      BY <2>1
    <3> HIDE DEF R
    <3> QED
      BY <1>1, <2>1, <3>1, UnitsAdd
  <2>2. CASE o \notin T
    <3>1. T = R
      BY <2>2
    <3> QED
      BY <1>2, <1>3, <2>2, <3>1
  <2> QED
    BY <2>1, <2>2
<1> HIDE DEF R
<1> QED
  BY <1>2, <1>3, <1>4, <1>5, <1>6

-----------------------------------------------------------------------------
(* reserved is the sum of the PENDING reservations                         *)

LEMMA ReservedInit == Init => ReservedMatchesPending
<1> SUFFICES ASSUME Init, NEW i \in Items
             PROVE  reserved[i] = Cardinality(Units(HoldingOrders(i), Quantity(i)))
  BY DEF ReservedMatchesPending
<1>1. HoldingOrders(i) = {}
  BY DEF Init, HoldingOrders
<1>2. Units(HoldingOrders(i), Quantity(i)) = {}
  BY <1>1 DEF Units
<1>3. Cardinality(Units(HoldingOrders(i), Quantity(i))) = 0
  BY <1>2, FS_EmptySet
<1> QED
  BY <1>3 DEF Init

\* One order's reservations change, and reserved by exactly the difference.
LEMMA ReservedByOrder ==
  ASSUME TypeOK, TypeOK', ReservedMatchesPending, NEW o \in Orders,
         \A p \in Orders \ {o} : line'[p] = line[p] /\ resv'[p] = resv[p],
         \A i \in Items : reserved'[i] = reserved[i]
           - (IF resv[o][i] = "PENDING" THEN line[o][i] ELSE 0)
           + (IF resv'[o][i] = "PENDING" THEN line'[o][i] ELSE 0)
  PROVE  ReservedMatchesPending'
<1> SUFFICES ASSUME NEW i \in Items
             PROVE  reserved'[i] = Cardinality(Units(HoldingOrders(i)', Quantity(i)'))
  BY DEF ReservedMatchesPending, Units
<1> DEFINE S == HoldingOrders(i)
           T == HoldingOrders(i)'
           q == Quantity(i)
           r == Quantity(i)'
<1>1. DifferAt(o, S, q, T, r)
  BY DEF DifferAt, HoldingOrders, Quantity, TypeOK
<1>2. /\ o \in S <=> resv[o][i] = "PENDING"
      /\ o \in T <=> resv'[o][i] = "PENDING"
      /\ q[o] = line[o][i] /\ r[o] = line'[o][i]
  BY DEF HoldingOrders, Quantity
<1>3. reserved[i] = Cardinality(Units(S, q))
  BY DEF ReservedMatchesPending
<1> HIDE DEF S, T, q, r
<1>4. Cardinality(Units(T, r)) = Cardinality(Units(S, q))
           - (IF o \in S THEN q[o] ELSE 0) + (IF o \in T THEN r[o] ELSE 0)
  BY <1>1, UnitsChange
<1>5. reserved'[i] = Cardinality(Units(T, r))
  BY <1>2, <1>3, <1>4
<1> QED
  BY <1>5 DEF T, r

LEMMA ReservedFrame ==
  ReservedMatchesPending /\ UNCHANGED <<line, resv, reserved>> => ReservedMatchesPending'
BY DEF ReservedMatchesPending, HoldingOrders, Quantity, Units

LEMMA ReservedStep ==
  TypeOK /\ OrdersInv /\ ReservedMatchesPending /\ [Next]_vars => ReservedMatchesPending'
<1> SUFFICES ASSUME TypeOK, OrdersInv, ReservedMatchesPending, [Next]_vars
             PROVE  ReservedMatchesPending'
  OBVIOUS
<1>0. TypeOK'
  BY TypeStep
<1>1. ASSUME NEW o \in Orders, NEW lines \in [Items -> 0..MaxQty], NEW mto \in BOOLEAN,
             Checkout(o, lines, mto)
      PROVE  ReservedMatchesPending'
  <2>1. \A i \in Items : resv[o][i] # "PENDING"
    BY <1>1, PendingAwaitsPayment DEF Checkout, OrdersInv
  <2>2. \A i \in Items : /\ reserved'[i] = reserved[i] + lines[i]
                         /\ resv'[o][i] = "PENDING" <=> lines[i] > 0
                         /\ line'[o][i] = lines[i] /\ lines[i] \in Nat /\ reserved[i] \in Int
    BY <1>1 DEF Checkout, TypeOK
  <2>3. \A p \in Orders \ {o} : line'[p] = line[p] /\ resv'[p] = resv[p]
    BY <1>1 DEF Checkout, TypeOK
  <2> QED
    BY <1>0, <2>1, <2>2, <2>3, ReservedByOrder
\* Both releases and the confirmation end some PENDING reservations of one
\* order and subtract exactly their quantities.
<1>2. ASSUME NEW o \in Orders, NEW S \in SUBSET PendingItems(o), NEW st \in {"EXPIRED", "CONSUMED"},
             UNCHANGED line,
             \A i \in Items : resv'[o][i] = IF i \in S THEN st ELSE resv[o][i],
             \A p \in Orders \ {o} : resv'[p] = resv[p],
             \A i \in Items : reserved'[i] = IF i \in S THEN reserved[i] - line[o][i] ELSE reserved[i]
      PROVE  ReservedMatchesPending'
  <2>1. \A i \in Items : reserved[i] \in Int /\ line[o][i] \in Int
    BY DEF TypeOK
  <2>2. \A i \in Items : reserved'[i] = reserved[i]
           - (IF resv[o][i] = "PENDING" THEN line[o][i] ELSE 0)
           + (IF resv'[o][i] = "PENDING" THEN line'[o][i] ELSE 0)
    BY <1>2, <2>1 DEF PendingItems
  <2> QED
    BY <1>0, <1>2, <2>2, ReservedByOrder
<1>3. ASSUME NEW o \in Orders, NEW S \in SUBSET PendingItems(o), Release(o, S), UNCHANGED line
      PROVE  ReservedMatchesPending'
  BY <1>2, <1>3 DEF Release, TypeOK
<1>4. ASSUME NEW s \in Sweepers, SweepNext(s) PROVE ReservedMatchesPending'
  <2>1. ASSUME NEW o \in Orders, SweepOrder(s, o) PROVE ReservedMatchesPending'
    BY <2>1, <1>3 DEF SweepOrder
  <2>2. CASE ~\E o \in Orders : SweepOrder(s, o)
    BY <1>4, <2>2, ReservedFrame
    DEF SweepNext, StartSweep, FindStale, CancelStale, SweepFails, orderVars, stockVars
  <2> QED
    BY <2>1, <2>2
<1>5. ASSUME NEW e \in Events, WebhookNext(e) PROVE ReservedMatchesPending'
  <2>1. e[1] \in Orders
    BY DEF Events
  <2>2. CASE ConfirmOrder(e[1])
    <3>1. \A i \in Items : resv'[e[1]][i] = IF i \in PendingItems(e[1]) THEN "CONSUMED" ELSE resv[e[1]][i]
      BY <2>1, <2>2 DEF ConfirmOrder, PendingItems, TypeOK
    <3> QED
      BY <2>1, <2>2, <3>1, <1>2 DEF ConfirmOrder, TypeOK
  <2>3. ASSUME NEW st, FailPayment(e[1], st) PROVE ReservedMatchesPending'
    BY <2>1, <2>3, <1>3 DEF FailPayment
  <2>4. CASE UNCHANGED <<line, resv, reserved>>
    BY <2>4, ReservedFrame
  <2>5. \/ ConfirmOrder(e[1])
        \/ FailPayment(e[1], "FAILED") \/ FailPayment(e[1], "CANCELED")
        \/ UNCHANGED <<line, resv, reserved>>
    BY <1>5 DEF WebhookNext, Claim, Process, HandlerFails, Redeliver, FlagStockLost,
                AlreadySettled, RecordPaymentMethod, orderVars, stockVars
  <2> QED
    BY <2>2, <2>3, <2>4, <2>5
<1>6. ASSUME UNCHANGED <<line, resv, reserved>> PROVE ReservedMatchesPending'
  BY <1>6, ReservedFrame
<1>7. ASSUME NEW o \in Orders, Lapse(o) \/ StripeNext(o) \/ SendConfirmation(o) \/ DieBeforeMail(o)
      PROVE  UNCHANGED <<line, resv, reserved>>
  BY <1>7 DEF Lapse, StripeNext, Charge, Decline, CancelIntent, OtherEvent, SendConfirmation,
              DieBeforeMail, orderVars, stockVars
<1>8. ASSUME NEW i \in Items, NEW d \in Deltas, AdjustStock(i, d)
      PROVE  UNCHANGED <<line, resv, reserved>>
  BY <1>8 DEF AdjustStock, orderVars
<1>9. CASE UNCHANGED vars
  BY <1>9, <1>6 DEF vars, orderVars, stockVars
<1> QED
  BY <1>1, <1>4, <1>5, <1>6, <1>7, <1>8, <1>9 DEF Next

-----------------------------------------------------------------------------
(* Every unit sold is on a confirmed order, and the movements explain onHand *)

LEMMA SalesInit == Init => StockMatchesSales
<1> SUFFICES ASSUME Init, NEW i \in Items
             PROVE  /\ sold[i] = Cardinality(Units(ConfirmedOrders, Quantity(i)))
                    /\ onHand[i] = InitialOnHand[i] + adjusted[i] - sold[i]
  BY DEF StockMatchesSales
<1>1. ConfirmedOrders = {}
  BY DEF Init, ConfirmedOrders, Confirmed
<1>2. Units(ConfirmedOrders, Quantity(i)) = {}
  BY <1>1 DEF Units
<1>3. Cardinality(Units(ConfirmedOrders, Quantity(i))) = 0
  BY <1>2, FS_EmptySet
<1> QED
  BY <1>3, InitialOnHandAssumption DEF Init

\* One order is confirmed or changes its line, and sold and onHand follow.
LEMMA SalesByOrder ==
  ASSUME TypeOK, TypeOK', StockMatchesSales, NEW o \in Orders,
         \A p \in Orders \ {o} : line'[p] = line[p] /\ (Confirmed(p)' <=> Confirmed(p)),
         \A i \in Items : sold'[i] = sold[i]
           - (IF Confirmed(o) THEN line[o][i] ELSE 0)
           + (IF Confirmed(o)' THEN line'[o][i] ELSE 0),
         \A i \in Items : onHand'[i] - adjusted'[i] + sold'[i] = onHand[i] - adjusted[i] + sold[i]
  PROVE  StockMatchesSales'
<1> SUFFICES ASSUME NEW i \in Items
             PROVE  /\ sold'[i] = Cardinality(Units(ConfirmedOrders', Quantity(i)'))
                    /\ onHand'[i] = InitialOnHand[i] + adjusted'[i] - sold'[i]
  BY DEF StockMatchesSales, Units
<1> DEFINE S == ConfirmedOrders
           T == ConfirmedOrders'
           q == Quantity(i)
           r == Quantity(i)'
<1>1. DifferAt(o, S, q, T, r)
  BY DEF DifferAt, ConfirmedOrders, Quantity, TypeOK
<1>2. /\ o \in S <=> Confirmed(o)
      /\ o \in T <=> Confirmed(o)'
      /\ q[o] = line[o][i] /\ r[o] = line'[o][i]
  BY DEF ConfirmedOrders, Quantity
<1>3. sold[i] = Cardinality(Units(S, q))
  BY DEF StockMatchesSales
<1> HIDE DEF S, T, q, r
<1>4. Cardinality(Units(T, r)) = Cardinality(Units(S, q))
           - (IF o \in S THEN q[o] ELSE 0) + (IF o \in T THEN r[o] ELSE 0)
  BY <1>1, UnitsChange
<1>5. sold'[i] = Cardinality(Units(T, r))
  BY <1>2, <1>3, <1>4
<1>6. onHand'[i] = InitialOnHand[i] + adjusted'[i] - sold'[i]
  <2>1. onHand[i] = InitialOnHand[i] + adjusted[i] - sold[i]
    BY DEF StockMatchesSales
  <2>2. onHand'[i] - adjusted'[i] + sold'[i] = onHand[i] - adjusted[i] + sold[i]
    OBVIOUS
  <2>3. /\ onHand[i] \in Int /\ adjusted[i] \in Int /\ sold[i] \in Int
        /\ onHand'[i] \in Int /\ adjusted'[i] \in Int /\ sold'[i] \in Int
        /\ InitialOnHand[i] \in Int
    BY InitialOnHandAssumption DEF TypeOK
  <2> QED
    BY <2>1, <2>2, <2>3
<1> QED
  BY <1>5, <1>6 DEF T, r

\* No order is confirmed, and nothing is sold.
LEMMA SalesFrame ==
  ASSUME StockMatchesSales, \A o \in Orders : Confirmed(o)' <=> Confirmed(o),
         UNCHANGED <<line, onHand, sold, adjusted>>
  PROVE  StockMatchesSales'
<1>1. ConfirmedOrders' = ConfirmedOrders
  BY DEF ConfirmedOrders
<1>2. \A i \in Items : Quantity(i)' = Quantity(i)
  BY DEF Quantity
<1> QED
  BY <1>1, <1>2 DEF StockMatchesSales, Units

LEMMA SalesStep ==
  TypeOK /\ OrdersInv /\ StockMatchesSales /\ [Next]_vars => StockMatchesSales'
<1> SUFFICES ASSUME TypeOK, OrdersInv, StockMatchesSales, [Next]_vars
             PROVE  StockMatchesSales'
  OBVIOUS
<1>0. TypeOK'
  BY TypeStep
<1>1. ASSUME NEW o \in Orders, NEW lines \in [Items -> 0..MaxQty], NEW mto \in BOOLEAN,
             Checkout(o, lines, mto)
      PROVE  StockMatchesSales'
  <2>1. ~Confirmed(o) /\ ~Confirmed(o)'
    BY <1>1 DEF Checkout, Confirmed, TypeOK
  <2>2. \A p \in Orders \ {o} : line'[p] = line[p] /\ (Confirmed(p)' <=> Confirmed(p))
    BY <1>1 DEF Checkout, Confirmed, TypeOK
  <2>3. \A i \in Items : sold'[i] = sold[i] /\ sold[i] \in Int
    BY <1>1 DEF Checkout, TypeOK
  <2>4. \A i \in Items : onHand'[i] - adjusted'[i] + sold'[i] = onHand[i] - adjusted[i] + sold[i]
    BY <1>1 DEF Checkout
  <2> QED
    BY <1>0, <2>1, <2>2, <2>3, <2>4, SalesByOrder
<1>2. ASSUME NEW S, CancelIfPending(S), UNCHANGED <<line, onHand, sold, adjusted>>
      PROVE  StockMatchesSales'
  BY <1>2, SalesFrame DEF CancelIfPending, Confirmed
<1>3. ASSUME UNCHANGED <<order, line, onHand, sold, adjusted>> PROVE StockMatchesSales'
  BY <1>3, SalesFrame DEF Confirmed
<1>4. ASSUME NEW s \in Sweepers, SweepNext(s) PROVE StockMatchesSales'
  BY <1>2, <1>3, <1>4 DEF SweepNext, StartSweep, SweepOrder, FindStale, CancelStale,
                          SweepFails, orderVars, stockVars
<1>5. ASSUME NEW o \in Orders, ConfirmOrder(o) PROVE StockMatchesSales'
  <2>1. \A p \in Orders \ {o} : line'[p] = line[p] /\ (Confirmed(p)' <=> Confirmed(p))
    BY <1>5 DEF ConfirmOrder, Confirmed, TypeOK
  <2>2. \A i \in Items : /\ i \in PendingItems(o) => sold'[i] = sold[i] + line[o][i]
                         /\ i \notin PendingItems(o) => sold'[i] = sold[i]
                         /\ onHand'[i] - adjusted'[i] + sold'[i] = onHand[i] - adjusted[i] + sold[i]
                         /\ sold[i] \in Int /\ line[o][i] \in Nat /\ line'[o][i] = line[o][i]
    BY <1>5 DEF ConfirmOrder, TypeOK
  <2>3. CASE order[o] = "PENDING_PAYMENT"
    <3>1. ~Confirmed(o) /\ Confirmed(o)'
      BY <1>5, <2>3 DEF ConfirmOrder, Confirmed, TypeOK
    <3>2. \A i \in Items : i \notin PendingItems(o) => line[o][i] = 0
      BY <2>2, <2>3, PendingAwaitsPayment DEF OrdersInv, PendingItems
    <3> QED
      BY <1>0, <2>1, <2>2, <3>1, <3>2, SalesByOrder
  <2>4. CASE order[o] # "PENDING_PAYMENT"
    <3>1. Confirmed(o)' <=> Confirmed(o)
      BY <1>5, <2>4 DEF ConfirmOrder, Confirmed
    <3>2. PendingItems(o) = {}
      BY <2>2, <2>4, PendingAwaitsPayment DEF OrdersInv, PendingItems
    <3> QED
      BY <1>0, <2>1, <2>2, <3>1, <3>2, SalesByOrder
  <2> QED
    BY <2>3, <2>4
<1>6. ASSUME NEW o \in Orders, FlagStockLost(o) PROVE StockMatchesSales'
  <2>1. \A p \in Orders : Confirmed(p)' <=> Confirmed(p)
    BY <1>6 DEF FlagStockLost, Confirmed, TypeOK
  <2> QED
    BY <1>6, <2>1, SalesFrame DEF FlagStockLost, stockVars
<1>7. ASSUME NEW e \in Events, WebhookNext(e) PROVE StockMatchesSales'
  <2>1. e[1] \in Orders
    BY DEF Events
  <2>2. \/ ConfirmOrder(e[1])
        \/ FlagStockLost(e[1])
        \/ CancelIfPending({e[1]}) /\ UNCHANGED <<line, onHand, sold, adjusted>>
        \/ UNCHANGED <<order, line, onHand, sold, adjusted>>
    BY <1>7 DEF WebhookNext, Claim, Process, HandlerFails, Redeliver, FailPayment,
                AlreadySettled, RecordPaymentMethod, orderVars, stockVars
  <2> QED
    BY <1>2, <1>3, <1>5, <1>6, <2>1, <2>2
<1>8. ASSUME NEW o \in Orders, Lapse(o) \/ StripeNext(o) \/ SendConfirmation(o) \/ DieBeforeMail(o)
      PROVE  UNCHANGED <<order, line, onHand, sold, adjusted>>
  BY <1>8 DEF Lapse, StripeNext, Charge, Decline, CancelIntent, OtherEvent, SendConfirmation,
              DieBeforeMail, orderVars, stockVars
<1>9. ASSUME NEW i \in Items, NEW d \in Deltas, AdjustStock(i, d) PROVE StockMatchesSales'
  <2>1. d \in Int
    BY DeltasAssumption
  <2>2. \A j \in Items : /\ sold'[j] = sold[j]
                         /\ onHand'[j] - adjusted'[j] = onHand[j] - adjusted[j]
                         /\ onHand[j] \in Int /\ adjusted[j] \in Int /\ sold[j] \in Int
                         /\ onHand'[j] \in Int /\ adjusted'[j] \in Int
                         /\ InitialOnHand[j] \in Int
    <3>1. \A j \in Items : /\ onHand'[j] = IF j = i THEN onHand[j] + d ELSE onHand[j]
                           /\ adjusted'[j] = IF j = i THEN adjusted[j] + d ELSE adjusted[j]
                           /\ sold'[j] = sold[j]
      BY <1>9, <2>1 DEF AdjustStock, TypeOK
    <3>2. \A j \in Items : /\ onHand[j] \in Int /\ adjusted[j] \in Int /\ sold[j] \in Int
                           /\ InitialOnHand[j] \in Int
      BY InitialOnHandAssumption DEF TypeOK
    <3> HIDE DEF TypeOK
    <3> QED
      BY <2>1, <3>1, <3>2
  <2>3. UNCHANGED <<order, line>>
    BY <1>9 DEF AdjustStock, orderVars
  <2>4. ConfirmedOrders' = ConfirmedOrders /\ \A j \in Items : Quantity(j)' = Quantity(j)
    BY <2>3 DEF ConfirmedOrders, Confirmed, Quantity
  <2>5. \A j \in Items : sold'[j] = Cardinality(Units(ConfirmedOrders', Quantity(j)'))
    BY <2>2, <2>4 DEF StockMatchesSales
  <2>6. \A j \in Items : onHand'[j] = InitialOnHand[j] + adjusted'[j] - sold'[j]
    BY <2>2 DEF StockMatchesSales
  <2> QED
    BY <2>5, <2>6 DEF StockMatchesSales, Units
<1>10. CASE UNCHANGED vars
  BY <1>10, <1>3 DEF vars, orderVars, stockVars
<1> QED
  BY <1>1, <1>3, <1>4, <1>7, <1>8, <1>9, <1>10 DEF Next

-----------------------------------------------------------------------------
(* Checkout never oversells, as long as adjustments only add stock          *)

LEMMA NoOversellStep ==
  ASSUME Deltas \subseteq Nat, TypeOK, ReservedMatchesPending', NoOversell, [Next]_vars
  PROVE  NoOversell'
<1>1. \A i \in Items : 0 <= reserved'[i]
  <2>1. SUFFICES ASSUME NEW i \in Items PROVE reserved'[i] \in Nat
    OBVIOUS
  <2> DEFINE T == HoldingOrders(i)'
             r == Quantity(i)'
  <2>2. T \in SUBSET Orders
    BY DEF HoldingOrders
  <2>3. reserved'[i] = Cardinality(Units(T, r))
    BY DEF ReservedMatchesPending, Units
  <2> HIDE DEF T, r
  <2> QED
    BY <2>2, <2>3, UnitsFinite
<1> SUFFICES ASSUME NEW i \in Items PROVE reserved'[i] <= onHand'[i]
  BY <1>1 DEF NoOversell
<1>2. /\ reserved[i] \in Int /\ onHand[i] \in Int /\ reserved[i] <= onHand[i]
      /\ \A o \in Orders : line[o][i] \in Nat
  BY DEF TypeOK, NoOversell
<1>3. ASSUME NEW o \in Orders, NEW lines \in [Items -> 0..MaxQty], NEW mto \in BOOLEAN,
             Checkout(o, lines, mto)
      PROVE  reserved'[i] <= onHand'[i]
  BY <1>2, <1>3 DEF Checkout, Available
<1>4. ASSUME NEW o \in Orders, NEW S, Release(o, S), UNCHANGED onHand
      PROVE  reserved'[i] <= onHand'[i]
  BY <1>2, <1>4 DEF Release
<1>5. ASSUME UNCHANGED <<onHand, reserved>> PROVE reserved'[i] <= onHand'[i]
  BY <1>2, <1>5
<1>6. ASSUME NEW s \in Sweepers, SweepNext(s) PROVE reserved'[i] <= onHand'[i]
  BY <1>4, <1>5, <1>6 DEF SweepNext, StartSweep, SweepOrder, FindStale, CancelStale,
                          SweepFails, stockVars
<1>7. ASSUME NEW e \in Events, WebhookNext(e) PROVE reserved'[i] <= onHand'[i]
  <2>1. e[1] \in Orders
    BY DEF Events
  <2>2. CASE ConfirmOrder(e[1])
    BY <1>2, <2>1, <2>2 DEF ConfirmOrder
  <2>3. \/ ConfirmOrder(e[1])
        \/ Release(e[1], PendingItems(e[1])) /\ UNCHANGED onHand
        \/ UNCHANGED <<onHand, reserved>>
    BY <1>7 DEF WebhookNext, Claim, Process, HandlerFails, Redeliver, FailPayment,
                FlagStockLost, AlreadySettled, RecordPaymentMethod, stockVars
  <2> QED
    BY <1>4, <1>5, <2>1, <2>2, <2>3
<1>8. ASSUME NEW o \in Orders, Lapse(o) \/ StripeNext(o) \/ SendConfirmation(o) \/ DieBeforeMail(o)
      PROVE  UNCHANGED <<onHand, reserved>>
  BY <1>8 DEF Lapse, StripeNext, Charge, Decline, CancelIntent, OtherEvent, SendConfirmation,
              DieBeforeMail, stockVars
<1>9. ASSUME NEW j \in Items, NEW d \in Deltas, AdjustStock(j, d)
      PROVE  reserved'[i] <= onHand'[i]
  <2>1. d \in Nat /\ reserved'[i] = reserved[i]
        /\ onHand'[i] = IF i = j THEN onHand[i] + d ELSE onHand[i]
    BY <1>9 DEF AdjustStock, TypeOK
  <2> QED
    BY <1>2, <2>1
<1>10. CASE UNCHANGED vars
  BY <1>5, <1>10 DEF vars, stockVars
<1> QED
  BY <1>3, <1>5, <1>6, <1>7, <1>8, <1>9, <1>10 DEF Next

LEMMA NoOversellInit == Init => NoOversell
BY InitialOnHandAssumption DEF Init, NoOversell

-----------------------------------------------------------------------------
(* The order graph and the confirmation e-mail                              *)

LEMMA EdgesStep ==
  ASSUME TypeOK, OrdersInv, [Next]_vars, NEW o \in Orders, order'[o] # order[o]
  PROVE  <<order[o], order'[o]>> \in OrderEdges
<1> USE DEF OrderEdges
<1>1. ASSUME NEW p \in Orders, NEW lines \in [Items -> 0..MaxQty], NEW mto \in BOOLEAN,
             Checkout(p, lines, mto)
      PROVE  <<order[o], order'[o]>> \in OrderEdges
  BY <1>1 DEF Checkout, TypeOK
<1>2. ASSUME NEW S, CancelIfPending(S) PROVE <<order[o], order'[o]>> \in OrderEdges
  BY <1>2 DEF CancelIfPending
<1>3. ASSUME NEW s \in Sweepers, SweepNext(s) PROVE <<order[o], order'[o]>> \in OrderEdges
  BY <1>2, <1>3 DEF SweepNext, StartSweep, SweepOrder, FindStale, CancelStale,
                    SweepFails, orderVars
<1>4. ASSUME NEW p \in Orders, ConfirmOrder(p) PROVE <<order[o], order'[o]>> \in OrderEdges
  BY <1>4 DEF ConfirmOrder, TypeOK
<1>5. ASSUME NEW p \in Orders, FlagStockLost(p) PROVE <<order[o], order'[o]>> \in OrderEdges
  BY <1>5 DEF FlagStockLost, TypeOK
<1>6. ASSUME NEW e \in Events, WebhookNext(e) PROVE <<order[o], order'[o]>> \in OrderEdges
  <2>1. e[1] \in Orders
    BY DEF Events
  <2>2. \/ ConfirmOrder(e[1]) \/ FlagStockLost(e[1])
        \/ CancelIfPending({e[1]}) \/ UNCHANGED order
    BY <1>6 DEF WebhookNext, Claim, Process, HandlerFails, Redeliver, FailPayment,
                AlreadySettled, RecordPaymentMethod, orderVars
  <2> QED
    BY <1>2, <1>4, <1>5, <2>1, <2>2
<1>7. ASSUME NEW p \in Orders, Lapse(p) \/ StripeNext(p) \/ SendConfirmation(p) \/ DieBeforeMail(p)
      PROVE  UNCHANGED order
  BY <1>7 DEF Lapse, StripeNext, Charge, Decline, CancelIntent, OtherEvent, SendConfirmation,
              DieBeforeMail, orderVars
<1>8. ASSUME NEW i \in Items, NEW d \in Deltas, AdjustStock(i, d) PROVE UNCHANGED order
  BY <1>8 DEF AdjustStock, orderVars
<1> QED
  BY <1>1, <1>3, <1>6, <1>7, <1>8 DEF Next, vars, orderVars

\* A confirmed order stays confirmed.
LEMMA ConfirmedStays ==
  ASSUME TypeOK, OrdersInv, [Next]_vars, NEW o \in Orders, Confirmed(o)
  PROVE  Confirmed(o)'
<1>1. order'[o] = order[o] \/ <<order[o], order'[o]>> \in OrderEdges
  BY EdgesStep
<1> QED
  BY <1>1 DEF Confirmed, OrderEdges

LEMMA MailInit == Init => ConfirmationMailOnce
BY DEF Init, ConfirmationMailOnce

LEMMA MailStep ==
  TypeOK /\ OrdersInv /\ ConfirmationMailOnce /\ [Next]_vars => ConfirmationMailOnce'
<1> SUFFICES ASSUME TypeOK, OrdersInv, ConfirmationMailOnce, [Next]_vars, NEW o \in Orders
             PROVE  /\ mailCalls'[o] + (IF o \in mailDue' THEN 1 ELSE 0) <= 1
                    /\ mailCalls'[o] = 1 \/ o \in mailDue' => Confirmed(o)'
  BY DEF ConfirmationMailOnce
<1>0. /\ mailCalls[o] \in Nat
      /\ mailCalls[o] + (IF o \in mailDue THEN 1 ELSE 0) <= 1
      /\ mailCalls[o] = 1 \/ o \in mailDue => Confirmed(o)
      /\ Confirmed(o) => Confirmed(o)'
  BY ConfirmedStays DEF ConfirmationMailOnce, TypeOK
<1>1. CASE mailCalls'[o] = mailCalls[o] /\ (o \in mailDue' => o \in mailDue)
  BY <1>0, <1>1
<1>2. CASE o \in mailDue /\ o \notin mailDue' /\ mailCalls'[o] = mailCalls[o] + 1
  BY <1>0, <1>2
<1>3. ASSUME NEW p \in Orders, ConfirmOrder(p)
      PROVE  \/ mailCalls'[o] = mailCalls[o] /\ (o \in mailDue' => o \in mailDue)
             \/ ~Confirmed(o) /\ Confirmed(o)' /\ mailCalls'[o] = mailCalls[o]
  BY <1>3 DEF ConfirmOrder, Confirmed, TypeOK
<1>4. CASE ~Confirmed(o) /\ Confirmed(o)' /\ mailCalls'[o] = mailCalls[o]
  BY <1>0, <1>4
<1>5. ASSUME NEW e \in Events, WebhookNext(e)
      PROVE  ConfirmOrder(e[1]) \/ UNCHANGED mailVars
  BY <1>5 DEF WebhookNext, Claim, Process, HandlerFails, Redeliver, FailPayment,
              FlagStockLost, AlreadySettled, RecordPaymentMethod, mailVars
<1>6. ASSUME NEW s \in Sweepers, SweepNext(s) PROVE UNCHANGED mailVars
  BY <1>6 DEF SweepNext, StartSweep, SweepOrder, FindStale, CancelStale, SweepFails, mailVars
<1>7. ASSUME NEW p \in Orders, Lapse(p) \/ StripeNext(p) PROVE UNCHANGED mailVars
  BY <1>7 DEF Lapse, StripeNext, Charge, Decline, CancelIntent, OtherEvent, mailVars
<1>8. ASSUME NEW p \in Orders, SendConfirmation(p) \/ DieBeforeMail(p)
      PROVE  \/ mailCalls'[o] = mailCalls[o] /\ (o \in mailDue' => o \in mailDue)
             \/ o \in mailDue /\ o \notin mailDue' /\ mailCalls'[o] = mailCalls[o] + 1
  BY <1>8 DEF SendConfirmation, DieBeforeMail, TypeOK
<1>9. ASSUME NEW p \in Orders, NEW lines \in [Items -> 0..MaxQty], NEW mto \in BOOLEAN,
             Checkout(p, lines, mto)
      PROVE  UNCHANGED mailVars
  BY <1>9 DEF Checkout
<1>10. ASSUME NEW i \in Items, NEW d \in Deltas, AdjustStock(i, d) PROVE UNCHANGED mailVars
  BY <1>10 DEF AdjustStock
<1>11. \A e \in Events : e[1] \in Orders
  BY DEF Events
<1> QED
  BY <1>1, <1>2, <1>3, <1>4, <1>5, <1>6, <1>7, <1>8, <1>9, <1>10, <1>11 DEF Next, vars, mailVars

-----------------------------------------------------------------------------
(* The invariants of every behaviour                                        *)

Invariant == TypeOK /\ OrdersInv /\ ReservedMatchesPending /\ StockMatchesSales
               /\ ConfirmationMailOnce

\* The types, the agreement of orders, reservations, payments and sweeps,
\* and the stock counters hold together in every reachable state; each of the
\* theorems below reads one fact off this conjunction.
THEOREM Invariance == Spec => []Invariant
<1>1. Init => Invariant
  BY TypeInit, OrdersInit, ReservedInit, SalesInit, MailInit DEF Invariant
<1>2. Invariant /\ [Next]_vars => Invariant'
  BY TypeStep, OrdersStep, ReservedStep, SalesStep, MailStep DEF Invariant
<1> QED
  BY <1>1, <1>2, PTL DEF Spec

\* InventoryItem.reserved, incremented and decremented by checkout, sweep,
\* webhook and confirmation, is at all times the number of units the PENDING
\* reservation rows hold.
THEOREM ReservedIsExact == Spec => []ReservedMatchesPending
<1>1. Invariant => ReservedMatchesPending
  BY DEF Invariant
<1> QED
  BY <1>1, Invariance, PTL

\* Units leave onHand exactly once per confirmed order, with a movement row
\* each: InventoryItem.onHand can be rebuilt from the movement log.
THEOREM StockIsAccounted == Spec => []StockMatchesSales
<1>1. Invariant => StockMatchesSales
  BY DEF Invariant
<1> QED
  BY <1>1, Invariance, PTL

\* All lines of an order are released or all are consumed, together with the
\* order's status, whichever of sweep and webhook gets there first.
THEOREM ReservationsAreWhole == Spec => []ReservationsFollowOrder
<1>1. Invariant => ReservationsFollowOrder
  BY DEF Invariant, OrdersInv
<1> QED
  BY <1>1, Invariance, PTL

\* For orders with tracked stock a PAID payment and a settled order go
\* together, and only for a customer Stripe has charged.
THEOREM PaidOrdersAreSettled == Spec => []MoneyAndOrderAgree
<1>1. Invariant => MoneyAndOrderAgree
  BY DEF Invariant, OrdersInv
<1> QED
  BY <1>1, Invariance, PTL

\* The confirmation e-mail is triggered at most once per order, and only for
\* a confirmed one.
THEOREM MailOnce == Spec => []ConfirmationMailOnce
<1>1. Invariant => ConfirmationMailOnce
  BY DEF Invariant
<1> QED
  BY <1>1, Invariance, PTL

\* Checkout never promises a unit that is not on the shelf, however checkouts,
\* sweeps and webhooks interleave, when admins only ever add stock.
THEOREM NeverOversold ==
  ASSUME Deltas \subseteq Nat
  PROVE  Spec => []NoOversell
<1>1. Invariant /\ Invariant' /\ NoOversell /\ [Next]_vars => NoOversell'
  BY NoOversellStep DEF Invariant
<1> QED
  BY <1>1, NoOversellInit, Invariance, PTL DEF Spec

\* Order.status follows the documented graph: a settled order is never
\* canceled or reopened, and a canceled one only ever becomes STOCK_LOST.
THEOREM EdgesOnly == Spec => OrderMovesAlongEdges
<1>1. Invariant /\ [Next]_vars
        => [\A o \in Orders : order'[o] # order[o] => <<order[o], order'[o]>> \in OrderEdges]_vars
  BY EdgesStep DEF Invariant
<1> QED
  BY <1>1, Invariance, PTL DEF Spec, OrderMovesAlongEdges

-----------------------------------------------------------------------------
(* What happens to a charge                                                *)

\* Stripe reports what happened to an intent, a payment ends the way Stripe
\* reported, and an event that is processed leaves no payment PENDING.
ReportsInv ==
  \A o \in Orders :
    /\ Somewhere(o, "canceled", WebhookStates \ {"unsent"}) => intent[o] = "canceled"
    /\ payment[o] = "CANCELED" => intent[o] = "canceled"
    /\ payment[o] = "FAILED" => Somewhere(o, "failed", {"processed"})
    /\ payment[o] = "NONE" => intent[o] = "none" /\ \A e \in Events : e[1] = o => webhook[e] = "unsent"
    /\ intent[o] = "succeeded" /\ "succeeded" \in EventKinds[o] => ~Somewhere(o, "succeeded", {"unsent"})
    /\ Somewhere(o, "succeeded", {"processed"}) => payment[o] # "PENDING"

LEMMA ReportsInit == Init => ReportsInv
BY DEF Init, ReportsInv, Somewhere, WebhookStates, Events

LEMMA ReportsCheckout ==
  ASSUME TypeOK, OrdersInv, ReportsInv, NEW o \in Orders, NEW lines \in [Items -> 0..MaxQty],
         NEW mto \in BOOLEAN, Checkout(o, lines, mto)
  PROVE  ReportsInv'
<1>1. /\ payment[o] = "NONE" /\ UNCHANGED webhook
      /\ payment' = [payment EXCEPT ![o] = "PENDING"] /\ intent' = [intent EXCEPT ![o] = "open"]
  BY DEF Checkout, OrdersInv, NothingBeforeCheckout
<1>2. \A e \in Events : e[1] = o => webhook[e] = "unsent"
  BY <1>1 DEF ReportsInv
<1>3. \A kind \in Outcomes : ~Somewhere(o, kind, WebhookStates \ {"unsent"}) /\ ~Somewhere(o, kind, {"processed"})
  BY <1>2 DEF Somewhere
<1>4. \A p \in Orders : p # o => payment'[p] = payment[p] /\ intent'[p] = intent[p]
  BY <1>1 DEF TypeOK
<1>5. payment'[o] = "PENDING" /\ intent'[o] = "open"
  BY <1>1 DEF TypeOK
<1>6. \A p, kind, states : Somewhere(p, kind, states)' <=> Somewhere(p, kind, states)
  BY <1>1 DEF Somewhere
<1>7. ~Somewhere(o, "canceled", WebhookStates \ {"unsent"})' /\ ~Somewhere(o, "succeeded", {"processed"})'
  BY <1>3, <1>6 DEF Outcomes
<1>8. ASSUME NEW p \in Orders, p # o
      PROVE  /\ payment'[p] = payment[p] /\ intent'[p] = intent[p]
             /\ \A e \in Events : webhook'[e] = webhook[e]
  BY <1>1, <1>4, <1>8
<1> QED BY <1>5, <1>6, <1>7, <1>8 DEF ReportsInv

\* Stripe sends events of an order once there is an intent.
LEMMA ReportsStripe ==
  ASSUME TypeOK, OrdersInv, ReportsInv, NEW o \in Orders, StripeNext(o)
  PROVE  ReportsInv'
<1>1. UNCHANGED payment /\ intent[o] # "none" /\ payment[o] # "NONE"
  BY DEF StripeNext, Charge, Decline, CancelIntent, OtherEvent, orderVars, ReportsInv
<1>2. \A p \in Orders : p # o => intent'[p] = intent[p]
  BY DEF StripeNext, Charge, Decline, CancelIntent, OtherEvent, TypeOK
<1>3. \A e \in Events : e[1] # o => webhook'[e] = webhook[e]
  BY DEF StripeNext, Charge, Decline, CancelIntent, OtherEvent, Sent, TypeOK
<1>4. \A e \in Events : webhook'[e] = webhook[e] \/ (webhook[e] = "unsent" /\ webhook'[e] = "sent")
  BY DEF StripeNext, Charge, Decline, CancelIntent, OtherEvent, Sent, TypeOK
<1>5. \A e \in Events : e = <<o, "canceled">> /\ webhook'[e] # webhook[e] => intent'[o] = "canceled"
  BY DEF StripeNext, Charge, Decline, CancelIntent, OtherEvent, Sent, TypeOK
<1>6. intent[o] = "canceled" => intent'[o] = "canceled"
  BY DEF StripeNext, Charge, Decline, CancelIntent, OtherEvent, TypeOK
<1>7. intent'[o] = "succeeded" =>
        \/ intent[o] = "succeeded"
        \/ \A e \in Events : e = <<o, "succeeded">> => webhook'[e] # "unsent"
  BY DEF StripeNext, Charge, Decline, CancelIntent, OtherEvent, Sent, TypeOK
<1> SUFFICES ASSUME NEW p \in Orders
             PROVE  /\ Somewhere(p, "canceled", WebhookStates \ {"unsent"})' => intent'[p] = "canceled"
                    /\ payment'[p] = "CANCELED" => intent'[p] = "canceled"
                    /\ payment'[p] = "FAILED" => Somewhere(p, "failed", {"processed"})'
                    /\ payment'[p] = "NONE" =>
                         intent'[p] = "none" /\ \A e \in Events : e[1] = p => webhook'[e] = "unsent"
                    /\ intent'[p] = "succeeded" /\ "succeeded" \in EventKinds[p]
                         => ~Somewhere(p, "succeeded", {"unsent"})'
                    /\ Somewhere(p, "succeeded", {"processed"})' => payment'[p] # "PENDING"
  BY DEF ReportsInv
<1>8. CASE p # o
  BY <1>1, <1>2, <1>3, <1>8 DEF ReportsInv, Somewhere
<1>9. CASE p = o
  <2>1. Somewhere(o, "canceled", WebhookStates \ {"unsent"})' => intent'[o] = "canceled"
    BY <1>4, <1>5, <1>6 DEF ReportsInv, Somewhere, WebhookStates, TypeOK
  <2>2. payment'[o] = "FAILED" => Somewhere(o, "failed", {"processed"})'
    BY <1>1, <1>4 DEF ReportsInv, Somewhere
  <2>3. intent'[o] = "succeeded" /\ "succeeded" \in EventKinds[o] => ~Somewhere(o, "succeeded", {"unsent"})'
    BY <1>4, <1>7 DEF ReportsInv, Somewhere
  <2>4. Somewhere(o, "succeeded", {"processed"})' => payment'[o] # "PENDING"
    BY <1>1, <1>4 DEF ReportsInv, Somewhere
  <2> QED BY <1>1, <1>6, <1>9, <2>1, <2>2, <2>3, <2>4 DEF ReportsInv
<1> QED BY <1>8, <1>9

LEMMA ReportsWebhook ==
  ASSUME TypeOK, OrdersInv, ReportsInv, NEW e \in Events, WebhookNext(e)
  PROVE  ReportsInv'
<1> DEFINE o == e[1]
<1>1. o \in Orders /\ e = <<o, e[2]>> /\ UNCHANGED intent
      /\ webhook[e] \in WebhookStates \ {"unsent", "processed"}
  BY DEF Events, WebhookStates, WebhookNext, Claim, Process, HandlerFails, Redeliver
<1>2. PICK w \in WebhookStates \ {"unsent"} :
        /\ webhook' = [webhook EXCEPT ![e] = w]
        /\ w = "processed" <=> Process(e)
  BY DEF WebhookStates, WebhookNext, Claim, Process, HandlerFails, Redeliver, Processed
<1>3. \A p \in Orders : p # o => payment'[p] = payment[p]
  BY <1>1 DEF WebhookNext, Claim, Process, HandlerFails, Redeliver, ConfirmOrder, FlagStockLost,
              AlreadySettled, FailPayment, RecordPaymentMethod, orderVars, TypeOK
<1>4. ~Process(e) => UNCHANGED payment
  BY DEF WebhookNext, Claim, HandlerFails, Redeliver, orderVars
<1>5. /\ payment'[o] # "NONE"
      /\ payment'[o] \in {payment[o], "PAID", "FAILED", "CANCELED"}
      /\ payment'[o] = "FAILED" /\ payment[o] # "FAILED" => Process(e) /\ e[2] = "failed"
      /\ payment'[o] = "CANCELED" /\ payment[o] # "CANCELED" => Process(e) /\ e[2] = "canceled"
      /\ Process(e) /\ e[2] = "succeeded" => payment'[o] # "PENDING"
  <2>1. payment[o] # "NONE"
    BY <1>1 DEF ReportsInv
  <2> QED
    BY <1>1, <1>4, <2>1 DEF Process, ConfirmOrder, FlagStockLost, AlreadySettled, FailPayment,
                            RecordPaymentMethod, orderVars, TypeOK
<1>6. payment[o] = "FAILED" => payment'[o] = "FAILED"
  BY <1>1, <1>4 DEF Process, ConfirmOrder, FlagStockLost, AlreadySettled, FailPayment, RecordPaymentMethod,
                    orderVars, TypeOK
<1>7. \A f \in Events : webhook'[f] = IF f = e THEN w ELSE webhook[f]
  BY <1>2 DEF TypeOK
<1>8. payment[o] # "PENDING" => payment'[o] # "PENDING"
  BY <1>5
<1> HIDE DEF o
<1> SUFFICES ASSUME NEW p \in Orders
             PROVE  /\ Somewhere(p, "canceled", WebhookStates \ {"unsent"})' => intent'[p] = "canceled"
                    /\ payment'[p] = "CANCELED" => intent'[p] = "canceled"
                    /\ payment'[p] = "FAILED" => Somewhere(p, "failed", {"processed"})'
                    /\ payment'[p] = "NONE" =>
                         intent'[p] = "none" /\ \A f \in Events : f[1] = p => webhook'[f] = "unsent"
                    /\ intent'[p] = "succeeded" /\ "succeeded" \in EventKinds[p]
                         => ~Somewhere(p, "succeeded", {"unsent"})'
                    /\ Somewhere(p, "succeeded", {"processed"})' => payment'[p] # "PENDING"
  BY DEF ReportsInv
<1>9. CASE p # o
  <2>1. \A f \in Events : f[1] = p => webhook'[f] = webhook[f]
    BY <1>7, <1>9 DEF o
  <2> QED BY <1>1, <1>3, <1>9, <2>1 DEF ReportsInv, Somewhere
<1>10. CASE p = o
  <2>1. Somewhere(o, "canceled", WebhookStates \ {"unsent"})' => intent'[o] = "canceled"
    BY <1>1, <1>7 DEF ReportsInv, Somewhere
  <2>2. payment'[o] = "CANCELED" => intent'[o] = "canceled"
    BY <1>1, <1>5 DEF ReportsInv, Somewhere
  <2>3. payment'[o] = "FAILED" => Somewhere(o, "failed", {"processed"})'
    BY <1>1, <1>2, <1>5, <1>7 DEF ReportsInv, Somewhere
  <2>4. intent'[o] = "succeeded" /\ "succeeded" \in EventKinds[o] => ~Somewhere(o, "succeeded", {"unsent"})'
    BY <1>1, <1>7 DEF ReportsInv, Somewhere
  <2>5. Somewhere(o, "succeeded", {"processed"})' => payment'[o] # "PENDING"
    BY <1>1, <1>2, <1>5, <1>7, <1>8 DEF ReportsInv, Somewhere
  <2> QED BY <1>5, <1>10, <2>1, <2>2, <2>3, <2>4, <2>5
<1> QED BY <1>9, <1>10

LEMMA ReportsStep == TypeOK /\ OrdersInv /\ ReportsInv /\ [Next]_vars => ReportsInv'
<1> SUFFICES ASSUME TypeOK, OrdersInv, ReportsInv, [Next]_vars PROVE ReportsInv'
  OBVIOUS
<1>0. ASSUME UNCHANGED <<payment, intent, webhook>> PROVE ReportsInv'
  BY <1>0 DEF ReportsInv, Somewhere
<1>1. ASSUME NEW o \in Orders, Lapse(o) \/ SendConfirmation(o) \/ DieBeforeMail(o)
      PROVE  ReportsInv'
  BY <1>0, <1>1 DEF Lapse, SendConfirmation, DieBeforeMail, orderVars
<1>2. ASSUME NEW i \in Items, NEW d \in Deltas, AdjustStock(i, d)
      PROVE  ReportsInv'
  BY <1>0, <1>2 DEF AdjustStock, orderVars
<1>3. ASSUME NEW s \in Sweepers, SweepNext(s) PROVE ReportsInv'
  BY <1>0, <1>3 DEF SweepNext, StartSweep, FindStale, CancelStale, SweepFails, SweepOrder, orderVars
<1>4. CASE UNCHANGED vars
  BY <1>0, <1>4 DEF vars, orderVars
<1> QED
  BY <1>1, <1>2, <1>3, <1>4, ReportsCheckout, ReportsStripe, ReportsWebhook DEF Next

\* A customer Stripe has charged ends with a settled order, or the event that
\* says so is still to be handled: a charge is lost only where a handler died
\* or a declined attempt had already failed the payment, and nowhere else.
THEOREM ChargesAreAccountedFor ==
  ASSUME \A o \in Orders : "succeeded" \in EventKinds[o]
  PROVE  Spec => []ChargeAccountedFor
<1>1. TypeOK /\ OrdersInv /\ ReportsInv => ChargeAccountedFor
  <2> SUFFICES ASSUME TypeOK, OrdersInv, ReportsInv, NEW o \in Orders, intent[o] = "succeeded", HasTrackedLine(o),
                      ~Settled(o), ~Somewhere(o, "failed", {"processed"})
               PROVE  \/ Somewhere(o, "succeeded", {"sent", "claimed"})
                      \/ Somewhere(o, "succeeded", {"orphaned", "lost"})
    BY DEF ChargeAccountedFor
  <2> DEFINE e == <<o, "succeeded">>
  <2>1. e \in Events /\ webhook[e] \in WebhookStates \ {"unsent"}
    BY DEF Events, Outcomes, TypeOK, ReportsInv, Somewhere
  <2>2. payment[o] = "PENDING"
    BY DEF TypeOK, PaymentStatus, OrdersInv, MoneyAndOrderAgree, ReportsInv
  <2>3. webhook[e] # "processed"
    BY <2>1, <2>2 DEF ReportsInv, Somewhere
  <2> QED BY <2>1, <2>3 DEF Somewhere, WebhookStates
<1>2. Invariant /\ ReportsInv /\ [Next]_vars => ReportsInv'
  BY ReportsStep DEF Invariant
<1>3. Invariant /\ ReportsInv => ChargeAccountedFor
  BY <1>1 DEF Invariant
<1> QED
  BY <1>2, <1>3, ReportsInit, Invariance, PTL DEF Spec

-----------------------------------------------------------------------------
(* What a sweep gets to                                                    *)

\* What a sweep has not released yet of the orders that were overdue when it
\* began is in its snapshot of reservations.
SnapshotIsFull ==
  /\ \A o \in Orders : overdue[o] => order[o] # "NONE"
  /\ \A s \in Sweepers : \A o \in stale[s] :
       /\ order[o] # "NONE"
       /\ pc[s] = "release" /\ order[o] = "PENDING_PAYMENT" =>
            \A i \in Items : line[o][i] > 0 => <<o, i>> \in batch[s]

\* No step makes an order await payment again, or forgets one.
LEMMA OrderGoesOn ==
  ASSUME TypeOK, [Next]_vars, NEW p \in Orders, order[p] # "NONE"
  PROVE  /\ order'[p] # "NONE" /\ line'[p] = line[p]
         /\ order'[p] = "PENDING_PAYMENT" => order[p] = "PENDING_PAYMENT"
<1>1. ASSUME NEW o \in Orders, NEW lines \in [Items -> 0..MaxQty], NEW mto \in BOOLEAN, Checkout(o, lines, mto)
      PROVE  order'[p] = order[p] /\ line'[p] = line[p]
  BY <1>1 DEF Checkout, TypeOK
<1>2. ASSUME NEW o \in Orders, Lapse(o) \/ StripeNext(o) \/ SendConfirmation(o) \/ DieBeforeMail(o)
      PROVE  UNCHANGED <<order, line>>
  BY <1>2 DEF Lapse, StripeNext, Charge, Decline, CancelIntent, OtherEvent, SendConfirmation, DieBeforeMail, orderVars
<1>3. ASSUME NEW s \in Sweepers, SweepNext(s)
      PROVE  UNCHANGED line /\ order'[p] \in {order[p], "CANCELED"}
  BY <1>3 DEF SweepNext, StartSweep, FindStale, CancelStale, SweepFails, SweepOrder, CancelIfPending, orderVars
<1>4. ASSUME NEW e \in Events, WebhookNext(e)
      PROVE  UNCHANGED line /\ order'[p] \in {order[p], "CANCELED", "CONFIRMED", "IN_PRODUCTION",
                                              "PAYMENT_SUCCEEDED_STOCK_LOST"}
  BY <1>4 DEF WebhookNext, Claim, Process, HandlerFails, Redeliver, ConfirmOrder, FlagStockLost, AlreadySettled,
              FailPayment, CancelIfPending, RecordPaymentMethod, orderVars, TypeOK
<1>5. ASSUME NEW i \in Items, NEW d \in Deltas, AdjustStock(i, d)
      PROVE  UNCHANGED <<order, line>>
  BY <1>5 DEF AdjustStock, orderVars
<1>6. CASE UNCHANGED vars
  BY <1>6 DEF vars, orderVars
<1> QED BY <1>1, <1>2, <1>3, <1>4, <1>5, <1>6 DEF Next

LEMMA SnapshotStep == TypeOK /\ OrdersInv /\ SnapshotIsFull /\ [Next]_vars => SnapshotIsFull'
<1> SUFFICES ASSUME TypeOK, OrdersInv, SnapshotIsFull, [Next]_vars PROVE SnapshotIsFull'
  OBVIOUS
<1>1. \A p \in Orders : overdue'[p] => order'[p] # "NONE"
  <2>1. \A p \in Orders : overdue'[p] => overdue[p] \/ order[p] # "NONE"
    BY DEF Next, Checkout, Lapse, StripeNext, Charge, Decline, CancelIntent, OtherEvent, SendConfirmation,
           DieBeforeMail, SweepNext, StartSweep, FindStale, CancelStale, SweepFails, SweepOrder,
           WebhookNext, Claim, Process, HandlerFails, Redeliver, AdjustStock, vars, TypeOK
  <2> QED BY <2>1, OrderGoesOn DEF SnapshotIsFull
<1>2. ASSUME UNCHANGED sweepVars PROVE SnapshotIsFull'
  <2>1. \A s \in Sweepers : \A p \in stale[s] : p \in Orders
    BY DEF TypeOK
  <2> QED BY <1>1, <1>2, <2>1, OrderGoesOn DEF SnapshotIsFull, sweepVars
<1>3. ASSUME NEW s \in Sweepers, StartSweep(s) PROVE SnapshotIsFull'
  <2>1. /\ pc' = [pc EXCEPT ![s] = "release"]
        /\ batch' = [batch EXCEPT ![s] = {r \in Orders \X Items : resv[r[1]][r[2]] = "PENDING" /\ overdue[r[1]]}]
        /\ stale' = [stale EXCEPT ![s] = {o \in Orders : overdue[o]}]
        /\ UNCHANGED <<order, line, resv, overdue>>
    BY <1>3 DEF StartSweep, orderVars
  <2>2. ASSUME NEW o \in stale'[s], order[o] = "PENDING_PAYMENT", NEW i \in Items, line[o][i] > 0
        PROVE  <<o, i>> \in batch'[s]
    BY <2>1, <2>2, PendingAwaitsPayment DEF TypeOK, OrdersInv
  <2>3. \A o \in stale'[s] : order[o] # "NONE"
    BY <2>1 DEF SnapshotIsFull, TypeOK
  <2> QED BY <1>1, <2>1, <2>2, <2>3 DEF SnapshotIsFull, TypeOK
<1>4. ASSUME NEW s \in Sweepers, NEW o \in Orders, SweepOrder(s, o) PROVE SnapshotIsFull'
  <2>1. /\ order' = [p \in Orders |-> IF p = o /\ order[p] = "PENDING_PAYMENT" THEN "CANCELED" ELSE order[p]]
        /\ batch' = [batch EXCEPT ![s] = @ \ {r \in batch[s] : r[1] = o}]
        /\ UNCHANGED <<line, pc, stale>>
    BY <1>4 DEF SweepOrder, CancelIfPending
  <2>2. \A t \in Sweepers : \A r \in batch[t] : r[1] # o => r \in batch'[t]
    BY <2>1 DEF TypeOK
  <2>3. \A t \in Sweepers : \A p \in stale[t] : p \in Orders
    BY DEF TypeOK
  <2>4. order'[o] # "PENDING_PAYMENT"
    BY <2>1
  <2> QED BY <1>1, <2>1, <2>2, <2>3, <2>4 DEF SnapshotIsFull
<1>5. ASSUME NEW s \in Sweepers, FindStale(s) \/ CancelStale(s) \/ SweepFails(s) PROVE SnapshotIsFull'
  <2>1. /\ pc'[s] # "release" /\ stale'[s] \subseteq stale[s]
        /\ \A t \in Sweepers \ {s} : pc'[t] = pc[t] /\ stale'[t] = stale[t] /\ batch'[t] = batch[t]
    BY <1>5 DEF FindStale, CancelStale, SweepFails, TypeOK
  <2>2. \A t \in Sweepers : \A p \in stale[t] : p \in Orders
    BY DEF TypeOK
  <2> QED BY <1>1, <2>1, <2>2, OrderGoesOn DEF SnapshotIsFull
<1>6. ASSUME NEW o \in Orders, Lapse(o) \/ StripeNext(o) \/ SendConfirmation(o) \/ DieBeforeMail(o)
      PROVE  SnapshotIsFull'
  BY <1>2, <1>6 DEF Lapse, StripeNext, Charge, Decline, CancelIntent, OtherEvent, SendConfirmation, DieBeforeMail
<1>7. ASSUME NEW e \in Events, WebhookNext(e) PROVE SnapshotIsFull'
  BY <1>2, <1>7 DEF WebhookNext, Claim, Process, HandlerFails, Redeliver
<1> QED
  BY <1>2, <1>3, <1>4, <1>5, <1>6, <1>7 DEF Next, Checkout, SweepNext, AdjustStock, vars

\* A sweep that does not fail on the way passes over no overdue order: what
\* its first branch did not release, because the order has no reservation,
\* its second one finds (releaseExpiredReservations).
THEOREM SweepsAreThorough == Spec => NoneIsPassedOver
<1>1. TypeOK /\ OrdersInv /\ SnapshotIsFull /\ [Next]_vars
        => [\A s \in Sweepers : FindStale(s) =>
              \A o \in stale[s] : order[o] = "PENDING_PAYMENT" => o \in stale'[s]]_vars
  <2> SUFFICES ASSUME TypeOK, OrdersInv, SnapshotIsFull, NEW s \in Sweepers, FindStale(s),
                      NEW o \in stale[s], order[o] = "PENDING_PAYMENT"
               PROVE  o \in stale'[s]
    OBVIOUS
  <2>1. o \in Orders /\ pc[s] = "release" /\ batch[s] = {}
    BY DEF FindStale, TypeOK
  <2>2. \A i \in Items : ~(line[o][i] > 0)
    BY <2>1 DEF SnapshotIsFull
  <2>3. \A i \in Items : resv[o][i] = "NONE"
    BY <2>1, <2>2 DEF OrdersInv, ReservationsFollowOrder, TypeOK
  <2> QED BY <2>1, <2>3 DEF FindStale, TypeOK
<1>2. Init => SnapshotIsFull
  BY DEF Init, SnapshotIsFull
<1>3. Invariant /\ SnapshotIsFull /\ [Next]_vars => SnapshotIsFull'
  BY SnapshotStep DEF Invariant
<1>4. Invariant => TypeOK /\ OrdersInv
  BY DEF Invariant
<1> QED
  BY <1>1, <1>2, <1>3, <1>4, Invariance, PTL DEF Spec, NoneIsPassedOver

-----------------------------------------------------------------------------
(* OrderStock implements StockPromise                                      *)

\* The abstract variables, as StockPromise sees them here.
FreeUnits == [i \in Items |-> onHand[i] - reserved[i]]
OrderPhases == [o \in Orders |-> PhaseOf(o)]

LEMMA PromiseInit == Init => Promise!Init
<1> SUFFICES ASSUME Init PROVE Promise!Init
  OBVIOUS
<1>1. FreeUnits = InitialOnHand
  BY InitialOnHandAssumption DEF Init, FreeUnits
<1>2. OrderPhases = [o \in Orders |-> "none"]
  BY DEF Init, OrderPhases, PhaseOf, Confirmed
<1> QED
  BY <1>1, <1>2 DEF Init, Promise!Init, FreeUnits, OrderPhases

LEMMA PromiseStutter ==
  UNCHANGED <<order, line, onHand, reserved, adjusted>> => UNCHANGED Promise!vars
BY DEF Promise!vars, PhaseOf, Confirmed

\* The phase of an order depends on its own status only.
LEMMA PhaseFrame ==
  ASSUME NEW S, \A o \in Orders \ S : order'[o] = order[o]
  PROVE  \A o \in Orders \ S : PhaseOf(o)' = PhaseOf(o)
BY DEF PhaseOf, Confirmed

LEMMA PromiseCheckout ==
  ASSUME TypeOK, NEW o \in Orders, NEW lines \in [Items -> 0..MaxQty],
         NEW mto \in BOOLEAN, Checkout(o, lines, mto)
  PROVE  Promise!Hold(o, lines)
<1>1. /\ order[o] = "NONE" /\ Available(lines)
      /\ order' = [order EXCEPT ![o] = "PENDING_PAYMENT"]
      /\ line' = [line EXCEPT ![o] = lines]
      /\ reserved' = [i \in Items |-> reserved[i] + lines[i]]
      /\ UNCHANGED <<onHand, adjusted>>
  BY DEF Checkout
<1>2. PhaseOf(o) = "none" /\ PhaseOf(o)' = "holding"
  BY <1>1 DEF PhaseOf, Confirmed, TypeOK
<1>3. \A p \in Orders \ {o} : PhaseOf(p)' = PhaseOf(p)
  <2>1. \A p \in Orders \ {o} : order'[p] = order[p]
    BY <1>1 DEF TypeOK
  <2> QED
    BY <2>1, PhaseFrame
<1>4. OrderPhases' = [OrderPhases EXCEPT ![o] = "holding"] /\ OrderPhases[o] = "none"
  BY <1>2, <1>3 DEF OrderPhases
<1>5. \A i \in Items : onHand[i] \in Int /\ reserved[i] \in Int /\ lines[i] \in Int
  BY DEF TypeOK
<1>6. FreeUnits' = [i \in Items |-> FreeUnits[i] - lines[i]]
  BY <1>1, <1>5 DEF FreeUnits
<1>7. \A i \in Items : lines[i] > 0 => lines[i] <= FreeUnits[i]
  BY <1>1, <1>5 DEF Available, FreeUnits
<1> QED
  BY <1>1, <1>4, <1>6, <1>7 DEF Promise!Hold, FreeUnits, OrderPhases

\* A release by the sweep or by a failed payment frees all lines of an order
\* that awaits payment, and nothing of another.
LEMMA PromiseRelease ==
  ASSUME TypeOK, ReservationsFollowOrder, NEW o \in Orders, NEW S \in SUBSET PendingItems(o),
         \A i \in PendingItems(o) : i \in S, Release(o, S), CancelIfPending({o}),
         UNCHANGED <<line, onHand, adjusted>>
  PROVE  Promise!Free({o}) \/ UNCHANGED Promise!vars
<1>0. \A i \in Items : /\ onHand[i] \in Int /\ reserved[i] \in Int /\ line[o][i] \in Nat
                       /\ i \in S <=> line[o][i] > 0 /\ order[o] = "PENDING_PAYMENT"
  BY PendingAwaitsPayment DEF TypeOK, PendingItems
<1>1. CASE order[o] = "PENDING_PAYMENT"
  <2>1. FreeUnits' = [i \in Items |-> FreeUnits[i] + line[o][i]]
    <3>1. \A i \in Items : reserved'[i] = reserved[i] - line[o][i]
      BY <1>0, <1>1 DEF Release
    <3> QED
      BY <1>0, <3>1 DEF FreeUnits
  <2>2. PhaseOf(o) = "holding" /\ PhaseOf(o)' = "freed"
    BY <1>1 DEF PhaseOf, Confirmed, CancelIfPending
  <2>3. \A p \in Orders \ {o} : PhaseOf(p)' = PhaseOf(p)
    <3>1. \A p \in Orders \ {o} : order'[p] = order[p]
      BY DEF CancelIfPending
    <3> QED
      BY <3>1, PhaseFrame
  <2>4. OrderPhases' = [p \in Orders |-> IF p \in {o} THEN "freed" ELSE OrderPhases[p]]
    BY <2>2, <2>3 DEF OrderPhases
  <2>5. \A p \in {o} : OrderPhases[p] = "holding"
    BY <2>2 DEF OrderPhases
  <2> QED
    BY <2>1, <2>4, <2>5 DEF Promise!Free, FreeUnits, OrderPhases
<1>2. CASE order[o] # "PENDING_PAYMENT"
  <2>1. order' = order
    BY <1>2 DEF CancelIfPending, TypeOK
  <2>2. reserved' = reserved
    BY <1>0, <1>2 DEF Release, TypeOK
  <2> QED
    BY <2>1, <2>2, PromiseStutter
<1> QED
  BY <1>1, <1>2

LEMMA PromiseSweep ==
  ASSUME TypeOK, OrdersInv, NEW s \in Sweepers, SweepNext(s)
  PROVE  (\E S \in SUBSET Orders : Promise!Free(S)) \/ UNCHANGED Promise!vars
<1>1. CASE StartSweep(s) \/ FindStale(s) \/ SweepFails(s)
  BY <1>1, PromiseStutter DEF StartSweep, FindStale, SweepFails, orderVars, stockVars
<1>2. ASSUME NEW o \in Orders, SweepOrder(s, o)
      PROVE  (\E S \in SUBSET Orders : Promise!Free(S)) \/ UNCHANGED Promise!vars
  <2> DEFINE mine == {r \in batch[s] : r[1] = o}
             S == {i \in PendingItems(o) : <<o, i>> \in mine}
  <2>1. /\ mine # {} /\ Release(o, S) /\ CancelIfPending({o})
        /\ UNCHANGED <<line, onHand, adjusted>>
    BY <1>2 DEF SweepOrder
  <2>2. PICK r \in batch[s] : r[1] = o
    BY <2>1
  <2>3. \A i \in Items : line[o][i] > 0 => <<o, i>> \in batch[s]
    BY <2>2 DEF OrdersInv, BatchIsWhole
  <2>4. \A i \in PendingItems(o) : line[o][i] > 0
    BY PendingAwaitsPayment DEF OrdersInv, PendingItems
  <2>5. \A i \in PendingItems(o) : i \in S
    BY <2>3, <2>4 DEF PendingItems
  <2>6. S \in SUBSET PendingItems(o)
    OBVIOUS
  <2> HIDE DEF S, mine
  <2>7. Promise!Free({o}) \/ UNCHANGED Promise!vars
    BY <2>1, <2>5, <2>6, PromiseRelease DEF OrdersInv
  <2> QED
    BY <2>7
<1>3. CASE CancelStale(s)
  <2>0. PICK S \in SUBSET Orders : S = {o \in stale[s] : order[o] = "PENDING_PAYMENT"}
    BY DEF TypeOK
  <2>1. /\ pc[s] = "stale" /\ CancelIfPending(stale[s])
        /\ UNCHANGED <<line, onHand, reserved, adjusted>>
    BY <1>3 DEF CancelStale, stockVars
  <2>3. \A o \in S, i \in Items : line[o][i] = 0
    BY <2>0, <2>1 DEF OrdersInv, StaleIsUntracked
  <2>4. \A o \in S : PhaseOf(o) = "holding" /\ PhaseOf(o)' = "freed"
    BY <2>0, <2>1 DEF PhaseOf, Confirmed, CancelIfPending
  <2>5. \A o \in Orders \ S : PhaseOf(o)' = PhaseOf(o)
    <3>1. \A o \in Orders \ S : order'[o] = order[o]
      BY <2>0, <2>1 DEF CancelIfPending
    <3> QED
      BY <3>1, PhaseFrame
  <2>6. OrderPhases' = [o \in Orders |-> IF o \in S THEN "freed" ELSE OrderPhases[o]]
    BY <2>4, <2>5 DEF OrderPhases
  <2>7. \A o \in S : OrderPhases[o] = "holding"
    BY <2>4 DEF OrderPhases
  <2>8. CASE S = {}
    <3>1. order' = order
      BY <2>1, <2>0, <2>8 DEF CancelIfPending, TypeOK
    <3> QED
      BY <2>1, <3>1, PromiseStutter
  <2>9. CASE S # {}
    <3>1. Promise!Free(S)
      BY <2>1, <2>3, <2>6, <2>7, <2>9 DEF Promise!Free, OrderPhases
    <3> QED
      BY <3>1
  <2> QED
    BY <2>8, <2>9
<1> QED
  BY <1>1, <1>2, <1>3 DEF SweepNext

LEMMA PromiseConfirm ==
  ASSUME TypeOK, ReservationsFollowOrder, NEW o \in Orders, ConfirmOrder(o)
  PROVE  Promise!Sell(o) \/ UNCHANGED Promise!vars
<1>1. \A i \in Items : onHand[i] \in Int /\ reserved[i] \in Int /\ line[o][i] \in Int
  BY DEF TypeOK
<1>2. UNCHANGED <<line, adjusted>>
  BY DEF ConfirmOrder
<1>3. FreeUnits' = FreeUnits
  <2>1. \A i \in Items : onHand'[i] - reserved'[i] = onHand[i] - reserved[i]
    BY <1>1 DEF ConfirmOrder
  <2> QED
    BY <2>1 DEF FreeUnits
<1>4. CASE order[o] = "PENDING_PAYMENT"
  <2>1. PICK st \in {"IN_PRODUCTION", "CONFIRMED"} : order' = [order EXCEPT ![o] = st]
    BY <1>4 DEF ConfirmOrder
  <2>2. PhaseOf(o) = "holding" /\ PhaseOf(o)' = "sold"
    BY <1>4, <2>1 DEF PhaseOf, Confirmed, TypeOK
  <2>3. \A p \in Orders \ {o} : PhaseOf(p)' = PhaseOf(p)
    <3>1. \A p \in Orders \ {o} : order'[p] = order[p]
      BY <2>1 DEF TypeOK
    <3> QED
      BY <3>1, PhaseFrame
  <2>4. OrderPhases' = [OrderPhases EXCEPT ![o] = "sold"] /\ OrderPhases[o] = "holding"
    BY <2>2, <2>3 DEF OrderPhases
  <2> QED
    BY <1>2, <1>3, <2>4 DEF Promise!Sell, OrderPhases, FreeUnits
<1>5. CASE order[o] # "PENDING_PAYMENT"
  <2>1. order' = order
    BY <1>5 DEF ConfirmOrder
  <2>2. OrderPhases' = OrderPhases
    BY <2>1 DEF OrderPhases, PhaseOf, Confirmed
  <2> QED
    BY <1>2, <1>3, <2>2 DEF Promise!vars, OrderPhases, FreeUnits
<1> QED
  BY <1>4, <1>5

LEMMA PromiseFlag ==
  ASSUME TypeOK, ReservationsFollowOrder, NEW o \in Orders, FlagStockLost(o)
  PROVE  Promise!Owe(o) \/ UNCHANGED Promise!vars
<1>1. UNCHANGED <<line, onHand, reserved, adjusted>>
  BY DEF FlagStockLost, stockVars
<1>2. order[o] # "PENDING_PAYMENT"
  <2>1. PICK i \in Items : resv[o][i] \notin {"NONE", "PENDING"}
    BY DEF FlagStockLost
  <2>2. line[o][i] \in Nat
    BY DEF TypeOK
  <2> QED
    BY <2>1, <2>2 DEF ReservationsFollowOrder, Confirmed
<1>3. CASE order[o] = "CANCELED"
  <2>1. order' = [order EXCEPT ![o] = "PAYMENT_SUCCEEDED_STOCK_LOST"]
    BY <1>3 DEF FlagStockLost
  <2>2. PhaseOf(o) = "freed" /\ PhaseOf(o)' = "owed"
    BY <1>3, <2>1 DEF PhaseOf, Confirmed, TypeOK
  <2>3. \A p \in Orders \ {o} : PhaseOf(p)' = PhaseOf(p)
    <3>1. \A p \in Orders \ {o} : order'[p] = order[p]
      BY <2>1 DEF TypeOK
    <3> QED
      BY <3>1, PhaseFrame
  <2>4. OrderPhases' = [OrderPhases EXCEPT ![o] = "owed"] /\ OrderPhases[o] = "freed"
    BY <2>2, <2>3 DEF OrderPhases
  <2> QED
    BY <1>1, <2>4 DEF Promise!Owe, OrderPhases
<1>4. CASE order[o] # "CANCELED"
  <2>1. order' = order
    BY <1>2, <1>4 DEF FlagStockLost
  <2> QED
    BY <1>1, <2>1, PromiseStutter
<1> QED
  BY <1>3, <1>4

LEMMA PromiseWebhook ==
  ASSUME TypeOK, OrdersInv, NEW e \in Events, WebhookNext(e)
  PROVE  \/ \E o \in Orders : Promise!Sell(o) \/ Promise!Owe(o)
         \/ \E S \in SUBSET Orders : Promise!Free(S)
         \/ UNCHANGED Promise!vars
<1> DEFINE o == e[1]
<1>1. o \in Orders /\ ReservationsFollowOrder
  BY DEF Events, OrdersInv
<1> HIDE DEF o
<1>2. CASE ConfirmOrder(o)
  BY <1>1, <1>2, PromiseConfirm
<1>3. CASE FlagStockLost(o)
  BY <1>1, <1>3, PromiseFlag
<1>4. ASSUME NEW st, FailPayment(o, st)
      PROVE  Promise!Free({o}) \/ UNCHANGED Promise!vars
  <2>1. /\ Release(o, PendingItems(o)) /\ CancelIfPending({o})
        /\ UNCHANGED <<line, onHand, adjusted>>
    BY <1>4 DEF FailPayment
  <2> QED
    BY <1>1, <2>1, PromiseRelease
<1>5. CASE UNCHANGED <<order, line, stockVars>>
  BY <1>5, PromiseStutter DEF stockVars
<1>6. \/ ConfirmOrder(o) \/ FlagStockLost(o) \/ (\E st : FailPayment(o, st))
      \/ UNCHANGED <<order, line, stockVars>>
  BY DEF o, WebhookNext, Claim, Process, HandlerFails, Redeliver, AlreadySettled,
         RecordPaymentMethod, orderVars
<1> QED
  BY <1>1, <1>2, <1>3, <1>4, <1>5, <1>6

LEMMA PromiseAdjust ==
  ASSUME TypeOK, NEW i \in Items, NEW d \in Deltas, AdjustStock(i, d)
  PROVE  Promise!Recount(i)
<1>1. /\ onHand' = [onHand EXCEPT ![i] = @ + d]
      /\ adjusted' = [adjusted EXCEPT ![i] = @ + d]
      /\ UNCHANGED <<order, line, reserved>>
  BY DEF AdjustStock, orderVars
<1>2. d \in Int /\ \A j \in Items : onHand[j] \in Int /\ reserved[j] \in Int /\ adjusted[j] \in Int
  BY DeltasAssumption DEF TypeOK
<1>3. adjusted'[i] = adjusted[i] + d /\ adjusted'[i] \in Int
  BY <1>1, <1>2 DEF TypeOK
<1>4. adjusted' = [adjusted EXCEPT ![i] = adjusted'[i]]
  BY <1>1, <1>3
<1>5. FreeUnits' = [FreeUnits EXCEPT ![i] = @ + adjusted'[i] - adjusted[i]]
  <2>1. onHand'[i] - reserved'[i] = (onHand[i] - reserved[i]) + adjusted'[i] - adjusted[i]
    BY <1>1, <1>2, <1>3 DEF TypeOK
  <2>2. \A j \in Items \ {i} : onHand'[j] - reserved'[j] = onHand[j] - reserved[j]
    BY <1>1 DEF TypeOK
  <2> QED
    BY <2>1, <2>2 DEF FreeUnits
<1>6. OrderPhases' = OrderPhases
  BY <1>1 DEF OrderPhases, PhaseOf, Confirmed
<1> QED
  BY <1>1, <1>3, <1>4, <1>5, <1>6 DEF Promise!Recount, FreeUnits, OrderPhases

LEMMA PromiseStep ==
  ASSUME TypeOK, OrdersInv, [Next]_vars
  PROVE  [Promise!Next]_(Promise!vars)
<1>1. ASSUME NEW o \in Orders, NEW lines \in [Items -> 0..MaxQty], NEW mto \in BOOLEAN,
             Checkout(o, lines, mto)
      PROVE  Promise!Next
  BY <1>1, PromiseCheckout DEF Promise!Next
<1>2. ASSUME NEW o \in Orders, Lapse(o) \/ StripeNext(o) \/ SendConfirmation(o) \/ DieBeforeMail(o)
      PROVE  UNCHANGED Promise!vars
  <2>1. UNCHANGED <<orderVars, stockVars>>
    BY <1>2 DEF Lapse, StripeNext, Charge, Decline, CancelIntent, OtherEvent, SendConfirmation,
                DieBeforeMail
  <2> QED
    BY <2>1, PromiseStutter DEF orderVars, stockVars
<1>3. ASSUME NEW s \in Sweepers, SweepNext(s)
      PROVE  Promise!Next \/ UNCHANGED Promise!vars
  BY <1>3, PromiseSweep DEF Promise!Next
<1>4. ASSUME NEW e \in Events, WebhookNext(e)
      PROVE  Promise!Next \/ UNCHANGED Promise!vars
  BY <1>4, PromiseWebhook DEF Promise!Next
<1>5. ASSUME NEW i \in Items, NEW d \in Deltas, AdjustStock(i, d)
      PROVE  Promise!Next
  BY <1>5, PromiseAdjust DEF Promise!Next
<1>6. CASE UNCHANGED vars
  BY <1>6, PromiseStutter DEF vars, orderVars, stockVars
<1> QED
  BY <1>1, <1>2, <1>3, <1>4, <1>5, <1>6 DEF Next

\* Checkout, sweep, webhook and adjustment together keep the shop's promise
\* about limited stock: an order holds all its units or none, only free units
\* are held, and each held unit is sold or freed once.
THEOREM PromiseKept == Spec => KeepsPromise
<1>1. Init => Promise!Init
  BY PromiseInit
<1>2. Invariant /\ [Next]_vars => [Promise!Next]_(Promise!vars)
  BY PromiseStep DEF Invariant
<1> QED
  BY <1>1, <1>2, Invariance, PTL DEF Spec, KeepsPromise, Promise!Spec
=============================================================================
