-------------------------- MODULE RefundFlowProofs --------------------------
(* Theorems about RefundFlow for every value of its constants. *)
EXTENDS RefundFlow, FiniteSetTheorems, TLAPS

USE CapturedAssumption, AmountsAssumption, OrderedAssumption, AbsentAssumption

-----------------------------------------------------------------------------
(* Sums of amounts                                                         *)

Units(R, a) == {u \in R \X (1..Captured) : u[2] <= a[u[1]]}

LEMMA UnitsFinite ==
  ASSUME NEW R \in SUBSET Refunds, NEW a
  PROVE  IsFiniteSet(Units(R, a)) /\ Cardinality(Units(R, a)) \in Nat
<1>1. IsFiniteSet(R) /\ IsFiniteSet(1..Captured)
  BY RefundsAssumption, FS_Subset, FS_Interval
<1>2. IsFiniteSet(R \X (1..Captured))
  BY <1>1, FS_Product
<1>3. Units(R, a) \in SUBSET (R \X (1..Captured))
  BY DEF Units
<1>4. IsFiniteSet(Units(R, a))
  BY <1>2, <1>3, FS_Subset
<1> QED
  BY <1>4, FS_CardinalityType

\* A refund adds its own amount to a sum it was not part of.
LEMMA UnitsAdd ==
  ASSUME NEW R \in SUBSET Refunds, NEW a \in [Refunds -> Nat], NEW r \in Refunds, r \notin R,
         a[r] <= Captured
  PROVE  Cardinality(Units(R \cup {r}, a)) = Cardinality(Units(R, a)) + a[r]
<1> DEFINE own == {r} \X (1..a[r])
<1>0. a[r] \in Nat
  OBVIOUS
<1>1. IsFiniteSet(own) /\ Cardinality(own) = a[r]
  <2>1. IsFiniteSet({r}) /\ Cardinality({r}) = 1
    BY FS_Singleton
  <2>2. IsFiniteSet(1..a[r]) /\ Cardinality(1..a[r]) = a[r]
    BY <1>0, FS_Interval
  <2>3. IsFiniteSet(own) /\ Cardinality(own) = Cardinality({r}) * Cardinality(1..a[r])
    BY <2>1, <2>2, FS_Product
  <2> QED
    BY <1>0, <2>1, <2>2, <2>3
<1>2. Units(R \cup {r}, a) = Units(R, a) \cup own
  <2>1. ASSUME NEW u \in Units(R \cup {r}, a) PROVE u \in Units(R, a) \cup own
    BY <2>1 DEF Units
  <2>2. ASSUME NEW u \in Units(R, a) \cup own PROVE u \in Units(R \cup {r}, a)
    BY <2>2 DEF Units
  <2> QED
    BY <2>1, <2>2
<1>3. Units(R, a) \cap own = {}
  BY DEF Units
<1>4. Cardinality(Units(R, a) \cap own) = 0
  BY <1>3, FS_EmptySet
<1>5. IsFiniteSet(Units(R, a)) /\ Cardinality(Units(R, a)) \in Nat
  BY UnitsFinite
<1> HIDE DEF own
<1>6. Cardinality(Units(R, a) \cup own)
        = Cardinality(Units(R, a)) + Cardinality(own) - Cardinality(Units(R, a) \cap own)
  BY <1>1, <1>5, FS_Union
<1>7. Cardinality(Units(R \cup {r}, a)) = Cardinality(Units(R, a) \cup own)
  BY <1>2
<1> QED
  BY <1>0, <1>1, <1>4, <1>5, <1>6, <1>7

LEMMA UnitsMonotone ==
  ASSUME NEW R \in SUBSET Refunds, NEW T \in SUBSET Refunds, NEW a, R \subseteq T
  PROVE  Cardinality(Units(R, a)) <= Cardinality(Units(T, a))
<1>1. Units(R, a) \in SUBSET Units(T, a)
  BY DEF Units
<1>2. IsFiniteSet(Units(T, a))
  BY UnitsFinite
<1> QED
  BY <1>1, <1>2, FS_Subset

LEMMA AmountsAreNat == TypeOK => amount \in [Refunds -> Nat]
<1>1. Amounts \cup {0} \subseteq Nat
  BY AmountsAssumption
<1> QED
  BY <1>1 DEF TypeOK

\* Changing the amount of a refund outside the sum does not change the sum.
LEMMA UnitsAgree ==
  ASSUME NEW R, NEW a, NEW b, \A r \in R : a[r] = b[r]
  PROVE  Units(R, a) = Units(R, b)
<1>1. \A u \in R \X (1..Captured) : a[u[1]] = b[u[1]]
  OBVIOUS
<1> QED
  BY <1>1 DEF Units

-----------------------------------------------------------------------------
(* Types, and what a call works on                                         *)

StateInv == TypeOK /\ CallsInv

LEMMA StateInit == Init => StateInv
<1> SUFFICES ASSUME Init PROVE StateInv
  OBVIOUS
<1>1. TypeOK
  BY DEF Init, TypeOK, LocalsOK, PaymentStatus, OrderStatus, Steps, Rows, NoRow
<1>2. CallsInv
  BY DEF Init, CallsInv, Writing
<1> QED
  BY <1>1, <1>2 DEF StateInv

\* The locals of one call change.
LEMMA LocalsStep ==
  ASSUME LocalsOK, NEW c \in Calls, NEW s \in Steps, Goto(c, s),
         UNCHANGED <<req, todo, seen>>,
         \/ UNCHANGED cur
         \/ \E r \in Refunds : cur' = [cur EXCEPT ![c] = r]
  PROVE  LocalsOK'
BY DEF LocalsOK, Goto

LEMMA LocalsReturn ==
  ASSUME LocalsOK, NEW c \in Calls, Return(c)
  PROVE  LocalsOK'
BY DEF LocalsOK, Return, Steps

\* What a call that has returned leaves of CallsInv to show.
LEMMA CallsReturn ==
  ASSUME CallsInv, LocalsOK, NEW c \in Calls, Return(c), UNCHANGED refundVars,
         lock' = IF lock = c THEN NoCall ELSE lock,
         \A k \in Keys : row'[k] # NoRow => row'[k].refund \in WithStatus(RefundStatus)
  PROVE  CallsInv'
BY DEF CallsInv, LocalsOK, Return, WithStatus, RefundStatus, Settled, Writing, refundVars

\* What a call that goes on leaves of CallsInv to show.
LEMMA CallsGoto ==
  ASSUME CallsInv, LocalsOK, NEW c \in Calls, NEW s \in Steps \ (Writing \cup {"idle"}), Goto(c, s),
         pc[c] \notin Writing, UNCHANGED <<status, lock, req, todo>>,
         pc[c] # "idle",
         \A d \in Calls \ {c} : cur'[d] = cur[d],
         s \in {"continue", "call", "succeeded", "failed", "unkey", "pending"}
           => cur'[c] \in WithStatus(RefundStatus),
         s \in {"apply", "finalize"} => cur'[c] \in Settled,
         \A k \in Keys : row'[k] # NoRow => row'[k].refund \in WithStatus(RefundStatus)
  PROVE  CallsInv'
BY DEF CallsInv, LocalsOK, Goto, WithStatus, RefundStatus, Settled, Writing

LEMMA RowsKept ==
  ASSUME CallsInv, NEW k \in Keys, TypeOK, row' = [row EXCEPT ![k] = NoRow]
  PROVE  /\ row' \in [Keys -> Rows]
         /\ \A j \in Keys : row'[j] # NoRow => row'[j].refund \in WithStatus(RefundStatus)
BY DEF CallsInv, TypeOK, Rows, NoRow

LEMMA TablesStep ==
  ASSUME TypeOK, LocalsOK', UNCHANGED <<orderVars, shipVars, refundVars>>,
         stripe' \in [Refunds -> Answers \cup {"none"}], row' \in [Keys -> Rows],
         lock' \in Calls \cup {NoCall}
  PROVE  TypeOK'
BY DEF TypeOK, orderVars, shipVars, refundVars

LEMMA RowsUnchanged ==
  ASSUME StateInv, UNCHANGED row
  PROVE  /\ row' \in [Keys -> Rows]
         /\ \A k \in Keys : row'[k] # NoRow => row'[k].refund \in WithStatus(RefundStatus)
BY DEF StateInv, TypeOK, CallsInv

LEMMA StateReturn ==
  ASSUME StateInv, NEW c \in Calls, Return(c), UNCHANGED <<orderVars, shipVars, refundVars, stripe>>,
         lock' = IF lock = c THEN NoCall ELSE lock,
         row' \in [Keys -> Rows],
         \A k \in Keys : row'[k] # NoRow => row'[k].refund \in WithStatus(RefundStatus)
  PROVE  StateInv'
<1>1. LocalsOK /\ LocalsOK'
  BY LocalsReturn DEF StateInv, TypeOK
<1>2. TypeOK'
  BY <1>1, TablesStep DEF StateInv, TypeOK
<1> QED
  BY <1>1, <1>2, CallsReturn DEF StateInv

LEMMA StateGoto ==
  ASSUME StateInv, NEW c \in Calls, NEW s \in Steps \ (Writing \cup {"idle"}), Goto(c, s),
         pc[c] \notin Writing \cup {"idle"},
         UNCHANGED <<orderVars, shipVars, refundVars, lock, req, todo, seen>>,
         \/ UNCHANGED cur
         \/ \E r \in Refunds : cur' = [cur EXCEPT ![c] = r],
         s \in {"continue", "call", "succeeded", "failed", "unkey", "pending"}
           => cur'[c] \in WithStatus(RefundStatus),
         s \in {"apply", "finalize"} => cur'[c] \in Settled,
         stripe' \in [Refunds -> Answers \cup {"none"}],
         row' \in [Keys -> Rows],
         \A k \in Keys : row'[k] # NoRow => row'[k].refund \in WithStatus(RefundStatus)
  PROVE  StateInv'
<1>1. LocalsOK /\ LocalsOK'
  BY LocalsStep DEF StateInv, TypeOK
<1>2. TypeOK'
  BY <1>1, TablesStep DEF StateInv, TypeOK
<1>3. \A d \in Calls \ {c} : cur'[d] = cur[d]
  BY <1>1 DEF LocalsOK
<1> QED
  BY <1>1, <1>2, <1>3, CallsGoto DEF StateInv, refundVars

\* The steps of a call that look its key's row up, or write it.
LEMMA StateReserveNext ==
  ASSUME StateInv, NEW c \in Calls, ReserveNext(c)
  PROVE  StateInv'
<1> USE DEF StateInv
<1>0. LocalsOK /\ row \in [Keys -> Rows] /\ stripe \in [Refunds -> Answers \cup {"none"}]
  BY DEF TypeOK
<1>1. /\ pc[c] \notin Writing \cup {"idle"} /\ lock # c /\ req[c].key \in Keys
      /\ req[c].amount \in Amounts
  BY DEF ReserveNext, Lookup, Reclaim, Reserve, CannotReserve, Resolve, CallsInv, Writing
<1>2. ASSUME UseRow(c), row[req[c].key].live,
             UNCHANGED <<orderVars, shipVars, refundVars, row, stripe, lock>>
      PROVE  StateInv'
  <2> DEFINE found == row[req[c].key]
  <2>1. CASE found.amount = req[c].amount /\ found.phase = "pending"
    <3>1. found.refund \in WithStatus(RefundStatus)
      BY <1>1, <2>1 DEF CallsInv, NoRow
    <3>2. found.refund \in Refunds
      BY <3>1 DEF WithStatus
    <3>3. cur' = [cur EXCEPT ![c] = found.refund] /\ Goto(c, "continue") /\ UNCHANGED <<req, todo, seen>>
      BY <1>2, <2>1 DEF UseRow
    <3>4. cur'[c] = found.refund
      BY <1>0, <3>3 DEF LocalsOK
    <3> HIDE DEF found
    <3> QED
      BY <1>0, <1>1, <1>2, <3>1, <3>2, <3>3, <3>4, StateGoto, RowsUnchanged DEF Steps, Writing
  <2>2. CASE ~(found.amount = req[c].amount /\ found.phase = "pending")
    <3>1. Return(c)
      BY <1>2, <2>2 DEF UseRow
    <3> QED
      BY <1>1, <1>2, <3>1, StateReturn, RowsUnchanged
  <2> QED
    BY <2>1, <2>2
<1>3. CASE Lookup(c)
  <2>1. CASE Goto(c, "reserve") /\ UNCHANGED <<req, todo, cur, seen>>
    BY <1>0, <1>1, <1>3, <2>1, StateGoto, RowsUnchanged DEF Lookup, Steps, Writing
  <2>2. CASE Goto(c, "reclaim") /\ UNCHANGED <<req, todo, cur, seen>>
    BY <1>0, <1>1, <1>3, <2>2, StateGoto, RowsUnchanged DEF Lookup, Steps, Writing
  <2> QED
    BY <1>2, <1>3, <2>1, <2>2 DEF Lookup
<1>4. CASE Reclaim(c)
  <2>1. row' = [row EXCEPT ![req[c].key] = NoRow]
    BY <1>4 DEF Reclaim
  <2> QED
    BY <1>0, <1>1, <1>4, <2>1, StateGoto, RowsKept DEF Reclaim, Steps, Writing
<1>5. CASE Resolve(c)
  <2>1. CASE row[req[c].key].live
    BY <1>2, <1>5, <2>1 DEF Resolve
  <2>2. CASE ~row[req[c].key].live
    <3>1. row' = [row EXCEPT ![req[c].key] = NoRow] /\ Return(c)
      BY <1>5, <2>2 DEF Resolve
    <3> QED
      BY <1>1, <1>5, <3>1, StateReturn, RowsKept DEF Resolve
  <2> QED
    BY <2>1, <2>2
<1>6. CASE CannotReserve(c)
  <2>1. CASE Return(c)
    BY <1>1, <1>6, <2>1, StateReturn, RowsUnchanged DEF CannotReserve
  <2>2. CASE Goto(c, "resolve") /\ UNCHANGED <<req, todo, cur, seen>>
    BY <1>0, <1>1, <1>6, <2>2, StateGoto, RowsUnchanged DEF CannotReserve, Steps, Writing
  <2> QED
    BY <1>6, <2>1, <2>2 DEF CannotReserve
<1>7. ASSUME NEW r \in Refunds, Reserve(c, r) PROVE StateInv'
  <2>1. TypeOK'
    BY <1>1, <1>7 DEF Reserve, Goto, TypeOK, LocalsOK, Steps, Rows, RefundStatus, orderVars, shipVars
  <2>2. /\ pc'[c] = "continue" /\ cur'[c] = r /\ status'[r] = "PENDING"
        /\ \A d \in Calls \ {c} : pc'[d] = pc[d] /\ cur'[d] = cur[d]
        /\ UNCHANGED <<req, todo, lock>>
    BY <1>7 DEF Reserve, Goto, TypeOK, LocalsOK
  <2>3. \A q \in Refunds : status[q] # "NONE" => status'[q] = status[q]
    BY <1>7 DEF Reserve, TypeOK
  <2>4. /\ WithStatus(RefundStatus) \subseteq WithStatus(RefundStatus)' /\ Settled \subseteq Settled'
        /\ WithStatus({"SUCCEEDED"}) \subseteq WithStatus({"SUCCEEDED"})'
        /\ r \in WithStatus(RefundStatus)'
    BY <2>2, <2>3 DEF WithStatus, Settled, RefundStatus
  <2>5. \A k \in Keys : row'[k] # NoRow => row'[k].refund \in WithStatus(RefundStatus)'
    BY <1>1, <1>7, <2>4 DEF Reserve, TypeOK, CallsInv
  <2>6. CallsInv'
    BY <1>1, <2>2, <2>4, <2>5 DEF CallsInv, Writing
  <2> QED
    BY <2>1, <2>6
<1> QED
  BY <1>3, <1>4, <1>5, <1>6, <1>7 DEF ReserveNext

\* The commit of applyRefundEffects, wherever the call goes next.
LEMMA StateWrite ==
  ASSUME StateInv, NEW c \in Calls, pc[c] \in Writing, WriteEffects(c),
         \/ Goto(c, "reconcile") /\ cur' = [cur EXCEPT ![c] = NoRefund]
         \/ Goto(c, "finalize") /\ UNCHANGED cur
  PROVE  StateInv'
<1> USE DEF StateInv
<1>0. LocalsOK
  BY DEF TypeOK
<1>1. cur[c] \in Settled /\ cur[c] \in Refunds
  BY DEF CallsInv, Settled, WithStatus
<1>2. LocalsOK'
  BY <1>0 DEF LocalsOK, WriteEffects, Goto, Steps
<1>3. /\ payment' \in PaymentStatus /\ order' \in OrderStatus
      /\ returned' \in Nat /\ audited' \in SUBSET Refunds
  BY <1>1 DEF WriteEffects, PaymentStatus, OrderStatus, TypeOK
<1>4. TypeOK'
  BY <1>2, <1>3 DEF TypeOK, WriteEffects, shipVars
<1>5. \A d \in Calls : lock' # d /\ (lock = d <=> d = c)
  BY DEF WriteEffects, CallsInv
<1>6. CallsInv'
  BY <1>0, <1>1, <1>5 DEF CallsInv, LocalsOK, WriteEffects, Goto, Writing, WithStatus, Settled
<1> QED
  BY <1>4, <1>6

\* The steps of continueRefund and of applyRefundEffects on the call's refund.
LEMMA StateContinueNext ==
  ASSUME StateInv, NEW c \in Calls, ContinueNext(c)
  PROVE  StateInv'
<1> USE DEF StateInv
<1>0. LocalsOK /\ row \in [Keys -> Rows] /\ stripe \in [Refunds -> Answers \cup {"none"}]
  BY DEF TypeOK
<1>1. /\ pc[c] # "idle" /\ req[c].key \in Keys /\ cur[c] \in WithStatus(RefundStatus)
      /\ cur[c] \in Refunds
  BY DEF ContinueNext, Continue, StripeThrows, CallStripe, RecordSuccess, RecordFailure, Unkey,
         RecordPending, ApplyRead, ApplyWrite, Finalize, CallsInv, Writing, Settled, WithStatus,
         RefundStatus
<1>2. pc[c] \in Writing <=> lock = c
  BY DEF CallsInv
<1>3. CASE Continue(c)
  <2>1. CASE Return(c)
    BY <1>2, <1>3, <2>1, StateReturn, RowsUnchanged DEF Continue, Writing
  <2>2. CASE status[cur[c]] = "SUCCEEDED" /\ Goto(c, "apply") /\ UNCHANGED <<req, todo, cur, seen>>
    BY <1>0, <1>1, <1>3, <2>2, StateGoto, RowsUnchanged
       DEF Continue, Steps, Writing, Settled, WithStatus
  <2>3. CASE Goto(c, "call") /\ UNCHANGED <<req, todo, cur, seen>>
    BY <1>0, <1>1, <1>3, <2>3, StateGoto, RowsUnchanged DEF Continue, Steps, Writing
  <2> QED
    BY <1>3, <2>1, <2>2, <2>3 DEF Continue
<1>4. ASSUME NEW answer \in Answers, CallStripe(c, answer) PROVE StateInv'
  <2>1. answer \in Steps \ (Writing \cup {"idle", "apply", "finalize"})
    BY AnswersAssumption DEF Steps, Writing
  <2> QED
    BY <1>0, <1>1, <1>4, <2>1, StateGoto, RowsUnchanged DEF CallStripe, Writing
<1>5. CASE StripeThrows(c)
  <2>1. stripe' \in [Refunds -> Answers \cup {"none"}]
    BY <1>0, <1>5 DEF StripeThrows
  <2> QED
    BY <1>0, <1>1, <1>5, <2>1, StateGoto, RowsUnchanged DEF StripeThrows, Steps, Writing
<1>6. ASSUME NEW s \in {"SUCCEEDED", "FAILED"}, SettleRefund(cur[c], s),
             NEW step \in {"apply", "unkey"}, Goto(c, step), pc[c] \in {"succeeded", "failed"},
             UNCHANGED <<orderVars, shipVars, amount, owner, audited, row, stripe, lock, req, todo,
                         cur, seen>>
      PROVE  StateInv'
  <2>1. LocalsOK'
    BY <1>0, <1>6, LocalsStep DEF Steps
  <2>2. status' \in [Refunds -> RefundStatus \cup {"NONE"}]
    BY <1>6 DEF SettleRefund, TypeOK, RefundStatus
  <2>3. TypeOK'
    BY <1>6, <2>1, <2>2 DEF TypeOK, orderVars, shipVars
  <2>4. /\ WithStatus(RefundStatus) \subseteq WithStatus(RefundStatus)' /\ Settled \subseteq Settled'
        /\ WithStatus({"SUCCEEDED"}) \subseteq WithStatus({"SUCCEEDED"})'
        /\ cur[c] \in Settled'
    BY <1>1, <1>6 DEF SettleRefund, WithStatus, Settled, RefundStatus, TypeOK
  <2>5. \A d \in Calls : pc'[d] = IF d = c THEN step ELSE pc[d]
    BY <1>0, <1>6 DEF Goto, LocalsOK
  <2>6. CallsInv'
    BY <1>1, <1>6, <2>4, <2>5 DEF CallsInv, Writing
  <2> QED
    BY <2>3, <2>6
<1>7. CASE RecordSuccess(c)
  BY <1>6, <1>7 DEF RecordSuccess
<1>8. CASE RecordFailure(c)
  BY <1>6, <1>8 DEF RecordFailure
<1>9. CASE Unkey(c)
  BY <1>1, <1>2, <1>9, StateReturn, RowsKept DEF Unkey, Writing
<1>10. CASE RecordPending(c)
  BY <1>2, <1>10, StateReturn, RowsUnchanged DEF RecordPending, Writing
<1>11. CASE Finalize(c)
  <2>1. /\ row' \in [Keys -> Rows]
        /\ \A k \in Keys : row'[k] # NoRow => row'[k].refund \in WithStatus(RefundStatus)
    BY <1>0, <1>1, <1>11 DEF Finalize, Rows, CallsInv
  <2> QED
    BY <1>2, <1>11, <2>1, StateReturn DEF Finalize, Writing
<1>12. CASE ApplyRead(c)
  <2>1. CASE ReadForEffects(c, cur[c]) /\ Goto(c, "applyWrite")
    <3>1. LocalsOK'
      BY <1>0, <1>12, <2>1 DEF ApplyRead, ReadForEffects, Goto, LocalsOK, Steps, FullyRefunded,
                               ShippedStatus
    <3>2. TypeOK'
      BY <1>0, <1>12, <2>1, <3>1, TablesStep DEF ApplyRead, ReadForEffects
    <3>3. CallsInv'
      BY <1>0, <1>12, <2>1 DEF ApplyRead, ReadForEffects, Goto, LocalsOK, CallsInv, Writing, WithStatus,
                               RefundStatus, Settled, refundVars
    <3> QED
      BY <3>2, <3>3
  <2>2. CASE Goto(c, "finalize") /\ UNCHANGED <<lock, seen>>
    <3>1. cur[c] \in Settled
      BY <1>12 DEF ApplyRead, CallsInv, Writing
    <3> QED
      BY <1>0, <1>1, <1>12, <2>2, <3>1, StateGoto, RowsUnchanged
         DEF ApplyRead, Steps, Writing, Settled, WithStatus, refundVars
  <2> QED
    BY <1>12, <2>1, <2>2 DEF ApplyRead
<1>13. CASE ApplyWrite(c)
  <2>1. pc[c] \in Writing /\ WriteEffects(c) /\ Goto(c, "finalize") /\ UNCHANGED cur
    BY <1>13 DEF ApplyWrite, Writing
  <2> QED
    BY <2>1, StateWrite
<1> QED
  BY <1>3, <1>4, <1>5, <1>7, <1>8, <1>9, <1>10, <1>11, <1>12, <1>13 DEF ContinueNext

\* reconcileOutstandingRefunds, refund by refund.
LEMMA StateReconcileNext ==
  ASSUME StateInv, NEW c \in Calls, ReconcileNext(c)
  PROVE  StateInv'
<1> USE DEF StateInv
<1>0. LocalsOK
  BY DEF TypeOK
<1>1. CASE Reconciled(c)
  <2>1. row \in [Keys -> Rows] /\ stripe \in [Refunds -> Answers \cup {"none"}]
    BY DEF TypeOK
  <2> QED
    BY <1>0, <1>1, <2>1, StateGoto, RowsUnchanged DEF Reconciled, Steps, Writing
<1>2. CASE ReconcileWrite(c)
  BY <1>2, StateWrite DEF ReconcileWrite, Writing
<1>3. ASSUME NEW r \in Refunds, ReconcileRead(c, r) PROVE StateInv'
  <2>0. r \in WithStatus({"SUCCEEDED"})
    BY <1>3 DEF ReconcileRead, CallsInv
  <2>1. LocalsOK'
    <3>1. todo' \in [Calls -> SUBSET Refunds] /\ req' \in [Calls -> [key : Keys \cup {NoKey}, amount : Amounts \cup {0}]]
      BY <1>0, <1>3 DEF ReconcileRead, LocalsOK
    <3>2. CASE ReadForEffects(c, r) /\ Goto(c, "reconcileWrite") /\ cur' = [cur EXCEPT ![c] = r]
      BY <1>0, <3>1, <3>2 DEF ReadForEffects, Goto, LocalsOK, Steps, FullyRefunded, ShippedStatus
    <3>3. CASE UNCHANGED <<lock, seen, pc, cur>>
      BY <1>0, <3>1, <3>3 DEF LocalsOK
    <3> QED
      BY <1>3, <3>2, <3>3 DEF ReconcileRead
  <2>2. TypeOK'
    BY <2>1, <1>3, TablesStep DEF ReconcileRead, ReadForEffects, TypeOK
  <2>3. CASE ReadForEffects(c, r) /\ Goto(c, "reconcileWrite") /\ cur' = [cur EXCEPT ![c] = r]
    <3>1. CallsInv'
      BY <1>0, <1>3, <2>0, <2>3 DEF ReconcileRead, ReadForEffects, Goto, LocalsOK, CallsInv, Writing,
                                    WithStatus, RefundStatus, Settled, refundVars
    <3> QED
      BY <2>2, <3>1
  <2>4. CASE UNCHANGED <<lock, seen, pc, cur>>
    <3>1. CallsInv'
      BY <1>0, <1>3, <2>4 DEF ReconcileRead, LocalsOK, CallsInv, Writing, WithStatus, RefundStatus,
                              Settled, refundVars
    <3> QED
      BY <2>2, <3>1
  <2> QED
    BY <1>3, <2>3, <2>4 DEF ReconcileRead
<1> QED
  BY <1>1, <1>2, <1>3 DEF ReconcileNext

LEMMA StateStep == StateInv /\ [Next]_vars => StateInv'
<1> SUFFICES ASSUME StateInv, [Next]_vars PROVE StateInv'
  OBVIOUS
<1>1. ASSUME NEW c \in Calls, NEW k \in Keys, NEW a \in Amounts, Begin(c, k, a)
      PROVE  StateInv'
  BY <1>1 DEF Begin, Goto, StateInv, TypeOK, LocalsOK, CallsInv, Steps, Writing, orderVars, shipVars,
              refundVars, WithStatus, Settled
<1>2. ASSUME NEW c \in Calls, CallNext(c) PROVE StateInv'
  BY <1>2, StateReconcileNext, StateReserveNext, StateContinueNext DEF CallNext
<1>3. ASSUME NEW c \in Calls, Die(c) PROVE StateInv'
  BY <1>3, StateReturn, RowsUnchanged DEF Die
<1>4. ASSUME NEW k \in Keys, ExpireKey(k) PROVE StateInv'
  <2> DEFINE old == row[k]
  <2>a. old \in Rows /\ row \in [Keys -> Rows]
    BY DEF StateInv, TypeOK
  <2>b. row' = [row EXCEPT ![k] = [old EXCEPT !.live = FALSE]] /\ old.live
    BY <1>4 DEF ExpireKey
  <2>c. /\ [old EXCEPT !.live = FALSE] \in Rows
        /\ [old EXCEPT !.live = FALSE].refund = old.refund
    BY <2>a DEF Rows
  <2>0. row' \in [Keys -> Rows]
    <3> HIDE DEF Rows
    <3> QED
      BY <2>a, <2>b, <2>c
  <2>1. TypeOK'
    <3>1. LocalsOK'
      BY <1>4 DEF ExpireKey, callVars, StateInv, TypeOK, LocalsOK
    <3> QED
      BY <1>4, <2>0, <3>1, TablesStep DEF ExpireKey, callVars, StateInv, TypeOK
  <2>2. \A j \in Keys : row'[j].refund = row[j].refund /\ (row'[j] # NoRow => row[j] # NoRow)
    <3>1. old # NoRow
      BY <2>b DEF NoRow
    <3>2. \A j \in Keys \ {k} : row'[j] = row[j]
      BY <2>a, <2>b
    <3>3. row'[k] = [old EXCEPT !.live = FALSE]
      BY <2>a, <2>b
    <3> QED
      BY <2>c, <3>1, <3>2, <3>3
  <2>3. CallsInv'
    BY <1>4, <2>2 DEF ExpireKey, callVars, refundVars, StateInv, CallsInv, WithStatus, Settled
  <2> QED
    BY <2>1, <2>3 DEF StateInv
<1>5. ASSUME Fulfil PROVE StateInv'
  <2>1. /\ order' \in OrderStatus /\ shipments' \in Nat /\ delivered' \in BOOLEAN /\ notices' \in Nat
        /\ UNCHANGED <<payment, returned, taken, refundVars, row, stripe, callVars>>
    <3> USE DEF StateInv, TypeOK, OrderStatus
    <3>1. CASE MarkReadyToShip
      BY <3>1 DEF MarkReadyToShip, shipVars
    <3>2. CASE MarkShipped
      <4>1. notices' \in {notices + 1, notices}
        BY <3>2 DEF MarkShipped, ShipFrom
      <4>2. notices' \in Nat
        BY <4>1
      <4>3. shipments' \in Nat
        BY <3>2 DEF MarkShipped, ShipFrom
      <4>4. /\ order' \in OrderStatus /\ delivered' \in BOOLEAN
            /\ UNCHANGED <<payment, returned, taken, refundVars, row, stripe, callVars>>
        BY <3>2, ZenonT(30) DEF MarkShipped, ShipFrom
      <4> QED
        BY <4>2, <4>3, <4>4, Zenon
    <3>3. CASE MarkDelivered
      BY <3>3 DEF MarkDelivered
    <3> QED
      BY <1>5, <3>1, <3>2, <3>3 DEF Fulfil
  <2> QED
    BY <2>1 DEF StateInv, TypeOK, LocalsOK, CallsInv, WithStatus, Settled, callVars, refundVars
<1>6. ASSUME UNCHANGED vars PROVE StateInv'
  BY <1>6 DEF vars, StateInv, TypeOK, LocalsOK, CallsInv, WithStatus, Settled, callVars, refundVars,
              orderVars, shipVars
<1> QED
  BY <1>1, <1>2, <1>3, <1>4, <1>5, <1>6 DEF Next

\* Every variable keeps its type: every step of every call, resumed, raced or
\* dead, and of fulfilment (AdminOrdersService).
THEOREM TypeCorrect == Spec => []TypeOK
<1>1. StateInv => TypeOK
  BY DEF StateInv
<1> QED
  BY <1>1, StateInit, StateStep, PTL DEF Spec

-----------------------------------------------------------------------------
(* Money, statuses and stock                                               *)

MoneyInv ==
  EffectsInv /\ NeverOverRefunded /\ StatusesConverge /\ RestockedOnce /\ ShippedOnce

LEMMA MoneyInit == Init => MoneyInv
<1> SUFFICES ASSUME Init PROVE MoneyInv
  OBVIOUS
<1>1. \A S \in SUBSET RefundStatus : WithStatus(S) = {}
  BY DEF Init, WithStatus, RefundStatus
<1>2. WithStatus({"PENDING", "SUCCEEDED"}) = {} /\ WithStatus({"SUCCEEDED"}) = {}
  BY <1>1 DEF RefundStatus
<1>3. Minor({}) = 0
  <2>1. Units({}, amount) = {}
    BY DEF Units
  <2>2. Cardinality(Units({}, amount)) = 0
    BY <2>1, FS_EmptySet
  <2> QED
    BY <2>2 DEF Minor, Units
<1>4. ~FullyRefunded /\ NeverOverRefunded
  BY <1>2, <1>3 DEF FullyRefunded, NeverOverRefunded
<1> QED
  BY <1>4 DEF Init, MoneyInv, EffectsInv, StatusesConverge, RestockedOnce, ShippedOnce

\* Steps that touch none of the tables MoneyInv is about, except that a call
\* may let go of the lock.
LEMMA MoneyFrame ==
  ASSUME MoneyInv, UNCHANGED <<orderVars, shipVars, refundVars>>,
         \A d \in Calls : lock' = d => lock = d /\ cur'[d] = cur[d] /\ seen'[d] = seen[d]
  PROVE  MoneyInv'
<1>1. /\ FullyRefunded' <=> FullyRefunded
      /\ NeverOverRefunded' <=> NeverOverRefunded
      /\ Settled' = Settled /\ WithStatus({"SUCCEEDED"})' = WithStatus({"SUCCEEDED"})
  BY DEF FullyRefunded, NeverOverRefunded, Minor, Settled, WithStatus, refundVars
<1>2. UNCHANGED <<audited, payment, order, returned, shipments, notices>>
  BY DEF orderVars, shipVars, refundVars
<1>3. EffectsInv'
  BY <1>1, <1>2 DEF MoneyInv, EffectsInv
<1> QED
  BY <1>1, <1>2, <1>3 DEF MoneyInv, StatusesConverge, RestockedOnce, ShippedOnce

\* A refund is reserved: what is left shrinks by its amount.
LEMMA ReserveSums ==
  ASSUME StateInv, NEW c \in Calls, NEW r \in Refunds, Reserve(c, r)
  PROVE  /\ req[c].amount \in 1..Remaining /\ Remaining \in 0..Captured
         /\ Remaining' = Remaining - req[c].amount
         /\ Minor(WithStatus({"SUCCEEDED"}))' = Minor(WithStatus({"SUCCEEDED"}))
         /\ Minor(WithStatus({"PENDING", "SUCCEEDED"}))' <= Captured
<1> DEFINE live == WithStatus({"PENDING", "SUCCEEDED"})
           done == WithStatus({"SUCCEEDED"})
           asked == req[c].amount
<1>1. status' = [status EXCEPT ![r] = "PENDING"] /\ amount' = [amount EXCEPT ![r] = asked]
      /\ status[r] = "NONE" /\ status \in [Refunds -> RefundStatus \cup {"NONE"}]
      /\ amount \in [Refunds -> Nat]
  BY AmountsAreNat DEF Reserve, StateInv, TypeOK
<1>2. asked \in Nat \ {0}
  BY DEF Reserve, StateInv, CallsInv
<1>3. /\ live' = live \cup {r} /\ r \notin live /\ r \notin done /\ done' = done
      /\ live \in SUBSET Refunds /\ done \in SUBSET Refunds
  BY <1>1 DEF WithStatus
<1>4. \A q \in Refunds \ {r} : amount'[q] = amount[q]
  BY <1>1
<1> HIDE DEF live, done
<1>5. Units(live, amount') = Units(live, amount) /\ Units(done, amount') = Units(done, amount)
  BY <1>3, <1>4, UnitsAgree
<1>6. asked <= Captured - Cardinality(Units(live, amount)) /\ Cardinality(Units(live, amount)) \in Nat
  BY <1>3, UnitsFinite DEF Reserve, Remaining, Minor, Units, live
<1> HIDE DEF asked
<1>7. Cardinality(Units(live', amount')) = Cardinality(Units(live, amount)) + asked
  <2>1. amount' \in [Refunds -> Nat] /\ amount'[r] = asked /\ asked <= Captured
    BY <1>1, <1>2, <1>6
  <2>2. Cardinality(Units(live \cup {r}, amount')) = Cardinality(Units(live, amount')) + amount'[r]
    BY <1>3, <2>1, UnitsAdd
  <2> QED
    BY <1>3, <1>5, <2>1, <2>2
<1>8. /\ Remaining = Captured - Cardinality(Units(live, amount))
      /\ Remaining' = Captured - Cardinality(Units(live', amount'))
      /\ Minor(live)' = Cardinality(Units(live', amount'))
      /\ Minor(done) = Cardinality(Units(done, amount)) /\ Minor(done)' = Cardinality(Units(done', amount'))
  BY DEF Remaining, Minor, Units, live, done
<1>9. /\ asked \in 1..Remaining /\ Remaining \in 0..Captured /\ Remaining' = Remaining - asked
      /\ Minor(live)' <= Captured
  BY <1>2, <1>6, <1>7, <1>8
<1>10. Minor(done)' = Minor(done)
  BY <1>3, <1>5, <1>8
<1> QED
  BY <1>9, <1>10 DEF live, done, asked

LEMMA MoneyReserve ==
  ASSUME StateInv, MoneyInv, NEW c \in Calls, NEW r \in Refunds, Reserve(c, r)
  PROVE  MoneyInv'
<1>1. WithStatus({"SUCCEEDED"})' = WithStatus({"SUCCEEDED"}) /\ Settled' = Settled
  BY DEF Reserve, StateInv, TypeOK, WithStatus, Settled
<1>2. NeverOverRefunded' /\ (FullyRefunded' <=> FullyRefunded)
  BY ReserveSums DEF NeverOverRefunded, FullyRefunded
<1>3. UNCHANGED <<audited, payment, order, returned, shipments, notices, lock, seen>>
      /\ \A d \in Calls \ {c} : cur'[d] = cur[d]
  BY DEF Reserve, orderVars, shipVars, StateInv, TypeOK, LocalsOK
<1>4. lock # c
  BY DEF Reserve, StateInv, CallsInv, Writing
<1>5. EffectsInv'
  BY <1>1, <1>2, <1>3, <1>4 DEF MoneyInv, EffectsInv
<1> QED
  BY <1>1, <1>2, <1>3, <1>5 DEF MoneyInv, StatusesConverge, RestockedOnce, ShippedOnce

\* A refund leaves PENDING: a success adds to the refunded sum, and is at first
\* not applied; a failure frees what it had reserved.
LEMMA MoneySettle ==
  ASSUME StateInv, MoneyInv, NEW c \in Calls, NEW s \in {"SUCCEEDED", "FAILED"},
         pc[c] \in {"succeeded", "failed"}, SettleRefund(cur[c], s),
         UNCHANGED <<orderVars, shipVars, amount, owner, audited, row, stripe, lock, req, todo, cur,
                     seen>>
  PROVE  MoneyInv'
<1> DEFINE live == WithStatus({"PENDING", "SUCCEEDED"})
           done == WithStatus({"SUCCEEDED"})
           q == cur[c]
<1>0. status \in [Refunds -> RefundStatus \cup {"NONE"}]
  BY DEF StateInv, TypeOK
<1>1. UNCHANGED <<audited, payment, order, returned, shipments, notices, lock, seen, cur, amount>>
  BY DEF orderVars, shipVars
<1>2. CASE status[q] # "PENDING"
  <2>1. UNCHANGED <<status, orderVars, shipVars, refundVars, lock, seen, cur>>
    BY <1>2 DEF SettleRefund, refundVars
  <2> QED
    BY <2>1, MoneyFrame
<1>3. CASE status[q] = "PENDING"
  <2>1. status' = [status EXCEPT ![q] = s]
    BY <1>3 DEF SettleRefund
  <2>2. q \in Refunds
    BY DEF StateInv, CallsInv, WithStatus
  <2>3. q \notin Settled /\ q \notin audited /\ q \notin done
    BY <1>3 DEF Settled, WithStatus, MoneyInv, EffectsInv
  <2>4. /\ live' \subseteq live /\ done \subseteq done' /\ done' \subseteq done \cup {q}
        /\ s = "SUCCEEDED" => q \in done'
        /\ s = "FAILED" => done' = done
        /\ Settled \subseteq Settled'
        /\ live \in SUBSET Refunds /\ live' \in SUBSET Refunds
        /\ done \in SUBSET Refunds /\ done' \in SUBSET Refunds
    BY <1>0, <1>3, <2>1, <2>2 DEF WithStatus, Settled, RefundStatus
  <2>5. NeverOverRefunded'
    <3>1. Cardinality(Units(live, amount)) <= Captured
      BY DEF MoneyInv, NeverOverRefunded, Minor, Units
    <3>2. Cardinality(Units(live', amount)) <= Captured
      <4> HIDE DEF live
      <4>1. /\ Cardinality(Units(live, amount)) \in Nat /\ Cardinality(Units(live', amount)) \in Nat
            /\ Cardinality(Units(live', amount)) <= Cardinality(Units(live, amount))
        BY <2>4, UnitsFinite, UnitsMonotone
      <4> QED
        BY <3>1, <4>1
    <3> QED
      BY <1>1, <3>2 DEF NeverOverRefunded, Minor, Units
  <2>6. FullyRefunded => FullyRefunded'
    <3>1. Cardinality(Units(done, amount)) <= Cardinality(Units(done', amount))
      <4> HIDE DEF done
      <4> QED
        BY <2>4, UnitsMonotone
    <3>2. Cardinality(Units(done, amount)) \in Nat /\ Cardinality(Units(done', amount)) \in Nat
      <4> HIDE DEF done
      <4> QED
        BY <2>4, UnitsFinite
    <3>3. /\ FullyRefunded <=> Cardinality(Units(done, amount)) >= Captured
          /\ FullyRefunded' <=> Cardinality(Units(done', amount)) >= Captured
      BY <1>1 DEF FullyRefunded, Minor, Units
    <3> HIDE DEF done
    <3> QED
      BY <3>1, <3>2, <3>3
  <2>7. s = "FAILED" => (FullyRefunded' <=> FullyRefunded)
    BY <1>1, <2>4 DEF FullyRefunded, Minor
  <2>8. \A d \in Calls : lock = d => cur[d] # q
    BY <2>3 DEF StateInv, CallsInv, Writing
  <2> HIDE DEF done, q
  <2>9. EffectsInv'
    <3>1. audited' \subseteq Settled'
      BY <1>1, <2>4 DEF MoneyInv, EffectsInv
    <3>2. ASSUME NEW d \in Calls, lock' = d
          PROVE  /\ cur'[d] \notin audited'
                 /\ seen'[d].full => FullyRefunded'
                 /\ FullyRefunded' /\ ~seen'[d].full =>
                      \E r \in WithStatus({"SUCCEEDED"})' \ audited' : r # cur'[d]
      <4>1. CASE s = "SUCCEEDED"
        BY <1>1, <2>3, <2>4, <2>6, <2>8, <3>2, <4>1 DEF MoneyInv, EffectsInv, done
      <4>2. CASE s = "FAILED"
        BY <1>1, <2>4, <2>7, <3>2, <4>2 DEF MoneyInv, EffectsInv, done
      <4> QED
        BY <4>1, <4>2
    <3> QED
      BY <3>1, <3>2 DEF EffectsInv
  <2>10. StatusesConverge'
    <3>1. CASE s = "SUCCEEDED"
      BY <1>1, <2>3, <2>4, <2>6, <3>1 DEF MoneyInv, StatusesConverge, done
    <3>2. CASE s = "FAILED"
      BY <1>1, <2>4, <2>7, <3>2 DEF MoneyInv, StatusesConverge, done
    <3> QED
      BY <3>1, <3>2
  <2> QED
    BY <1>1, <2>5, <2>6, <2>9, <2>10 DEF MoneyInv, RestockedOnce, ShippedOnce
<1> QED
  BY <1>2, <1>3

LEMMA MoneyRead ==
  ASSUME StateInv, MoneyInv, NEW c \in Calls, NEW r \in Refunds, ReadForEffects(c, r),
         cur'[c] = r, UNCHANGED <<orderVars, shipVars, refundVars>>
  PROVE  MoneyInv'
<1>1. /\ FullyRefunded' <=> FullyRefunded
      /\ NeverOverRefunded' <=> NeverOverRefunded
      /\ Settled' = Settled /\ WithStatus({"SUCCEEDED"})' = WithStatus({"SUCCEEDED"})
  BY DEF FullyRefunded, NeverOverRefunded, Minor, Settled, WithStatus, refundVars
<1>2. UNCHANGED <<audited, payment, order, returned, shipments, notices>>
  BY DEF orderVars, shipVars, refundVars
<1>3. lock' = c /\ r \notin audited /\ (seen'[c].full <=> FullyRefunded)
  BY DEF ReadForEffects, StateInv, TypeOK, LocalsOK
<1>4. EffectsInv'
  BY <1>1, <1>2, <1>3 DEF MoneyInv, EffectsInv
<1> QED
  BY <1>1, <1>2, <1>4 DEF MoneyInv, StatusesConverge, RestockedOnce, ShippedOnce

LEMMA MoneyWrite ==
  ASSUME StateInv, MoneyInv, NEW c \in Calls, pc[c] \in Writing, WriteEffects(c)
  PROVE  MoneyInv'
<1> DEFINE q == cur[c]
           full == seen[c].full
<1>1. lock = c /\ q \in Settled
  BY DEF StateInv, CallsInv
<1>2. /\ q \notin audited /\ (full => FullyRefunded)
      /\ FullyRefunded /\ ~full => \E r \in WithStatus({"SUCCEEDED"}) \ audited : r # q
  BY <1>1 DEF MoneyInv, EffectsInv
<1>3. UNCHANGED <<status, amount, shipments, notices>>
  BY DEF WriteEffects, shipVars
<1>4. /\ FullyRefunded' <=> FullyRefunded
      /\ NeverOverRefunded' <=> NeverOverRefunded
      /\ Settled' = Settled /\ WithStatus({"SUCCEEDED"})' = WithStatus({"SUCCEEDED"})
  BY <1>3 DEF FullyRefunded, NeverOverRefunded, Minor, Settled, WithStatus
<1>5. /\ payment' = IF payment \in {"PAID", "PARTIALLY_REFUNDED"}
                    THEN (IF full THEN "REFUNDED" ELSE "PARTIALLY_REFUNDED") ELSE payment
      /\ order' = IF order # "REFUNDED"
                  THEN (IF full THEN "REFUNDED" ELSE "PARTIALLY_REFUNDED") ELSE order
      /\ audited' = audited \cup {q} /\ lock' = NoCall
      /\ returned' = returned \/ (returned' = returned + Ordered /\ full /\ order # "REFUNDED")
      /\ payment \in PaymentStatus /\ returned \in Nat
  <2>1. /\ audited' = audited \cup {q} /\ lock' = NoCall
        /\ order' = IF order # "REFUNDED"
                    THEN (IF full THEN "REFUNDED" ELSE "PARTIALLY_REFUNDED") ELSE order
    BY DEF WriteEffects
  <2>2. payment' = IF payment \in {"PAID", "PARTIALLY_REFUNDED"}
                   THEN (IF full THEN "REFUNDED" ELSE "PARTIALLY_REFUNDED") ELSE payment
    BY DEF WriteEffects, Eligible
  <2>3. returned' = returned \/ (returned' = returned + Ordered /\ full /\ order # "REFUNDED")
    <3>1. returned' = IF Restocks(c) THEN returned + Ordered ELSE returned
      BY DEF WriteEffects
    <3>2. Restocks(c) => full /\ order # "REFUNDED"
      BY DEF Restocks
    <3>3. returned' = returned \/ (returned' = returned + Ordered /\ Restocks(c))
      BY <3>1
    <3> QED
      BY <3>2, <3>3
  <2>4. payment \in PaymentStatus /\ returned \in Nat
    BY DEF StateInv, TypeOK
  <2> QED
    BY <2>1, <2>2, <2>3, <2>4, Zenon
<1> HIDE DEF q, full
<1>6. EffectsInv'
  BY <1>1, <1>4, <1>5 DEF MoneyInv, EffectsInv
<1>7. StatusesConverge'
  BY <1>2, <1>4, <1>5 DEF MoneyInv, StatusesConverge, PaymentStatus
<1>8. RestockedOnce'
  <2>1. order # "REFUNDED" => returned = 0
    BY <1>5 DEF MoneyInv, RestockedOnce
  <2> QED
    BY <1>2, <1>4, <1>5, <2>1 DEF MoneyInv, RestockedOnce
<1>9. ShippedOnce'
  BY <1>3, <1>5 DEF MoneyInv, ShippedOnce
<1> QED
  BY <1>4, <1>6, <1>7, <1>8, <1>9 DEF MoneyInv

-----------------------------------------------------------------------------
(* Every step                                                              *)

LEMMA MoneyStep == StateInv /\ MoneyInv /\ [Next]_vars => MoneyInv'
<1> SUFFICES ASSUME StateInv, MoneyInv, [Next]_vars PROVE MoneyInv'
  OBVIOUS
<1> DEFINE tables == <<orderVars, shipVars, refundVars>>
<1>a. ASSUME UNCHANGED <<tables, lock, cur, seen>> PROVE MoneyInv'
  BY <1>a, MoneyFrame
\* A call that does not hold the lock changes its own locals only.
<1>b. ASSUME NEW c \in Calls, UNCHANGED <<tables, lock>>, pc[c] \notin Writing,
             \A d \in Calls \ {c} : cur'[d] = cur[d] /\ seen'[d] = seen[d]
      PROVE  MoneyInv'
  <2>1. lock # c
    BY <1>b DEF StateInv, CallsInv
  <2>2. \A d \in Calls : lock' = d => lock = d /\ cur'[d] = cur[d] /\ seen'[d] = seen[d]
    BY <1>b, <2>1
  <2> QED
    BY <1>b, <2>2, MoneyFrame
<1>t. cur \in [Calls -> Refunds \cup {NoRefund}]
      /\ seen \in [Calls -> [full : BOOLEAN, shipped : BOOLEAN]]
  BY DEF StateInv, TypeOK, LocalsOK
<1>r. ASSUME NEW c \in Calls, Return(c)
      PROVE  \A d \in Calls \ {c} : cur'[d] = cur[d] /\ seen'[d] = seen[d]
  BY <1>r, <1>t DEF Return
<1>u. ASSUME NEW c \in Calls, UseRow(c)
      PROVE  \A d \in Calls \ {c} : cur'[d] = cur[d] /\ seen'[d] = seen[d]
  BY <1>u, <1>t, <1>r, Zenon DEF UseRow, Goto
<1>1. ASSUME NEW c \in Calls, NEW k \in Keys, NEW a \in Amounts, Begin(c, k, a) PROVE MoneyInv'
  BY <1>1, <1>a DEF Begin
<1>2. ASSUME NEW c \in Calls, ReconcileNext(c) PROVE MoneyInv'
  <2>1. CASE Reconciled(c)
    BY <2>1, <1>a DEF Reconciled
  <2>2. CASE ReconcileWrite(c)
    BY <2>2, MoneyWrite DEF ReconcileWrite, Writing
  <2>3. ASSUME NEW r \in Refunds, ReconcileRead(c, r) PROVE MoneyInv'
    <3>1. CASE ReadForEffects(c, r) /\ cur' = [cur EXCEPT ![c] = r]
      <4>1. cur'[c] = r
        BY <3>1, <1>t
      <4> QED
        BY <2>3, <3>1, <4>1, MoneyRead DEF ReconcileRead
    <3>2. CASE UNCHANGED <<lock, seen, pc, cur>>
      BY <2>3, <3>2, <1>a DEF ReconcileRead
    <3> QED
      BY <2>3, <3>1, <3>2 DEF ReconcileRead
  <2> QED
    BY <1>2, <2>1, <2>2, <2>3 DEF ReconcileNext
<1>3. ASSUME NEW c \in Calls, ReserveNext(c) PROVE MoneyInv'
  <2>1. CASE Lookup(c)
    <3>1. CASE UseRow(c)
      BY <2>1, <3>1, <1>b, <1>u DEF Lookup, Writing
    <3>2. CASE UNCHANGED <<cur, seen>>
      BY <2>1, <3>2, <1>a DEF Lookup
    <3> QED
      BY <2>1, <3>1, <3>2 DEF Lookup
  <2>2. CASE Reclaim(c)
    BY <2>2, <1>a DEF Reclaim
  <2>3. CASE CannotReserve(c)
    <3>1. CASE Return(c)
      BY <2>3, <3>1, <1>b, <1>r DEF CannotReserve, Writing
    <3>2. CASE UNCHANGED <<cur, seen>>
      BY <2>3, <3>2, <1>a DEF CannotReserve
    <3> QED
      BY <2>3, <3>1, <3>2 DEF CannotReserve
  <2>4. CASE Resolve(c)
    <3>1. UseRow(c) \/ Return(c)
      BY <2>4 DEF Resolve
    <3> QED
      BY <2>4, <3>1, <1>b, <1>u, <1>r DEF Resolve, Writing
  <2>5. ASSUME NEW r \in Refunds, Reserve(c, r) PROVE MoneyInv'
    BY <2>5, MoneyReserve
  <2> QED
    BY <1>3, <2>1, <2>2, <2>3, <2>4, <2>5 DEF ReserveNext
<1>4. ASSUME NEW c \in Calls, ContinueNext(c) PROVE MoneyInv'
  <2>1. CASE Continue(c)
    <3>1. CASE Return(c)
      BY <2>1, <3>1, <1>b, <1>r DEF Continue, Writing
    <3>2. CASE UNCHANGED <<cur, seen>>
      BY <2>1, <3>2, <1>a DEF Continue
    <3> QED
      BY <2>1, <3>1, <3>2 DEF Continue
  <2>2. CASE StripeThrows(c)
    BY <2>2, <1>a DEF StripeThrows
  <2>3. ASSUME NEW answer \in Answers, CallStripe(c, answer) PROVE MoneyInv'
    BY <2>3, <1>a DEF CallStripe
  <2>4. CASE RecordSuccess(c)
    BY <2>4, MoneySettle DEF RecordSuccess
  <2>5. CASE RecordFailure(c)
    BY <2>5, MoneySettle DEF RecordFailure
  <2>6. CASE Unkey(c)
    BY <2>6, <1>b, <1>r DEF Unkey, Writing
  <2>7. CASE RecordPending(c)
    BY <2>7, <1>b, <1>r DEF RecordPending, Writing
  <2>8. CASE ApplyRead(c)
    <3>1. CASE ReadForEffects(c, cur[c])
      <4>1. pc[c] = "apply" /\ cur' = cur
        BY <2>8 DEF ApplyRead
      <4>2. cur[c] \in Refunds
        BY <4>1 DEF StateInv, CallsInv, Settled, WithStatus
      <4> QED
        BY <2>8, <3>1, <4>1, <4>2, MoneyRead DEF ApplyRead
    <3>2. CASE UNCHANGED <<lock, seen>>
      BY <2>8, <3>2, <1>a DEF ApplyRead
    <3> QED
      BY <2>8, <3>1, <3>2 DEF ApplyRead
  <2>9. CASE ApplyWrite(c)
    BY <2>9, MoneyWrite DEF ApplyWrite, Writing
  <2>10. CASE Finalize(c)
    BY <2>10, <1>b, <1>r DEF Finalize, Writing
  <2> QED
    BY <1>4, <2>1, <2>2, <2>3, <2>4, <2>5, <2>6, <2>7, <2>8, <2>9, <2>10 DEF ContinueNext
<1>5. ASSUME NEW c \in Calls, Die(c) PROVE MoneyInv'
  <2>1. \A d \in Calls : lock' = d => lock = d /\ d # c
    BY <1>5, AbsentAssumption DEF Die
  <2>2. \A d \in Calls : lock' = d => lock = d /\ cur'[d] = cur[d] /\ seen'[d] = seen[d]
    BY <1>5, <2>1, <1>r DEF Die
  <2> QED
    BY <1>5, <2>2, MoneyFrame DEF Die
<1>6. ASSUME NEW k \in Keys, ExpireKey(k) PROVE MoneyInv'
  BY <1>6, <1>a DEF ExpireKey, callVars
<1>7. ASSUME Fulfil PROVE MoneyInv'
  <2>1. UNCHANGED <<payment, returned, refundVars, lock, cur, seen>>
    BY <1>7 DEF Fulfil, MarkReadyToShip, MarkShipped, ShipFrom, MarkDelivered, callVars
  <2>2. /\ order \notin {"REFUNDED", "PARTIALLY_REFUNDED"}
        /\ order' \notin {"REFUNDED", "PARTIALLY_REFUNDED"}
    BY <1>7 DEF Fulfil, MarkReadyToShip, MarkShipped, ShipFrom, MarkDelivered
  <2>3. ShippedOnce'
    <3>1. CASE MarkReadyToShip
      BY <3>1 DEF MarkReadyToShip, shipVars, MoneyInv, ShippedOnce
    <3>2. CASE MarkShipped
      <4>1. shipments = 0 /\ notices <= 0 /\ shipments' = 1 /\ order' = "SHIPPED"
        BY <3>2 DEF MarkShipped, ShipFrom, MoneyInv, ShippedOnce
      <4>2. notices' \in {notices + 1, notices} /\ notices \in Nat
        BY <3>2 DEF MarkShipped, ShipFrom, StateInv, TypeOK
      <4> QED
        BY <4>1, <4>2 DEF ShippedOnce
    <3>3. CASE MarkDelivered
      BY <3>3 DEF MarkDelivered, MoneyInv, ShippedOnce
    <3> QED
      BY <1>7, <3>1, <3>2, <3>3 DEF Fulfil
  <2>4. /\ FullyRefunded' <=> FullyRefunded
        /\ NeverOverRefunded' <=> NeverOverRefunded
        /\ Settled' = Settled /\ WithStatus({"SUCCEEDED"})' = WithStatus({"SUCCEEDED"})
    BY <2>1 DEF FullyRefunded, NeverOverRefunded, Minor, Settled, WithStatus, refundVars
  <2>5. audited' = audited
    BY <2>1 DEF refundVars
  <2>6. EffectsInv'
    BY <2>1, <2>4, <2>5 DEF MoneyInv, EffectsInv
  <2>7. StatusesConverge' /\ RestockedOnce'
    BY <2>1, <2>2, <2>4, <2>5 DEF MoneyInv, StatusesConverge, RestockedOnce
  <2> QED
    BY <2>3, <2>4, <2>6, <2>7 DEF MoneyInv
<1>8. ASSUME UNCHANGED vars PROVE MoneyInv'
  BY <1>8, <1>a DEF vars, callVars
<1> QED
  BY <1>1, <1>2, <1>3, <1>4, <1>5, <1>6, <1>7, <1>8 DEF Next, CallNext

LEMMA Invariance == Spec => [](StateInv /\ MoneyInv)
<1>1. Init => StateInv /\ MoneyInv
  BY StateInit, MoneyInit
<1>2. StateInv /\ MoneyInv /\ [Next]_vars => StateInv' /\ MoneyInv'
  BY StateStep, MoneyStep
<1> QED
  BY <1>1, <1>2, PTL DEF Spec

\* Refunds racing for one payment, each calling Stripe outside the lock, never
\* promise more than was captured (the check of the remaining amount in
\* issueRefund's transaction A), whatever the amounts and the calls.
THEOREM MoneyIsBounded == Spec => []NeverOverRefunded
<1>1. MoneyInv => NeverOverRefunded
  BY DEF MoneyInv
<1> QED
  BY <1>1, Invariance, PTL

\* applyRefundEffects restocks an order at most once, and only when the whole
\* payment has been refunded.
THEOREM RestockIsOnce == Spec => []RestockedOnce
<1>1. MoneyInv => RestockedOnce
  BY DEF MoneyInv
<1> QED
  BY <1>1, Invariance, PTL

\* Effects written by calls in any order leave payment and order agreeing,
\* and agreeing with the money (applyRefundEffects under the Payment lock).
THEOREM StatusesAgree == Spec => []StatusesConverge
<1>1. MoneyInv => StatusesConverge
  BY DEF MoneyInv
<1> QED
  BY <1>1, Invariance, PTL

\* markShipped's guarded update gives an order one shipment and one e-mail.
THEOREM ShipsOnce == Spec => []ShippedOnce
<1>1. MoneyInv => ShippedOnce
  BY DEF MoneyInv
<1> QED
  BY <1>1, Invariance, PTL

\* What OutcomesAreFinal says of one step.
Final ==
  /\ \A r \in Refunds : status[r] \in {"SUCCEEDED", "FAILED"} => status'[r] = status[r]
  /\ order = "REFUNDED" => order' = "REFUNDED" /\ UNCHANGED <<payment, shipments, returned>>

LEMMA FinalStep == StateInv /\ MoneyInv /\ [Next]_vars => Final
<1> SUFFICES ASSUME StateInv, MoneyInv, [Next]_vars PROVE Final
  OBVIOUS
<1> DEFINE rest == <<status, orderVars, shipVars>>
<1>a. ASSUME UNCHANGED rest PROVE Final
  BY <1>a DEF Final, orderVars, shipVars
<1>t. status \in [Refunds -> RefundStatus \cup {"NONE"}]
  BY DEF StateInv, TypeOK
<1>s. ASSUME NEW r \in Refunds \cup {NoRefund}, NEW s \in RefundStatus, SettleRefund(r, s),
             UNCHANGED <<orderVars, shipVars>>
      PROVE  Final
  BY <1>s, <1>t DEF SettleRefund, Final, orderVars, shipVars
<1>w. ASSUME NEW c \in Calls, WriteEffects(c) PROVE Final
  <2>1. order = "REFUNDED" => payment = "REFUNDED"
    BY DEF MoneyInv, StatusesConverge
  <2>2. order = "REFUNDED" => order' = "REFUNDED" /\ payment' = payment
    BY <1>w, <2>1 DEF WriteEffects, Eligible
  <2>3. order = "REFUNDED" => returned' = returned
    BY <1>w DEF WriteEffects, Restocks
  <2>4. UNCHANGED <<status, shipments>>
    BY <1>w DEF WriteEffects, shipVars
  <2> QED
    BY <2>2, <2>3, <2>4 DEF Final
<1>1. ASSUME NEW c \in Calls, NEW k \in Keys, NEW a \in Amounts, Begin(c, k, a) PROVE Final
  BY <1>1, <1>a DEF Begin, refundVars
<1>2. ASSUME NEW c \in Calls, ReconcileNext(c) PROVE Final
  BY <1>2, <1>a, <1>w DEF ReconcileNext, Reconciled, ReconcileWrite, ReconcileRead, refundVars
<1>3. ASSUME NEW c \in Calls, ReserveNext(c) PROVE Final
  <2>1. CASE Lookup(c) \/ Reclaim(c) \/ CannotReserve(c) \/ Resolve(c)
    BY <2>1, <1>a DEF Lookup, Reclaim, CannotReserve, Resolve, refundVars
  <2>2. ASSUME NEW r \in Refunds, Reserve(c, r) PROVE Final
    BY <2>2, <1>t DEF Reserve, Final, orderVars, shipVars
  <2> QED
    BY <1>3, <2>1, <2>2 DEF ReserveNext
<1>4. ASSUME NEW c \in Calls, ContinueNext(c) PROVE Final
  <2>c. cur[c] \in Refunds \cup {NoRefund}
    BY DEF StateInv, TypeOK, LocalsOK
  <2>1. CASE \/ Continue(c) \/ StripeThrows(c) \/ \E answer \in Answers : CallStripe(c, answer)
             \/ Unkey(c) \/ RecordPending(c) \/ ApplyRead(c) \/ Finalize(c)
    BY <2>1, <1>a DEF Continue, StripeThrows, CallStripe, Unkey, RecordPending, ApplyRead, Finalize,
                      refundVars
  <2>2. CASE RecordSuccess(c)
    BY <2>2, <2>c, <1>s DEF RecordSuccess, RefundStatus
  <2>3. CASE RecordFailure(c)
    BY <2>3, <2>c, <1>s DEF RecordFailure, RefundStatus
  <2>4. CASE ApplyWrite(c)
    BY <2>4, <1>w DEF ApplyWrite
  <2> QED
    BY <1>4, <2>1, <2>2, <2>3, <2>4 DEF ContinueNext
<1>5. ASSUME NEW c \in Calls, Die(c) PROVE Final
  BY <1>5, <1>a DEF Die, refundVars
<1>6. ASSUME NEW k \in Keys, ExpireKey(k) PROVE Final
  BY <1>6, <1>a DEF ExpireKey, refundVars
<1>7. ASSUME Fulfil PROVE Final
  <2>1. order # "REFUNDED" /\ status' = status
    BY <1>7 DEF Fulfil, MarkReadyToShip, MarkShipped, ShipFrom, MarkDelivered, refundVars
  <2> QED
    BY <2>1 DEF Final
<1>8. ASSUME UNCHANGED vars PROVE Final
  BY <1>8, <1>a DEF vars, refundVars
<1> QED
  BY <1>1, <1>2, <1>3, <1>4, <1>5, <1>6, <1>7, <1>8 DEF Next, CallNext

\* A refund's outcome is never rewritten by an answer that arrives late, and a
\* fully refunded order is never moved on, refunded or restocked again: the
\* guarded updates of continueRefund and applyRefundEffects.
THEOREM OutcomesStay == Spec => OutcomesAreFinal
<1>1. StateInv /\ MoneyInv /\ [Next]_vars
        => [/\ \A r \in Refunds : status[r] \in {"SUCCEEDED", "FAILED"} => status'[r] = status[r]
            /\ order = "REFUNDED" =>
                 order' = "REFUNDED" /\ UNCHANGED <<payment, shipments, returned>>]_vars
  BY FinalStep DEF Final
<1> QED
  BY <1>1, Invariance, PTL DEF Spec, OutcomesAreFinal

-----------------------------------------------------------------------------
(* No confirmed refund is dropped                                          *)

\* A step that leaves the callers that apply refunds alone.
LEMMA PursuitKept ==
  ASSUME SuccessIsPursued, UNCHANGED status, audited \subseteq audited',
         \A d \in Calls : pc[d] \in {"apply", "applyWrite"} =>
           \/ cur'[d] = cur[d] /\ pc'[d] \in {"apply", "applyWrite"}
           \/ cur[d] \in audited'
  PROVE  SuccessIsPursued'
BY DEF SuccessIsPursued

\* A call that goes on, or returns, does not touch the others.
LEMMA OwnLocals ==
  ASSUME LocalsOK, NEW c \in Calls,
         \/ Return(c)
         \/ /\ \E s \in Steps : Goto(c, s)
            /\ UNCHANGED cur \/ \E r \in Refunds \cup {NoRefund} : cur' = [cur EXCEPT ![c] = r]
  PROVE  \A d \in Calls \ {c} : pc'[d] = pc[d] /\ cur'[d] = cur[d]
BY DEF LocalsOK, Return, Goto

LEMMA PursuitStep ==
  ASSUME ~CallsMayDie, StateInv, SuccessIsPursued, [Next]_vars
  PROVE  SuccessIsPursued'
<1>0. LocalsOK
  BY DEF StateInv, TypeOK
<1>1. ASSUME NEW c \in Calls, pc[c] \notin {"apply", "applyWrite"},
             UNCHANGED <<status, audited>>,
             \A d \in Calls \ {c} : pc'[d] = pc[d] /\ cur'[d] = cur[d]
      PROVE  SuccessIsPursued'
  BY <1>1, PursuitKept
<1>2. ASSUME UNCHANGED <<status, audited, pc, cur>> PROVE SuccessIsPursued'
  BY <1>2, PursuitKept
<1>3. ASSUME NEW c \in Calls, NEW k \in Keys, NEW a \in Amounts, Begin(c, k, a)
      PROVE  SuccessIsPursued'
  <2>1. \A d \in Calls \ {c} : pc'[d] = pc[d] /\ cur'[d] = cur[d]
    BY <1>0, <1>3, OwnLocals DEF Begin, Steps
  <2> QED BY <1>1, <1>3, <2>1 DEF Begin, refundVars
<1>4. ASSUME NEW c \in Calls, ReconcileNext(c)
      PROVE  SuccessIsPursued'
  <2>1. pc[c] \in {"reconcile", "reconcileWrite"} /\ UNCHANGED status /\ audited \subseteq audited'
    BY <1>4 DEF ReconcileNext, Reconciled, ReconcileWrite, ReconcileRead, WriteEffects, refundVars
  <2>2. \A d \in Calls \ {c} : pc'[d] = pc[d] /\ cur'[d] = cur[d]
    BY <1>0, <1>4 DEF LocalsOK, ReconcileNext, Reconciled, ReconcileWrite, ReconcileRead, Goto
  <2> QED BY <2>1, <2>2, PursuitKept
<1>5. ASSUME NEW c \in Calls, ReserveNext(c)
      PROVE  SuccessIsPursued'
  <2>1. CASE Lookup(c) \/ Reclaim(c) \/ CannotReserve(c) \/ Resolve(c)
    <3>1. pc[c] \notin {"apply", "applyWrite"} /\ UNCHANGED <<status, audited>>
      BY <2>1 DEF Lookup, Reclaim, CannotReserve, Resolve, refundVars
    <3>2. \A d \in Calls \ {c} : pc'[d] = pc[d] /\ cur'[d] = cur[d]
      BY <1>0, <2>1 DEF LocalsOK, Lookup, Reclaim, CannotReserve, Resolve, UseRow, Goto, Return
    <3> QED BY <1>1, <3>1, <3>2
  <2>2. ASSUME NEW r \in Refunds, Reserve(c, r)
        PROVE  SuccessIsPursued'
    <3>1. \A q \in Refunds : status'[q] = "SUCCEEDED" => status[q] = "SUCCEEDED"
      BY <2>2 DEF Reserve, StateInv, TypeOK
    <3>2. /\ pc[c] = "reserve" /\ UNCHANGED audited
          /\ \A d \in Calls \ {c} : pc'[d] = pc[d] /\ cur'[d] = cur[d]
      BY <1>0, <2>2 DEF Reserve, LocalsOK, Goto
    <3> QED BY <3>1, <3>2 DEF SuccessIsPursued
  <2> QED BY <1>5, <2>1, <2>2 DEF ReserveNext
<1>6. ASSUME NEW c \in Calls, RecordSuccess(c)
      PROVE  SuccessIsPursued'
  <2>1. /\ pc[c] = "succeeded" /\ pc'[c] = "apply" /\ UNCHANGED <<audited, cur>>
        /\ \A d \in Calls \ {c} : pc'[d] = pc[d]
    BY <1>0, <1>6 DEF RecordSuccess, LocalsOK, Goto
  <2>2. \A q \in Refunds : status'[q] = "SUCCEEDED" => status[q] = "SUCCEEDED" \/ q = cur[c]
    BY <1>6 DEF RecordSuccess, SettleRefund, StateInv, TypeOK
  <2> QED BY <2>1, <2>2 DEF SuccessIsPursued
<1>7. ASSUME NEW c \in Calls, RecordFailure(c)
      PROVE  SuccessIsPursued'
  <2>1. /\ pc[c] = "failed" /\ UNCHANGED <<audited, cur>>
        /\ \A d \in Calls \ {c} : pc'[d] = pc[d]
    BY <1>0, <1>7 DEF RecordFailure, LocalsOK, Goto
  <2>2. \A q \in Refunds : status'[q] = "SUCCEEDED" => status[q] = "SUCCEEDED"
    BY <1>7 DEF RecordFailure, SettleRefund, StateInv, TypeOK
  <2> QED BY <2>1, <2>2 DEF SuccessIsPursued
<1>8. ASSUME NEW c \in Calls, ApplyRead(c) \/ ApplyWrite(c)
      PROVE  SuccessIsPursued'
  <2>1. /\ UNCHANGED <<status, cur>> /\ audited \subseteq audited'
        /\ pc'[c] = "applyWrite" \/ cur[c] \in audited'
    BY <1>0, <1>8 DEF ApplyRead, ApplyWrite, WriteEffects, LocalsOK, Goto, refundVars
  <2>2. \A d \in Calls \ {c} : pc'[d] = pc[d]
    BY <1>0, <1>8 DEF ApplyRead, ApplyWrite, LocalsOK, Goto
  <2> QED BY <2>1, <2>2, PursuitKept
<1>9. ASSUME NEW c \in Calls,
             \/ Continue(c) \/ StripeThrows(c) \/ \E answer \in Answers : CallStripe(c, answer)
             \/ Unkey(c) \/ RecordPending(c) \/ Finalize(c)
      PROVE  SuccessIsPursued'
  <2>1. pc[c] \notin {"apply", "applyWrite"} /\ UNCHANGED <<status, audited>>
    BY <1>9 DEF Continue, StripeThrows, CallStripe, Unkey, RecordPending, Finalize, refundVars
  <2>2. \A d \in Calls \ {c} : pc'[d] = pc[d] /\ cur'[d] = cur[d]
    BY <1>0, <1>9 DEF LocalsOK, Continue, StripeThrows, CallStripe, Unkey, RecordPending, Finalize, Goto, Return
  <2> QED BY <1>1, <2>1, <2>2
<1>10. ASSUME NEW c \in Calls, CallNext(c) PROVE SuccessIsPursued'
  BY <1>4, <1>5, <1>6, <1>7, <1>8, <1>9, <1>10 DEF CallNext, ContinueNext
<1>11. ASSUME NEW k \in Keys, ExpireKey(k) PROVE SuccessIsPursued'
  BY <1>2, <1>11 DEF ExpireKey, refundVars, callVars
<1>12. ASSUME Fulfil PROVE SuccessIsPursued'
  BY <1>2, <1>12 DEF Fulfil, MarkReadyToShip, MarkShipped, ShipFrom, MarkDelivered, refundVars, callVars
<1>13. ASSUME UNCHANGED vars PROVE SuccessIsPursued'
  BY <1>2, <1>13 DEF vars, refundVars, callVars
<1> QED
  BY <1>3, <1>10, <1>11, <1>12, <1>13 DEF Next, Die

\* Of a refund Stripe has confirmed, some running call is about to write the
\* effects until they are written, as long as no call dies: continueRefund
\* goes from the durable status to applyRefundEffects without a way out.
THEOREM SuccessIsNotDropped == ASSUME ~CallsMayDie PROVE Spec => []SuccessIsPursued
<1>1. Init => SuccessIsPursued
  BY DEF Init, SuccessIsPursued
<1>2. StateInv /\ SuccessIsPursued /\ [Next]_vars => SuccessIsPursued'
  BY PursuitStep
<1> QED
  BY <1>1, <1>2, Invariance, PTL DEF Spec
-----------------------------------------------------------------------------
(* RefundFlow implements RefundPromise                                     *)

\* No amount exceeds the payment; so a refund is worth what it adds to a sum.
AmountsFit == \A r \in Refunds : amount[r] <= Captured

LEMMA AmountsAreOnlyReserved ==
  ASSUME [Next]_vars, amount' # amount
  PROVE  \E c \in Calls, r \in Refunds : Reserve(c, r)
<1>1. \A c \in Calls : ReconcileNext(c) \/ ContinueNext(c) \/ Die(c) => UNCHANGED amount
  BY Zenon DEF ReconcileNext, Reconciled, ReconcileWrite, ReconcileRead, WriteEffects, ContinueNext, Continue,
     StripeThrows, CallStripe, RecordSuccess, RecordFailure, Unkey, RecordPending, ApplyRead, ApplyWrite, Finalize,
     Die, refundVars
<1>2. \A c \in Calls : Lookup(c) \/ Reclaim(c) \/ CannotReserve(c) \/ Resolve(c) => UNCHANGED amount
  BY DEF Lookup, Reclaim, CannotReserve, Resolve, refundVars
<1>3. \A c \in Calls, k \in Keys, a \in Amounts : Begin(c, k, a) => UNCHANGED amount
  BY DEF Begin, refundVars
<1>4. (\E k \in Keys : ExpireKey(k)) \/ Fulfil \/ UNCHANGED vars => UNCHANGED amount
  BY DEF ExpireKey, Fulfil, MarkReadyToShip, MarkShipped, ShipFrom, MarkDelivered, refundVars, vars
<1> QED
  BY <1>1, <1>2, <1>3, <1>4 DEF Next, CallNext, ReserveNext

LEMMA AmountsFitStep ==
  ASSUME StateInv, AmountsFit, [Next]_vars
  PROVE  AmountsFit'
<1>1. CASE UNCHANGED amount
  BY <1>1 DEF AmountsFit
<1>2. CASE amount' # amount
  <2>1. PICK c \in Calls, r \in Refunds : Reserve(c, r)
    BY <1>2, AmountsAreOnlyReserved
  <2>2. req[c].amount <= Captured
    BY <2>1, ReserveSums
  <2> QED
    BY <2>1, <2>2 DEF Reserve, AmountsFit, StateInv, TypeOK
<1> QED
  BY <1>1, <1>2

\* What is left of the payment, and what went back, when a refund is answered.
LEMMA AnswerSums ==
  ASSUME StateInv, AmountsFit, NEW q \in Refunds, status[q] = "PENDING", UNCHANGED amount,
         NEW s \in {"SUCCEEDED", "FAILED"}, status' = [status EXCEPT ![q] = s]
  PROVE  /\ s = "SUCCEEDED" => /\ Remaining' = Remaining
                               /\ Minor(WithStatus({"SUCCEEDED"}))' = Minor(WithStatus({"SUCCEEDED"})) + amount[q]
         /\ s = "FAILED" => /\ Remaining' = Remaining + amount[q]
                            /\ Minor(WithStatus({"SUCCEEDED"}))' = Minor(WithStatus({"SUCCEEDED"}))
<1> DEFINE live == WithStatus({"PENDING", "SUCCEEDED"})
           done == WithStatus({"SUCCEEDED"})
<1>1. /\ s = "SUCCEEDED" => live' = live /\ done' = done \cup {q}
      /\ s = "FAILED" => live = live' \cup {q} /\ done' = done
      /\ q \notin done /\ (s = "FAILED" => q \notin live')
      /\ live \in SUBSET Refunds /\ live' \in SUBSET Refunds /\ done \in SUBSET Refunds
  BY DEF WithStatus, StateInv, TypeOK
<1>2. /\ Remaining = Captured - Cardinality(Units(live, amount))
      /\ Remaining' = Captured - Cardinality(Units(live', amount))
      /\ Minor(done) = Cardinality(Units(done, amount)) /\ Minor(done)' = Cardinality(Units(done', amount))
  BY DEF Remaining, Minor, Units
<1>3. amount \in [Refunds -> Nat] /\ amount[q] <= Captured
  BY AmountsAreNat DEF StateInv, AmountsFit
<1> HIDE DEF live, done
<1>4. /\ Cardinality(Units(live, amount)) \in Nat /\ Cardinality(Units(live', amount)) \in Nat
  BY <1>1, UnitsFinite
<1>5. CASE s = "SUCCEEDED"
  <2>1. Cardinality(Units(done \cup {q}, amount)) = Cardinality(Units(done, amount)) + amount[q]
    BY <1>1, <1>3, UnitsAdd
  <2> QED
    BY <1>1, <1>2, <1>5, <2>1 DEF done
<1>6. CASE s = "FAILED"
  <2>1. Cardinality(Units(live' \cup {q}, amount)) = Cardinality(Units(live', amount)) + amount[q]
    BY <1>1, <1>3, <1>6, UnitsAdd
  <2>2. Cardinality(Units(live, amount)) = Cardinality(Units(live', amount)) + amount[q]
    BY <1>1, <1>6, <2>1
  <2>3. Remaining' = Remaining + amount[q]
    BY <1>2, <1>3, <1>4, <2>2
  <2> QED
    BY <1>1, <1>2, <1>6, <2>3 DEF done
<1> QED
  BY <1>5, <1>6

\* The sums change with status and amount alone.
LEMMA SumsFrame ==
  ASSUME UNCHANGED <<status, amount>>
  PROVE  Remaining' = Remaining /\ Minor(WithStatus({"SUCCEEDED"}))' = Minor(WithStatus({"SUCCEEDED"}))
BY DEF Remaining, Minor, WithStatus

\* All that went back is the payment: no more ever does.
LEMMA WholeIsFull ==
  ASSUME StateInv, MoneyInv
  PROVE  /\ Promise!Given = WithStatus({"SUCCEEDED"})
         /\ Promise!Whole <=> FullyRefunded
<1> DEFINE live == WithStatus({"PENDING", "SUCCEEDED"})
           done == WithStatus({"SUCCEEDED"})
<1>1. done \subseteq live /\ live \in SUBSET Refunds /\ done \in SUBSET Refunds
  BY DEF WithStatus
<1>2. Promise!Given = done
  BY Zenon DEF Promise!Given, WithStatus
<1>3. Promise!Whole <=> Minor(done) = Captured
  BY Zenon DEF Promise!Whole
<1>4. Minor(live) <= Captured /\ (FullyRefunded <=> Minor(done) >= Captured)
  BY DEF MoneyInv, NeverOverRefunded, FullyRefunded
<1> HIDE DEF live, done
<1>5. Minor(live) \in Nat /\ Minor(done) \in Nat /\ Minor(done) <= Minor(live)
  <2>1. Minor(live) = Cardinality(Units(live, amount)) /\ Minor(done) = Cardinality(Units(done, amount))
    BY DEF Minor, Units
  <2> QED
    BY <1>1, <2>1, UnitsFinite, UnitsMonotone
<1>6. FullyRefunded <=> Minor(done) = Captured
  BY <1>4, <1>5
<1> QED
  BY <1>2, <1>3, <1>6 DEF done

LEMMA PromiseInit == Init => Promise!Init
<1> SUFFICES ASSUME Init PROVE Promise!Init
  OBVIOUS
<1>1. WithStatus({"SUCCEEDED"}) = {} /\ WithStatus({"PENDING", "SUCCEEDED"}) = {}
  BY DEF Init, WithStatus
<1>2. Minor({}) = 0
  <2>1. Units({}, amount) = {}
    BY DEF Units
  <2>2. Cardinality(Units({}, amount)) = 0
    BY <2>1, FS_EmptySet
  <2> QED
    BY <2>2 DEF Minor, Units
<1>3. Minor(WithStatus({"SUCCEEDED"})) = 0 /\ Remaining = Captured
  BY <1>1, <1>2 DEF Remaining
<1> QED
  BY <1>3 DEF Init, Promise!Init

LEMMA PromiseFrame ==
  ASSUME UNCHANGED <<orderVars, shipVars, refundVars>>
  PROVE  UNCHANGED Promise!vars
BY SumsFrame DEF orderVars, shipVars, refundVars, Promise!vars, Promise!orderVars

\* Transaction A grants what is left of the payment.
LEMMA PromiseGrant ==
  ASSUME StateInv, NEW c \in Calls, NEW r \in Refunds, Reserve(c, r)
  PROVE  Promise!Grant(r)
<1> DEFINE asked == req[c].amount
<1>1. /\ status[r] = "NONE" /\ amount' = [amount EXCEPT ![r] = asked]
      /\ status' = [status EXCEPT ![r] = "PENDING"]
      /\ UNCHANGED <<audited, payment, returned, shipments, notices>>
  BY DEF Reserve, orderVars, shipVars
<1>2. asked \in 1..Remaining /\ Remaining' = Remaining - asked
      /\ Minor(WithStatus({"SUCCEEDED"}))' = Minor(WithStatus({"SUCCEEDED"}))
  BY ReserveSums
<1> HIDE DEF asked
<1> QED
  BY <1>1, <1>2 DEF Promise!Grant, Promise!orderVars

\* The first of the answers a refund gets is the one that counts.
LEMMA PromiseAnswer ==
  ASSUME StateInv, AmountsFit, NEW q \in Refunds, NEW s \in {"SUCCEEDED", "FAILED"}, SettleRefund(q, s),
         UNCHANGED <<orderVars, shipVars, amount, audited>>
  PROVE  Promise!Succeed(q) \/ Promise!Fail(q) \/ UNCHANGED Promise!vars
<1>1. UNCHANGED <<amount, audited, payment, returned, shipments, notices>>
  BY DEF orderVars, shipVars
<1>2. CASE status[q] = "PENDING"
  <2>1. status' = [status EXCEPT ![q] = s]
    BY <1>2 DEF SettleRefund
  <2>2. CASE s = "SUCCEEDED"
    BY <1>1, <1>2, <2>1, <2>2, AnswerSums DEF Promise!Succeed, Promise!orderVars
  <2>3. CASE s = "FAILED"
    BY <1>1, <1>2, <2>1, <2>3, AnswerSums DEF Promise!Fail, Promise!orderVars
  <2> QED
    BY <2>2, <2>3
<1>3. CASE status[q] # "PENDING"
  BY <1>1, <1>3, SumsFrame DEF SettleRefund, Promise!vars, Promise!orderVars
<1> QED
  BY <1>2, <1>3

\* What a call has read under the lock may be stale, but then another refund
\* is still to be booked, and that one will see the whole.
LEMMA PromiseBook ==
  ASSUME StateInv, MoneyInv, NEW c \in Calls, pc[c] \in Writing, WriteEffects(c)
  PROVE  \E r \in Refunds : Promise!Book(r)
<1> DEFINE q == cur[c]
           full == seen[c].full
<1>1. lock = c /\ q \in Settled /\ q \in Refunds
  BY DEF StateInv, CallsInv, Settled, WithStatus
<1>2. /\ q \notin audited /\ (full => FullyRefunded)
      /\ FullyRefunded /\ ~full => \E r \in WithStatus({"SUCCEEDED"}) \ audited : r # q
  BY <1>1 DEF MoneyInv, EffectsInv
<1>3. audited' = audited \cup {q} /\ UNCHANGED <<status, amount, shipments, notices>>
  BY DEF WriteEffects, shipVars
<1>4. payment \in PaymentStatus /\ (payment = "REFUNDED" <=> order = "REFUNDED")
  BY DEF StateInv, TypeOK, MoneyInv, StatusesConverge
<1>5. CASE full
  <2>1. payment' = "REFUNDED"
    BY <1>4, <1>5 DEF WriteEffects, Eligible, PaymentStatus
  <2>2. returned' = returned \/ (returned' = returned + Ordered /\ payment # "REFUNDED")
    BY <1>4 DEF WriteEffects, Restocks
  <2>3. Promise!BookWhole
    BY <1>2, <1>5, <2>1, <2>2, WholeIsFull DEF Promise!BookWhole
  <2> HIDE DEF q
  <2> QED
    BY <1>1, <1>2, <1>3, <2>3, SumsFrame DEF Promise!Book, Settled, WithStatus
<1>6. CASE ~full
  <2>1. payment' = IF payment = "REFUNDED" THEN "REFUNDED" ELSE "PARTIALLY_REFUNDED"
    BY <1>4, <1>6 DEF WriteEffects, Eligible, PaymentStatus
  <2>2. returned' = returned
    BY <1>6 DEF WriteEffects, Restocks
  <2>3. FullyRefunded => WithStatus({"SUCCEEDED"}) \ audited' # {}
    BY <1>2, <1>3, <1>6
  <2>4. Promise!BookPart
    BY <2>1, <2>2, <2>3, WholeIsFull DEF Promise!BookPart
  <2> HIDE DEF q
  <2> QED
    BY <1>1, <1>2, <1>3, <2>4, SumsFrame DEF Promise!Book, Settled, WithStatus
<1> QED
  BY <1>5, <1>6

\* An order that still has a status to be shipped from has no booked refund.
LEMMA PromiseFulfil ==
  ASSUME StateInv, MoneyInv, Fulfil
  PROVE  Promise!Ship \/ UNCHANGED Promise!vars
<1>1. CASE MarkReadyToShip
  BY <1>1, SumsFrame DEF MarkReadyToShip, shipVars, refundVars, Promise!vars, Promise!orderVars
<1>2. CASE MarkDelivered
  BY <1>2, SumsFrame DEF MarkDelivered, refundVars, Promise!vars, Promise!orderVars
<1>3. CASE MarkShipped
  <2>1. order = "READY_TO_SHIP" /\ shipments' = shipments + 1 /\ notices' \in {notices + 1, notices}
    BY <1>3 DEF MarkShipped, ShipFrom
  <2>2. UNCHANGED <<status, amount, audited, payment, returned>>
    BY <1>3 DEF MarkShipped, ShipFrom, refundVars
  <2>3. shipments = 0 /\ notices \in Nat /\ notices <= 0
    BY <2>1 DEF MoneyInv, ShippedOnce, StateInv, TypeOK
  <2>4. payment = "PAID"
    BY <2>1 DEF MoneyInv, StatusesConverge, StateInv, TypeOK, PaymentStatus
  <2>5. shipments' = 1 /\ notices' \in {0, 1}
    BY <2>1, <2>3
  <2> QED
    BY <2>2, <2>3, <2>4, <2>5, SumsFrame DEF Promise!Ship
<1> QED
  BY <1>1, <1>2, <1>3 DEF Fulfil

LEMMA PromiseStep ==
  ASSUME StateInv, MoneyInv, AmountsFit, [Next]_vars
  PROVE  [Promise!Next]_(Promise!vars)
<1>1. ASSUME NEW c \in Calls, NEW k \in Keys, NEW a \in Amounts, Begin(c, k, a)
      PROVE  UNCHANGED Promise!vars
  BY <1>1, PromiseFrame DEF Begin
<1>2. ASSUME NEW c \in Calls, ReconcileNext(c)
      PROVE  [Promise!Next]_(Promise!vars)
  <2>1. CASE ReconcileWrite(c)
    BY <2>1, PromiseBook DEF ReconcileWrite, Writing, Promise!Next
  <2>2. CASE Reconciled(c) \/ \E r \in Refunds : ReconcileRead(c, r)
    BY <2>2, PromiseFrame DEF Reconciled, ReconcileRead
  <2> QED
    BY <1>2, <2>1, <2>2 DEF ReconcileNext
<1>3. ASSUME NEW c \in Calls, ReserveNext(c)
      PROVE  [Promise!Next]_(Promise!vars)
  <2>1. CASE Lookup(c) \/ Reclaim(c) \/ CannotReserve(c) \/ Resolve(c)
    BY <2>1, PromiseFrame DEF Lookup, Reclaim, CannotReserve, Resolve
  <2>2. ASSUME NEW r \in Refunds, Reserve(c, r)
        PROVE  Promise!Next
    BY <2>2, PromiseGrant DEF Promise!Next
  <2> QED
    BY <1>3, <2>1, <2>2 DEF ReserveNext
<1>4. ASSUME NEW c \in Calls, ContinueNext(c)
      PROVE  [Promise!Next]_(Promise!vars)
  <2>1. CASE \/ Continue(c) \/ StripeThrows(c) \/ \E answer \in Answers : CallStripe(c, answer)
             \/ Unkey(c) \/ RecordPending(c) \/ ApplyRead(c) \/ Finalize(c)
    BY <2>1, PromiseFrame DEF Continue, StripeThrows, CallStripe, Unkey, RecordPending, ApplyRead, Finalize
  <2>2. CASE RecordSuccess(c) \/ RecordFailure(c)
    <3>1. cur[c] \in Refunds
      BY <2>2 DEF RecordSuccess, RecordFailure, StateInv, CallsInv, WithStatus
    <3>2. Promise!Succeed(cur[c]) \/ Promise!Fail(cur[c]) \/ UNCHANGED Promise!vars
      BY <2>2, <3>1, PromiseAnswer DEF RecordSuccess, RecordFailure
    <3> QED
      BY <3>1, <3>2 DEF Promise!Next
  <2>3. CASE ApplyWrite(c)
    BY <2>3, PromiseBook DEF ApplyWrite, Writing, Promise!Next
  <2> QED
    BY <1>4, <2>1, <2>2, <2>3 DEF ContinueNext
<1>5. ASSUME NEW c \in Calls, Die(c)
      PROVE  UNCHANGED Promise!vars
  BY <1>5, PromiseFrame DEF Die
<1>6. ASSUME NEW k \in Keys, ExpireKey(k)
      PROVE  UNCHANGED Promise!vars
  BY <1>6, PromiseFrame DEF ExpireKey
<1>7. ASSUME Fulfil
      PROVE  [Promise!Next]_(Promise!vars)
  BY <1>7, PromiseFulfil DEF Promise!Next
<1>8. CASE UNCHANGED vars
  BY <1>8, PromiseFrame DEF vars
<1> QED
  BY <1>1, <1>2, <1>3, <1>4, <1>5, <1>6, <1>7, <1>8 DEF Next, CallNext

\* Whatever calls of issueRefund race, resume one another, read stale sums or
\* die, and whenever the order is shipped, refunds are granted, answered and
\* booked in the single steps of RefundPromise.
THEOREM RefundsAreKept == Spec => GivesBackAsPromised
<1>1. Init => Promise!Init /\ AmountsFit
  BY PromiseInit DEF Init, AmountsFit
<1>2. StateInv /\ AmountsFit /\ [Next]_vars => AmountsFit'
  BY AmountsFitStep
<1>3. StateInv /\ MoneyInv /\ AmountsFit /\ [Next]_vars => [Promise!Next]_(Promise!vars)
  BY PromiseStep
<1> QED
  BY <1>1, <1>2, <1>3, Invariance, PTL DEF Spec, GivesBackAsPromised, Promise!Spec
=============================================================================
