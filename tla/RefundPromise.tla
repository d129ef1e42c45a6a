---------------------------- MODULE RefundPromise ----------------------------
(***************************************************************************)
(* What a paid order promises the shop and its customer once refunds are   *)
(* asked for, without calls, locks, keys or crashes: no refund is granted  *)
(* that the payment does not cover, each one that Stripe has answered is   *)
(* booked at most once and in one step, the order counts as refunded as    *)
(* soon as the last part of the whole is booked, stock comes back with     *)
(* that step or never (whether the order's units had been sold or were     *)
(* lost to it), and goods leave once, while nothing is booked.             *)
(*                                                                         *)
(* A refund recorded as failed may be booked as well: that is how an       *)
(* answer of Stripe looks that arrives after another call has given up.    *)
(***************************************************************************)
EXTENDS Integers

CONSTANTS Refunds, Captured, Ordered

VARIABLES
  outcome,    \* where each refund stands
  amount,     \* what each refund asks for
  left,       \* the part of the payment no refund has been granted of
  given,      \* the part that went back
  booked,     \* refunds whose effects the order shows
  standing,   \* what the payment says of itself
  returned,   \* units put back into stock
  parcels,    \* how often the goods left ...
  letters     \* ... and the customer was told

orderVars == <<booked, standing, returned, parcels, letters>>
vars == <<outcome, amount, left, given, orderVars>>

Given == {r \in Refunds : outcome[r] = "SUCCEEDED"}
Whole == given = Captured

Init ==
  /\ outcome = [r \in Refunds |-> "NONE"]
  /\ amount = [r \in Refunds |-> 0]
  /\ left = Captured /\ given = 0
  /\ booked = {} /\ standing = "PAID" /\ returned = 0
  /\ parcels = 0 /\ letters = 0

Grant(r) ==
  /\ outcome[r] = "NONE"
  /\ \E a \in 1..left : amount' = [amount EXCEPT ![r] = a] /\ left' = left - a
  /\ outcome' = [outcome EXCEPT ![r] = "PENDING"]
  /\ UNCHANGED <<given, orderVars>>

Succeed(r) ==
  /\ outcome[r] = "PENDING"
  /\ outcome' = [outcome EXCEPT ![r] = "SUCCEEDED"]
  /\ given' = given + amount[r]
  /\ UNCHANGED <<amount, left, orderVars>>

Fail(r) ==
  /\ outcome[r] = "PENDING"
  /\ outcome' = [outcome EXCEPT ![r] = "FAILED"]
  /\ left' = left + amount[r]
  /\ UNCHANGED <<amount, given, orderVars>>

BookWhole ==
  /\ Whole
  /\ standing' = "REFUNDED"
  /\ returned' \in {returned} \cup (IF standing = "REFUNDED" THEN {} ELSE {returned + Ordered})

BookPart ==
  /\ Whole => Given \ booked' # {}
  /\ standing' = IF standing = "REFUNDED" THEN "REFUNDED" ELSE "PARTIALLY_REFUNDED"
  /\ UNCHANGED returned

Book(r) ==
  /\ outcome[r] \in {"SUCCEEDED", "FAILED"} /\ r \notin booked
  /\ booked' = booked \cup {r}
  /\ BookWhole \/ BookPart
  /\ UNCHANGED <<outcome, amount, left, given, parcels, letters>>

Ship ==
  /\ standing = "PAID" /\ parcels = 0
  /\ parcels' = 1
  /\ letters' \in {0, 1}
  /\ UNCHANGED <<outcome, amount, left, given, booked, standing, returned>>

Next == Ship \/ \E r \in Refunds : Grant(r) \/ Succeed(r) \/ Fail(r) \/ Book(r)

Spec == Init /\ [][Next]_vars
=============================================================================
