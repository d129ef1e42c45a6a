--------------------------- MODULE CheckoutPromise ---------------------------
(***************************************************************************)
(* What an Idempotency-Key promises a customer, without saying how: an     *)
(* order is placed, its key taken and the customer told of it at once or   *)
(* not at all, and an order that is placed never changes; whoever uses the *)
(* key again is told the same order, until the key has expired and the     *)
(* shop forgets what it stood for.                                         *)
(***************************************************************************)
EXTENDS Integers

CONSTANTS Orders, Keys, Bodies, Items, MaxUnits, NoOrder, NoKey, NoBody

VARIABLES
  order,    \* key, body and lines of each order that is placed
  current,  \* the order each key stands for
  expired,  \* keys that have expired
  answers   \* what customers were told

vars == <<order, current, expired, answers>>

Nothing == [i \in Items |-> 0]

Init ==
  /\ order = [o \in Orders |-> [key |-> NoKey, body |-> NoBody, lines |-> Nothing]]
  /\ current = [k \in Keys |-> NoOrder]
  /\ expired = {}
  /\ answers = {}

Tell(k, b, o) == answers' = answers \cup {[key |-> k, body |-> b, order |-> o]}

Place(k, b, o) ==
  /\ current[k] = NoOrder /\ order[o].key = NoKey
  /\ \E lines \in [Items -> 0..MaxUnits] \ {Nothing} :
       order' = [order EXCEPT ![o] = [key |-> k, body |-> b, lines |-> lines]]
  /\ current' = [current EXCEPT ![k] = o]
  /\ Tell(k, b, o)
  /\ UNCHANGED expired

Repeat(k, b) ==
  /\ current[k] # NoOrder
  /\ Tell(k, b, current[k])
  /\ UNCHANGED <<order, current, expired>>

Expire(k) ==
  /\ current[k] # NoOrder
  /\ expired' = expired \cup {k}
  /\ UNCHANGED <<order, current, answers>>

Forget(k) ==
  /\ k \in expired
  /\ current' = [current EXCEPT ![k] = NoOrder]
  /\ UNCHANGED <<order, expired, answers>>

Next ==
  \E k \in Keys :
    \/ \E b \in Bodies : Repeat(k, b) \/ \E o \in Orders : Place(k, b, o)
    \/ Expire(k) \/ Forget(k)

Spec == Init /\ [][Next]_vars
=============================================================================
