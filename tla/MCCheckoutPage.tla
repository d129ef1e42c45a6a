-------------------------- MODULE MCCheckoutPage --------------------------
(* Instances of CheckoutPage for TLC. *)
EXTENDS CheckoutPage

CONSTANTS home, collect, stockholm, kiruna

\* One of the two places has no home delivery.
Offers == [p \in Places \cup {NoPlace} |-> IF p = kiruna THEN {collect} ELSE {home, collect}]
=============================================================================
