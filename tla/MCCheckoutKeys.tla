--------------------------- MODULE MCCheckoutKeys ---------------------------
(* Instances of CheckoutKeys for TLC. *)
EXTENDS CheckoutKeys, TLC

CONSTANTS shirt, gown

OneShirt == shirt :> 1
TwoShirts == shirt :> 2
Symmetry == Permutations(Requests) \cup Permutations(Keys) \cup Permutations(Bodies)
              \cup Permutations(Orders)
=============================================================================
