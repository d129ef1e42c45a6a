---------------------------- MODULE MCOrderStock ----------------------------
(* Instances of OrderStock for TLC. *)
EXTENDS OrderStock, TLC

TwoOfEach == [i \in Items |-> 2]
OneOfEach == [i \in Items |-> 1]
Restock == {1}
NoAdjust == {}
SucceedOnly == [o \in Orders |-> {"succeeded"}]
AllKinds == [o \in Orders |-> Outcomes]

\* Two orders, the card of one of which may be declined before it is charged.
OneMayBeDeclined ==
  [o \in Orders |-> IF o = CHOOSE p \in Orders : TRUE
                   THEN {"succeeded", "failed"} ELSE {"succeeded"}]

Symmetry == Permutations(Orders) \cup Permutations(Items) \cup Permutations(Sweepers)
=============================================================================
