---------------------------- MODULE MCPromotions ----------------------------
(* An instance of Promotions for TLC: two promotions, two variants, and a  *)
(* sale that can be moved onto, or away from, the other's days.            *)
EXTENDS Promotions, TLC

Spring == [active |-> TRUE, from |-> 0, to |-> 1, variants |-> {1}]
Summer == [active |-> TRUE, from |-> 1, to |-> 3, variants |-> {1, 2}]
Paused == [active |-> FALSE, from |-> 0, to |-> 3, variants |-> {2}]
Undone == [active |-> TRUE, from |-> 2, to |-> 2, variants |-> {2}]
Sales == {Spring, Summer, Paused, Undone}

Move(e) == [NoEdit EXCEPT !.variants = e]
Start == [NoEdit EXCEPT !.active = TRUE]
Changes == {Start, Move({1}), Move({2}), [NoEdit EXCEPT !.from = 1]}

(* For the race of two changes to a promotion that has been emptied. *)
Summers == {[Paused EXCEPT !.variants = {1}], [Paused EXCEPT !.variants = {1}, !.active = TRUE]}
Refills == {Move({1}), [Start EXCEPT !.variants = {2}]}
AnyOrder == Permutations(Requests)
=============================================================================
