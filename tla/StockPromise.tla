---------------------------- MODULE StockPromise ----------------------------
(***************************************************************************)
(* What the shop promises about limited stock, without saying how: an      *)
(* order either holds all its units or none, only free units can be held,  *)
(* held units are sold or freed exactly once, and an order whose units     *)
(* were freed can still turn out to have been paid, in which case it is    *)
(* owed to the customer and takes no stock.                                *)
(***************************************************************************)
EXTENDS Integers

CONSTANTS Orders, Items, MaxQty, InitialFree

VARIABLES
  free,    \* units of each item that nobody holds
  counted, \* what recounting has added to each item so far
  held,    \* units of each item the order asked for
  phase    \* what became of the order

vars == <<free, counted, held, phase>>

Phases == {"none", "holding", "sold", "freed", "owed"}

Init ==
  /\ free = InitialFree
  /\ counted = [i \in Items |-> 0]
  /\ held = [o \in Orders |-> [i \in Items |-> 0]]
  /\ phase = [o \in Orders |-> "none"]

Hold(o, units) ==
  /\ phase[o] = "none"
  /\ \A i \in Items : units[i] > 0 => units[i] <= free[i]
  /\ free' = [i \in Items |-> free[i] - units[i]]
  /\ held' = [held EXCEPT ![o] = units]
  /\ phase' = [phase EXCEPT ![o] = "holding"]
  /\ UNCHANGED counted

Sell(o) ==
  /\ phase[o] = "holding"
  /\ phase' = [phase EXCEPT ![o] = "sold"]
  /\ UNCHANGED <<free, counted, held>>

\* One sweep cancels any number of orders that hold nothing in one update.
Free(S) ==
  /\ S # {}
  /\ \A o \in S : phase[o] = "holding"
  /\ \/ \E o \in S : S = {o} /\ free' = [i \in Items |-> free[i] + held[o][i]]
     \/ (\A o \in S, i \in Items : held[o][i] = 0) /\ UNCHANGED free
  /\ phase' = [o \in Orders |-> IF o \in S THEN "freed" ELSE phase[o]]
  /\ UNCHANGED <<counted, held>>

Owe(o) ==
  /\ phase[o] = "freed"
  /\ phase' = [phase EXCEPT ![o] = "owed"]
  /\ UNCHANGED <<free, counted, held>>

\* Stock is counted again; only this can make free negative.
Recount(i) ==
  /\ counted'[i] \in Int
  /\ counted' = [counted EXCEPT ![i] = counted'[i]]
  /\ free' = [free EXCEPT ![i] = @ + counted'[i] - counted[i]]
  /\ UNCHANGED <<held, phase>>

Next ==
  \/ \E o \in Orders, units \in [Items -> 0..MaxQty] : Hold(o, units)
  \/ \E o \in Orders : Sell(o) \/ Owe(o)
  \/ \E S \in SUBSET Orders : Free(S)
  \/ \E i \in Items : Recount(i)

Spec == Init /\ [][Next]_vars
=============================================================================
