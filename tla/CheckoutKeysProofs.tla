------------------------- MODULE CheckoutKeysProofs -------------------------
(* Theorems about CheckoutKeys for every value of its constants.           *)
EXTENDS CheckoutKeys, TLAPS

USE TrackedAssumption, StockAssumption, BoundsAssumption, SwitchAssumption, AbsentAssumption

-----------------------------------------------------------------------------
(* Types                                                                   *)

Reqs == [key : Keys \cup {NoKey}, body : Bodies \cup {NoBody}]
LocalTypes ==
  /\ pc \in [Requests -> Steps]
  /\ req \in [Requests -> Reqs]
  /\ snap \in [Requests -> Lines]
  /\ mine \in [Requests -> Orders \cup {NoOrder}]
  /\ attempt \in [Requests -> 0..MaxAttempts]

LEMMA EmptyType == Empty \in Lines
BY DEF Empty, Lines

LEMMA LocalsGoto ==
  ASSUME LocalTypes, NEW c \in Requests, NEW s \in Steps, Goto(c, s), UNCHANGED locals
  PROVE  LocalTypes'
BY DEF LocalTypes, Goto, locals

LEMMA LocalsReturn ==
  ASSUME LocalTypes, NEW c \in Requests, Return(c)
  PROVE  LocalTypes'
<1>1. "idle" \in Steps /\ 0 \in 0..MaxAttempts /\ [key |-> NoKey, body |-> NoBody] \in Reqs
  BY DEF Steps, Reqs
<1> QED
  BY <1>1, EmptyType DEF LocalTypes, Return, Goto

LEMMA UnlockType ==
  ASSUME TypeOK, NEW c \in Requests, Unlock(c)
  PROVE  lock' \in [Tracked -> Requests \cup {NoRequest}]
BY DEF TypeOK, Unlock

Answers == [key : Keys, body : Bodies, order : Orders]

LEMMA AnswerType ==
  ASSUME TypeOK, NEW c \in Requests, NEW o \in Orders, Answer(c, o),
         req[c].key \in Keys, req[c].body \in Bodies
  PROVE  answers' \in SUBSET Answers
BY DEF TypeOK, Answer, Answers

\* A key names the order of its row, and a running request has a key.
LEMMA RowNamesOrder ==
  ASSUME TypeOK, KeysInv, NEW c \in Requests, pc[c] # "idle"
  PROVE  /\ req[c].key \in Keys /\ req[c].body \in Bodies
         /\ row[req[c].key] # NoRow =>
              /\ row[req[c].key].order \in Orders
              /\ row[req[c].key].order \in Placed
              /\ order[row[req[c].key].order].key = req[c].key
         /\ row[req[c].key].live => row[req[c].key] # NoRow
<1>1. req[c].key \in Keys /\ req[c].body \in Bodies
  BY DEF KeysInv, RequestsOK
<1>2. NoRow.live = FALSE
  BY DEF NoRow
<1> QED
  BY <1>1, <1>2 DEF KeysInv, RowsOK, Placed

\* The order of a transaction that is about to commit.
LEMMA OwnOrder ==
  ASSUME TypeOK, KeysInv, NEW c \in Requests, pc[c] = "commit"
  PROVE  mine[c] \in Orders /\ mine[c] \notin Placed /\ mine[c] # NoOrder
BY DEF TypeOK, KeysInv, RequestsOK, OrdersOwned

LEMMA TypeInit == Init => TypeOK
<1> SUFFICES ASSUME Init PROVE TypeOK
  OBVIOUS
<1>1. "idle" \in Steps /\ 0 \in 0..MaxAttempts
  BY DEF Steps
<1> QED
  BY <1>1, EmptyType DEF Init, TypeOK, Absent, NoRow, Lines

LEMMA PutType ==
  ASSUME TypeOK, NEW i \in Items, NEW n \in Nat, Put(i, n)
  PROVE  cart' \in Lines /\ put' \in Lines
<1>1. cart[i] \in Nat /\ put[i] \in Nat
  BY DEF TypeOK, Lines
<1> DEFINE more == IF n > cart[i] THEN n - cart[i] ELSE 0
<1>2. put[i] + more \in Nat
  BY <1>1
<1>3. put' = [put EXCEPT ![i] = put[i] + more] /\ cart' = [cart EXCEPT ![i] = n]
  BY DEF Put
<1> HIDE DEF more
<1> QED
  BY <1>2, <1>3 DEF TypeOK, Lines

LEMMA WrittenType ==
  ASSUME writes \in [Writes -> Nat], NEW i \in Items, NEW n \in 0..MaxUnits, Written(i, n)
  PROVE  writes' \in [Writes -> Nat]
<1>1. writes[<<i, n>>] \in Nat
  BY DEF Writes
<1>2. writes[<<i, n>>] - 1 \in Nat
  BY <1>1 DEF Written
<1> QED BY <1>2 DEF Written

\* Every step of the cart, and what it leaves alone.
LEMMA CartStep ==
  ASSUME TypeOK, CartNext
  PROVE  /\ cart' \in Lines /\ put' \in Lines /\ writes' \in [Writes -> Nat]
         /\ UNCHANGED <<shopVars, answers, lock, pc, locals>>
<1>1. PICK i \in Items : \/ AddItem(i) \/ RemoveItem(i)
                         \/ \E n \in 0..MaxUnits : CheckItem(i, n) \/ UpdateItem(i, n)
  BY DEF CartNext
<1>2. cart \in Lines /\ put \in Lines /\ writes \in [Writes -> Nat]
  BY DEF TypeOK
<1>3. CASE AddItem(i)
  <2>1. cart[i] + 1 \in Nat /\ Put(i, cart[i] + 1)
    BY <1>2, <1>3 DEF AddItem, Lines
  <2> QED
    BY <1>2, <1>3, <2>1, PutType, WrittenType, BoundsAssumption DEF AddItem
<1>4. CASE RemoveItem(i)
  BY <1>2, <1>4 DEF RemoveItem, Lines
<1>5. ASSUME NEW n \in 0..MaxUnits, CheckItem(i, n)
      PROVE  /\ cart' \in Lines /\ put' \in Lines /\ writes' \in [Writes -> Nat]
             /\ UNCHANGED <<shopVars, answers, lock, pc, locals>>
  <2>1. writes[<<i, n>>] + 1 \in Nat
    BY <1>2, <1>5 DEF Writes
  <2>2. writes' = [writes EXCEPT ![<<i, n>>] = writes[<<i, n>>] + 1]
    BY <1>5 DEF CheckItem
  <2>3. writes' \in [Writes -> Nat]
    BY <1>2, <2>1, <2>2
  <2> QED BY <1>2, <1>5, <2>3 DEF CheckItem
<1>6. ASSUME NEW n \in 0..MaxUnits, UpdateItem(i, n)
      PROVE  /\ cart' \in Lines /\ put' \in Lines /\ writes' \in [Writes -> Nat]
             /\ UNCHANGED <<shopVars, answers, lock, pc, locals>>
  <2>1. n \in Nat
    BY <1>6
  <2>2. CASE Put(i, n)
    BY <1>2, <1>6, <2>1, <2>2, PutType, WrittenType DEF UpdateItem
  <2>3. CASE UNCHANGED <<cart, put>>
    BY <1>2, <1>6, <2>3, WrittenType DEF UpdateItem
  <2> QED
    BY <1>6, <2>2, <2>3 DEF UpdateItem
<1> QED
  BY <1>1, <1>3, <1>4, <1>5, <1>6

\* The types of what no step of a request needs more than one line for.
ShopTypes ==
  /\ order \in [Orders -> [key : Keys \cup {NoKey}, body : Bodies \cup {NoBody}, lines : Lines]]
  /\ reserved \in [Tracked -> Nat]
  /\ intent \in SUBSET Orders
  /\ row \in [Keys -> [order : Orders \cup {NoOrder}, body : Bodies \cup {NoBody}, live : BOOLEAN]]
  /\ expired \in SUBSET Keys
CartTypes ==
  cart \in Lines /\ put \in Lines /\ writes \in [Writes -> Nat]
LockTypes == lock \in [Tracked -> Requests \cup {NoRequest}]
AnswerTypes == answers \in SUBSET Answers

LEMMA TypeParts ==
  TypeOK <=> CartTypes /\ ShopTypes /\ AnswerTypes /\ LockTypes /\ LocalTypes
BY DEF TypeOK, CartTypes, ShopTypes, AnswerTypes, LockTypes, LocalTypes, Answers, Reqs

LEMMA TypePartsNext ==
  TypeOK' <=> CartTypes' /\ ShopTypes' /\ AnswerTypes' /\ LockTypes' /\ LocalTypes'
BY DEF TypeOK, CartTypes, ShopTypes, AnswerTypes, LockTypes, LocalTypes, Answers, Reqs

LEMMA TypeStep ==
  ASSUME TypeOK, KeysInv, [Next]_vars
  PROVE  TypeOK'
<1>0. CartTypes /\ ShopTypes /\ AnswerTypes /\ LockTypes /\ LocalTypes
  BY TypeParts
<1> USE <1>0
<1> SUFFICES CartTypes' /\ ShopTypes' /\ AnswerTypes' /\ LockTypes' /\ LocalTypes'
  BY TypePartsNext
<1>1. CASE CartNext
  <2>1. CartTypes' /\ UNCHANGED <<shopVars, answers, lock, pc, locals>>
    BY <1>1, CartStep DEF CartTypes
  <2> QED
    BY <2>1 DEF ShopTypes, AnswerTypes, LockTypes, LocalTypes, shopVars, locals
<1>2. ASSUME NEW c \in Requests, NEW k \in Keys, NEW b \in Bodies, Begin(c, k, b)
      PROVE  CartTypes' /\ ShopTypes' /\ AnswerTypes' /\ LockTypes' /\ LocalTypes'
  <2>1. "lookup" \in Steps /\ 1 \in 0..MaxAttempts /\ [key |-> k, body |-> b] \in Reqs
    BY DEF Steps, Reqs
  <2>2. LocalTypes'
    BY <1>2, <2>1 DEF LocalTypes, Begin, Goto
  <2> QED
    BY <1>2, <2>2 DEF Begin, CartTypes, ShopTypes, AnswerTypes, LockTypes, cartVars, shopVars
<1>3. ASSUME NEW c \in Requests, Lookup(c)
      PROVE  CartTypes' /\ ShopTypes' /\ AnswerTypes' /\ LockTypes' /\ LocalTypes'
  <2> DEFINE found == row[req[c].key]
  <2>1. CartTypes' /\ ShopTypes' /\ LockTypes'
    BY <1>3 DEF Lookup, CartTypes, ShopTypes, LockTypes, cartVars, shopVars
  <2>2. pc[c] # "idle"
    BY <1>3 DEF Lookup
  <2>3. CASE found.live /\ Return(c) /\ Answer(c, found.order)
    <3>1. found.order \in Orders /\ req[c].key \in Keys /\ req[c].body \in Bodies
      BY <2>2, <2>3, RowNamesOrder
    <3>2. AnswerTypes'
      BY <2>3, <3>1, AnswerType DEF AnswerTypes
    <3> QED
      BY <2>1, <2>3, <3>2, LocalsReturn
  <2>4. CASE Return(c) /\ UNCHANGED answers
    BY <2>1, <2>4, LocalsReturn DEF AnswerTypes
  <2>5. CASE Goto(c, IF found = NoRow THEN "cart" ELSE "reclaim") /\ UNCHANGED <<answers, locals>>
    <3>1. (IF found = NoRow THEN "cart" ELSE "reclaim") \in Steps
      BY DEF Steps
    <3> QED
      BY <2>1, <2>5, <3>1, LocalsGoto DEF AnswerTypes
  <2> QED
    BY <1>3, <2>3, <2>4, <2>5 DEF Lookup
<1>4. ASSUME NEW c \in Requests, Reclaim(c)
      PROVE  CartTypes' /\ ShopTypes' /\ AnswerTypes' /\ LockTypes' /\ LocalTypes'
  <2>1. "cart" \in Steps
    BY DEF Steps
  <2>2. LocalTypes'
    BY <1>4, <2>1, LocalsGoto DEF Reclaim
  <2>3. row' \in [Keys -> [order : Orders \cup {NoOrder}, body : Bodies \cup {NoBody}, live : BOOLEAN]]
    BY <1>4 DEF Reclaim, ShopTypes, NoRow
  <2> QED
    BY <1>4, <2>2, <2>3 DEF Reclaim, CartTypes, ShopTypes, AnswerTypes, LockTypes, cartVars
<1>5. ASSUME NEW c \in Requests, ReadCart(c)
      PROVE  CartTypes' /\ ShopTypes' /\ AnswerTypes' /\ LockTypes' /\ LocalTypes'
  <2>1. CartTypes' /\ ShopTypes' /\ AnswerTypes' /\ LockTypes'
    BY <1>5 DEF ReadCart, CartTypes, ShopTypes, AnswerTypes, LockTypes, cartVars, shopVars
  <2>2. CASE Return(c)
    BY <2>1, <2>2, LocalsReturn
  <2>3. CASE /\ snap' = [snap EXCEPT ![c] = cart]
             /\ Goto(c, "stock")
             /\ UNCHANGED <<req, mine, attempt>>
    BY <2>1, <2>3 DEF LocalTypes, CartTypes, Goto, Steps
  <2> QED
    BY <1>5, <2>2, <2>3 DEF ReadCart
<1>6. ASSUME NEW c \in Requests, LockStock(c)
      PROVE  CartTypes' /\ ShopTypes' /\ AnswerTypes' /\ LockTypes' /\ LocalTypes'
  <2>1. CartTypes' /\ ShopTypes' /\ AnswerTypes'
    BY <1>6 DEF LockStock, CartTypes, ShopTypes, AnswerTypes, cartVars, shopVars
  <2>2. CASE Return(c) /\ UNCHANGED lock
    BY <2>1, <2>2, LocalsReturn DEF LockTypes
  <2>3. CASE /\ lock' = [i \in Tracked |-> IF i \in Needed(c) THEN c ELSE lock[i]]
             /\ Goto(c, "pay")
             /\ UNCHANGED locals
    <3>1. "pay" \in Steps
      BY DEF Steps
    <3>2. LockTypes'
      BY <2>3 DEF LockTypes
    <3> QED
      BY <2>1, <2>3, <3>1, <3>2, LocalsGoto
  <2> QED
    BY <1>6, <2>2, <2>3 DEF LockStock
<1>7. ASSUME NEW c \in Requests, Collide(c)
      PROVE  CartTypes' /\ ShopTypes' /\ AnswerTypes' /\ LockTypes' /\ LocalTypes'
  <2>1. CartTypes' /\ ShopTypes' /\ AnswerTypes'
    BY <1>7 DEF Collide, CartTypes, ShopTypes, AnswerTypes, cartVars, shopVars
  <2>2. LockTypes'
    BY <1>7, UnlockType DEF Collide, LockTypes
  <2>3. CASE Return(c)
    BY <2>1, <2>2, <2>3, LocalsReturn
  <2>4. CASE /\ attempt[c] < MaxAttempts
             /\ attempt' = [attempt EXCEPT ![c] = @ + 1]
             /\ snap' = [snap EXCEPT ![c] = Empty]
             /\ Goto(c, "cart")
             /\ UNCHANGED <<req, mine>>
    <3>1. attempt[c] \in 0..MaxAttempts
      BY DEF LocalTypes
    <3>2. attempt[c] + 1 \in 0..MaxAttempts
      BY <2>4, <3>1
    <3>3. attempt' \in [Requests -> 0..MaxAttempts]
      BY <2>4, <3>2 DEF LocalTypes
    <3> QED
      BY <2>1, <2>2, <2>4, <3>3, EmptyType DEF LocalTypes, Goto, Steps
  <2> QED
    BY <1>7, <2>3, <2>4 DEF Collide
<1>8. ASSUME NEW c \in Requests, NEW o \in Orders, CreatePayment(c, o)
      PROVE  CartTypes' /\ ShopTypes' /\ AnswerTypes' /\ LockTypes' /\ LocalTypes'
  <2>1. LocalTypes'
    BY <1>8 DEF CreatePayment, LocalTypes, Goto, Steps
  <2> QED
    BY <1>8, <2>1 DEF CreatePayment, CartTypes, ShopTypes, AnswerTypes, LockTypes, cartVars
<1>9. ASSUME NEW c \in Requests, Commit(c)
      PROVE  CartTypes' /\ ShopTypes' /\ AnswerTypes' /\ LockTypes' /\ LocalTypes'
  <2>1. pc[c] = "commit" /\ pc[c] # "idle"
    BY <1>9 DEF Commit
  <2>2. req[c].key \in Keys /\ req[c].body \in Bodies /\ mine[c] \in Orders
    BY <2>1, OwnOrder, RowNamesOrder
  <2>3. snap[c] \in Lines /\ \A i \in Tracked : snap[c][i] \in Nat
    BY DEF LocalTypes, Lines
  <2>4. CartTypes'
    BY <1>9, EmptyType DEF Commit, Spend, CartTypes
  <2>5. LocalTypes' /\ LockTypes'
    BY <1>9, LocalsReturn, UnlockType DEF Commit, LockTypes
  <2>6. AnswerTypes'
    BY <1>9, <2>2, AnswerType DEF Commit, AnswerTypes
  <2>7. ShopTypes'
    <3>1. order' \in [Orders -> [key : Keys \cup {NoKey}, body : Bodies \cup {NoBody}, lines : Lines]]
      <4>1. [key |-> req[c].key, body |-> req[c].body, lines |-> snap[c]]
              \in [key : Keys \cup {NoKey}, body : Bodies \cup {NoBody}, lines : Lines]
        BY <2>2, <2>3
      <4> QED
        BY <1>9, <2>2, <4>1 DEF Commit, ShopTypes
    <3>2. reserved' \in [Tracked -> Nat]
      BY <1>9, <2>3 DEF Commit, ShopTypes
    <3>3. row' \in [Keys -> [order : Orders \cup {NoOrder}, body : Bodies \cup {NoBody}, live : BOOLEAN]]
      BY <1>9, <2>2 DEF Commit, ShopTypes
    <3> QED
      BY <1>9, <3>1, <3>2, <3>3 DEF Commit, ShopTypes
  <2> QED
    BY <2>4, <2>5, <2>6, <2>7
<1>10. ASSUME NEW c \in Requests, LoseKey(c)
       PROVE  CartTypes' /\ ShopTypes' /\ AnswerTypes' /\ LockTypes' /\ LocalTypes'
  <2>1. "lost" \in Steps
    BY DEF Steps
  <2>2. LocalTypes' /\ LockTypes'
    BY <1>10, <2>1, LocalsGoto, UnlockType DEF LoseKey, LockTypes
  <2> QED
    BY <1>10, <2>2 DEF LoseKey, CartTypes, ShopTypes, AnswerTypes, cartVars, shopVars
<1>11. ASSUME NEW c \in Requests, Replay(c)
       PROVE  CartTypes' /\ ShopTypes' /\ AnswerTypes' /\ LockTypes' /\ LocalTypes'
  <2>1. CartTypes' /\ ShopTypes' /\ LockTypes' /\ LocalTypes'
    BY <1>11, LocalsReturn DEF Replay, CartTypes, ShopTypes, LockTypes, cartVars, shopVars
  <2>2. CASE row[req[c].key] # NoRow /\ Answer(c, WinnersOrder(c))
    <3>1. pc[c] # "idle"
      BY <1>11 DEF Replay
    <3>2. WinnersOrder(c) \in Orders /\ req[c].key \in Keys /\ req[c].body \in Bodies
      BY <2>2, <3>1, RowNamesOrder DEF WinnersOrder
    <3> QED
      BY <2>1, <2>2, <3>2, AnswerType DEF AnswerTypes
  <2>3. CASE UNCHANGED answers
    BY <2>1, <2>3 DEF AnswerTypes
  <2> QED
    BY <1>11, <2>2, <2>3 DEF Replay
<1>12. ASSUME NEW c \in Requests, RollBack(c)
       PROVE  CartTypes' /\ ShopTypes' /\ AnswerTypes' /\ LockTypes' /\ LocalTypes'
  <2>1. LocalTypes' /\ LockTypes'
    BY <1>12, LocalsReturn, UnlockType DEF RollBack, LockTypes
  <2> QED
    BY <1>12, <2>1 DEF RollBack, CartTypes, ShopTypes, AnswerTypes, cartVars, shopVars
<1>13. ASSUME NEW k \in Keys, ExpireKey(k)
       PROVE  CartTypes' /\ ShopTypes' /\ AnswerTypes' /\ LockTypes' /\ LocalTypes'
  <2>1. row' \in [Keys -> [order : Orders \cup {NoOrder}, body : Bodies \cup {NoBody}, live : BOOLEAN]]
    BY <1>13 DEF ExpireKey, ShopTypes
  <2> QED
    BY <1>13, <2>1 DEF ExpireKey, CartTypes, ShopTypes, AnswerTypes, LockTypes, LocalTypes,
                       cartVars, locals
<1>14. CASE UNCHANGED vars
  BY <1>14 DEF vars, CartTypes, ShopTypes, AnswerTypes, LockTypes, LocalTypes,
               cartVars, shopVars, locals
<1> QED
  BY <1>1, <1>2, <1>3, <1>4, <1>5, <1>6, <1>7, <1>8, <1>9, <1>10, <1>11, <1>12, <1>13, <1>14
     DEF Next, RequestNext

-----------------------------------------------------------------------------
(* One order for a key                                                     *)

LEMMA KeysInit == Init => KeysInv
<1> SUFFICES ASSUME Init PROVE KeysInv
  OBVIOUS
<1>1. Placed = {}
  BY DEF Init, Placed, Absent
<1>2. RequestsOK
  BY DEF Init, RequestsOK
<1>3. OrdersOwned
  BY <1>1 DEF Init, OrdersOwned
<1>4. RowsOK
  BY <1>1 DEF Init, RowsOK
<1>5. AnswersPlaced
  BY DEF Init, AnswersPlaced
<1> QED
  BY <1>2, <1>3, <1>4, <1>5 DEF KeysInv

LEMMA PlacedNext == UNCHANGED order => Placed' = Placed
BY DEF Placed

\* A step that leaves orders, rows and expiry alone and gives up a request's
\* order, or keeps it, keeps the ownership of orders and the rows.
LEMMA ShopKept ==
  ASSUME OrdersOwned, RowsOK, UNCHANGED shopVars, NEW c \in Requests,
         mine \in [Requests -> Orders \cup {NoOrder}],
         UNCHANGED mine \/ mine' = [mine EXCEPT ![c] = NoOrder]
  PROVE  OrdersOwned' /\ RowsOK'
<1>1. Placed' = Placed /\ UNCHANGED <<order, intent, row, expired>>
  BY PlacedNext DEF shopVars
<1>2. RowsOK'
  BY <1>1 DEF RowsOK
<1>3. NoOrder \notin Placed
  BY DEF Placed
<1>4. OrdersOwned'
  <2>1. CASE UNCHANGED mine
    BY <1>1, <2>1 DEF OrdersOwned
  <2>2. CASE mine' = [mine EXCEPT ![c] = NoOrder]
    <3>1. \A d \in Requests : mine'[d] = mine[d] \/ mine'[d] = NoOrder
      BY <2>2
    <3> QED
      BY <1>1, <1>3, <3>1 DEF OrdersOwned
  <2> QED
    BY <2>1, <2>2
<1> QED
  BY <1>2, <1>4

\* A request moves to a step that asks nothing of it that it has not got.
LEMMA RequestMoves ==
  ASSUME RequestsOK, LocalTypes, NEW c \in Requests, NEW s \in Steps, Goto(c, s),
         UNCHANGED <<expired, intent>>, UNCHANGED <<req, mine>>,
         pc[c] # "idle", s # "commit", s = "reclaim" => req[c].key \in expired
  PROVE  RequestsOK'
<1>1. \A d \in Requests : d # c => pc'[d] = pc[d]
  BY DEF Goto, LocalTypes
<1>2. pc'[c] = s
  BY DEF Goto, LocalTypes
<1> QED
  BY <1>1, <1>2 DEF RequestsOK

LEMMA RequestReturns ==
  ASSUME RequestsOK, LocalTypes, NEW c \in Requests, Return(c), UNCHANGED <<expired, intent>>
  PROVE  RequestsOK' /\ mine' = [mine EXCEPT ![c] = NoOrder]
<1>1. \A d \in Requests : d # c => pc'[d] = pc[d] /\ req'[d] = req[d] /\ mine'[d] = mine[d]
  BY DEF Return, Goto, LocalTypes
<1>2. pc'[c] = "idle"
  BY DEF Return, Goto, LocalTypes
<1>3. RequestsOK'
  BY <1>1, <1>2 DEF RequestsOK
<1> QED
  BY <1>3 DEF Return

\* The order of an answer is the one that was placed under its key.
LEMMA AnswerPlaced ==
  ASSUME AnswersPlaced, UNCHANGED order, NEW c \in Requests, NEW o, Answer(c, o),
         order[o].key = req[c].key
  PROVE  AnswersPlaced'
BY DEF AnswersPlaced, Answer

LEMMA KeysStep ==
  ASSUME TypeOK, KeysInv, [Next]_vars
  PROVE  KeysInv'
<1>0. /\ RequestsOK /\ OrdersOwned /\ RowsOK /\ AnswersPlaced
      /\ LocalTypes /\ ShopTypes /\ AnswerTypes
      /\ mine \in [Requests -> Orders \cup {NoOrder}]
  BY TypeParts DEF KeysInv, LocalTypes
<1> USE <1>0
<1> SUFFICES RequestsOK' /\ OrdersOwned' /\ RowsOK' /\ AnswersPlaced'
  BY DEF KeysInv
<1>1. CASE UNCHANGED <<shopVars, answers, lock, pc, locals>>
  BY <1>1 DEF RequestsOK, OrdersOwned, RowsOK, AnswersPlaced, Placed, shopVars, locals
<1>2. ASSUME NEW c \in Requests, NEW k \in Keys, NEW b \in Bodies, Begin(c, k, b)
      PROVE  RequestsOK' /\ OrdersOwned' /\ RowsOK' /\ AnswersPlaced'
  <2>1. UNCHANGED <<shopVars, answers, mine>>
    BY <1>2 DEF Begin
  <2>2. OrdersOwned' /\ RowsOK'
    BY <2>1, ShopKept
  <2>3. AnswersPlaced'
    BY <2>1 DEF AnswersPlaced, shopVars
  <2>4. pc'[c] = "lookup" /\ req'[c] = [key |-> k, body |-> b]
    BY <1>2 DEF Begin, Goto, LocalTypes
  <2>5. \A d \in Requests : d # c => pc'[d] = pc[d] /\ req'[d] = req[d]
    BY <1>2 DEF Begin, Goto, LocalTypes
  <2>6. RequestsOK'
    BY <2>1, <2>4, <2>5 DEF RequestsOK, shopVars
  <2> QED
    BY <2>2, <2>3, <2>6
<1>3. ASSUME NEW c \in Requests, Lookup(c)
      PROVE  RequestsOK' /\ OrdersOwned' /\ RowsOK' /\ AnswersPlaced'
  <2> DEFINE found == row[req[c].key]
  <2>1. pc[c] # "idle" /\ UNCHANGED shopVars /\ UNCHANGED <<order, expired, intent>>
    BY <1>3 DEF Lookup, shopVars
  <2>2. CASE found.live /\ Return(c) /\ Answer(c, found.order)
    <3>1. RequestsOK' /\ mine' = [mine EXCEPT ![c] = NoOrder]
      BY <2>1, <2>2, RequestReturns
    <3>2. OrdersOwned' /\ RowsOK'
      BY <2>1, <3>1, ShopKept
    <3>3. order[found.order].key = req[c].key
      BY <2>1, <2>2, RowNamesOrder
    <3>4. AnswersPlaced'
      BY <2>1, <2>2, <3>3, AnswerPlaced
    <3> QED
      BY <3>1, <3>2, <3>4
  <2>3. CASE Return(c) /\ UNCHANGED answers
    <3>1. RequestsOK' /\ mine' = [mine EXCEPT ![c] = NoOrder]
      BY <2>1, <2>3, RequestReturns
    <3>2. OrdersOwned' /\ RowsOK'
      BY <2>1, <3>1, ShopKept
    <3> QED
      BY <2>1, <2>3, <3>1, <3>2 DEF AnswersPlaced
  <2>4. CASE /\ ~found.live
             /\ Goto(c, IF found = NoRow THEN "cart" ELSE "reclaim")
             /\ UNCHANGED <<answers, locals>>
    <3> DEFINE next == IF found = NoRow THEN "cart" ELSE "reclaim"
    <3>1. next \in Steps /\ next # "commit"
      BY DEF Steps
    <3>2. req[c].key \in Keys
      BY <2>1 DEF RequestsOK
    <3>3. next = "reclaim" => req[c].key \in expired
      BY <2>4, <3>2 DEF RowsOK
    <3>4. UNCHANGED <<req, mine>>
      BY <2>4 DEF locals
    <3> HIDE DEF next
    <3>5. RequestsOK'
      BY <2>1, <2>4, <3>1, <3>3, <3>4, RequestMoves DEF next
    <3>6. OrdersOwned' /\ RowsOK'
      BY <2>1, <3>4, ShopKept
    <3> QED
      BY <2>1, <2>4, <3>5, <3>6 DEF AnswersPlaced
  <2> QED
    BY <1>3, <2>2, <2>3, <2>4 DEF Lookup, Reusable
<1>4. ASSUME NEW c \in Requests, Reclaim(c)
      PROVE  RequestsOK' /\ OrdersOwned' /\ RowsOK' /\ AnswersPlaced'
  <2>1. /\ pc[c] = "reclaim" /\ Goto(c, "cart")
        /\ UNCHANGED <<order, intent, expired, answers>> /\ UNCHANGED <<req, mine>>
        /\ row' = [row EXCEPT ![req[c].key] = NoRow]
    BY <1>4 DEF Reclaim, locals
  <2>2. req[c].key \in Keys /\ req[c].key \in expired
    BY <2>1 DEF RequestsOK
  <2>3. "cart" \in Steps
    BY DEF Steps
  <2>4. RequestsOK'
    BY <2>1, <2>3, RequestMoves
  <2>5. Placed' = Placed
    BY <2>1, PlacedNext
  <2>6. OrdersOwned' /\ AnswersPlaced'
    BY <2>1, <2>5 DEF OrdersOwned, AnswersPlaced
  <2>7. row'[req[c].key] = NoRow /\ \A k \in Keys : k # req[c].key => row'[k] = row[k]
    BY <2>1, <2>2 DEF ShopTypes
  <2>8. \A k \in Keys : row'[k] # NoRow => row'[k] = row[k]
    BY <2>7
  <2>9. \A o \in Placed : order[o].key \notin expired => order[o].key # req[c].key
    BY <2>2
  <2>10. \A o \in Placed : order[o].key \in Keys
    BY DEF Placed, ShopTypes
  <2>11. RowsOK'
    BY <2>1, <2>5, <2>7, <2>8, <2>9, <2>10 DEF RowsOK
  <2> QED
    BY <2>4, <2>6, <2>11
<1>5. ASSUME NEW c \in Requests, pc[c] # "idle", Return(c), UNCHANGED <<shopVars, answers>>
      PROVE  RequestsOK' /\ OrdersOwned' /\ RowsOK' /\ AnswersPlaced'
  <2>1. UNCHANGED <<order, expired, intent>>
    BY <1>5 DEF shopVars
  <2>2. RequestsOK' /\ mine' = [mine EXCEPT ![c] = NoOrder]
    BY <1>5, <2>1, RequestReturns
  <2>3. OrdersOwned' /\ RowsOK'
    BY <1>5, <2>2, ShopKept
  <2> QED
    BY <1>5, <2>1, <2>2, <2>3 DEF AnswersPlaced
<1>6. ASSUME NEW c \in Requests, NEW s \in Steps \ {"reclaim", "commit"}, pc[c] # "idle",
             Goto(c, s), UNCHANGED <<shopVars, answers>>, UNCHANGED <<req, mine>>
      PROVE  RequestsOK' /\ OrdersOwned' /\ RowsOK' /\ AnswersPlaced'
  <2>1. UNCHANGED <<order, expired, intent>>
    BY <1>6 DEF shopVars
  <2>2. RequestsOK'
    BY <1>6, <2>1, RequestMoves
  <2>3. OrdersOwned' /\ RowsOK'
    BY <1>6, ShopKept
  <2> QED
    BY <1>6, <2>1, <2>2, <2>3 DEF AnswersPlaced
<1>7. ASSUME NEW c \in Requests, ReadCart(c)
      PROVE  RequestsOK' /\ OrdersOwned' /\ RowsOK' /\ AnswersPlaced'
  <2>1. "stock" \in Steps \ {"reclaim", "commit"}
    BY DEF Steps
  <2> QED
    BY <1>5, <1>6, <1>7, <2>1 DEF ReadCart
<1>8. ASSUME NEW c \in Requests, LockStock(c)
      PROVE  RequestsOK' /\ OrdersOwned' /\ RowsOK' /\ AnswersPlaced'
  <2>1. "pay" \in Steps \ {"reclaim", "commit"}
    BY DEF Steps
  <2> QED
    BY <1>5, <1>6, <1>8, <2>1 DEF LockStock, locals
<1>9. ASSUME NEW c \in Requests, Collide(c)
      PROVE  RequestsOK' /\ OrdersOwned' /\ RowsOK' /\ AnswersPlaced'
  <2>1. "cart" \in Steps \ {"reclaim", "commit"}
    BY DEF Steps
  <2> QED
    BY <1>5, <1>6, <1>9, <2>1 DEF Collide
<1>10. ASSUME NEW c \in Requests, NEW o \in Orders, CreatePayment(c, o)
       PROVE  RequestsOK' /\ OrdersOwned' /\ RowsOK' /\ AnswersPlaced'
  <2>1. /\ o \notin intent /\ intent' = intent \cup {o}
        /\ UNCHANGED <<order, row, expired, answers, req>>
    BY <1>10 DEF CreatePayment
  <2>2. /\ mine'[c] = o /\ pc'[c] = "commit" /\ pc[c] # "idle"
        /\ \A d \in Requests : d # c => mine'[d] = mine[d] /\ pc'[d] = pc[d]
    BY <1>10 DEF CreatePayment, Goto, LocalTypes
  <2>3. Placed' = Placed
    BY <2>1, PlacedNext
  <2>4. RequestsOK'
    BY <2>1, <2>2 DEF RequestsOK
  <2>5. o \notin Placed /\ o # NoOrder /\ \A d \in Requests : mine[d] # o
    BY <2>1 DEF OrdersOwned
  <2>6. OrdersOwned'
    BY <2>1, <2>2, <2>3, <2>5 DEF OrdersOwned
  <2>7. RowsOK' /\ AnswersPlaced'
    BY <2>1, <2>3 DEF RowsOK, AnswersPlaced
  <2> QED
    BY <2>4, <2>6, <2>7
<1>11. ASSUME NEW c \in Requests, Commit(c)
       PROVE  RequestsOK' /\ OrdersOwned' /\ RowsOK' /\ AnswersPlaced'
  <2> DEFINE k == req[c].key
             m == mine[c]
             placed == [key |-> k, body |-> req[c].body, lines |-> snap[c]]
             names == [order |-> m, body |-> req[c].body, live |-> TRUE]
  <2>1. /\ pc[c] = "commit" /\ row[k] = NoRow
        /\ order' = [order EXCEPT ![m] = placed]
        /\ row' = [row EXCEPT ![k] = names]
        /\ Answer(c, m) /\ Return(c)
        /\ UNCHANGED <<intent, expired>>
    BY <1>11 DEF Commit, Insertable
  <2>2. k \in Keys /\ m \in Orders /\ m \notin Placed /\ m \in intent /\ m # NoOrder
    BY <2>1, OwnOrder DEF RequestsOK
  <2>3. RequestsOK' /\ mine' = [mine EXCEPT ![c] = NoOrder]
    BY <2>1, RequestReturns
  <2>4. order'[m] = placed /\ \A o \in Orders : o # m => order'[o] = order[o]
    BY <2>1, <2>2 DEF ShopTypes
  <2>5. row'[k] = names /\ \A j \in Keys : j # k => row'[j] = row[j]
    BY <2>1, <2>2 DEF ShopTypes
  <2>6. placed.key = k /\ k # NoKey /\ names.order = m /\ names.live
    BY <2>2
  <2> HIDE DEF placed, names
  <2>7. Placed' = Placed \cup {m}
    BY <2>2, <2>4, <2>6 DEF Placed
  <2>8. OrdersOwned'
    <3>1. mine'[c] = NoOrder /\ \A d \in Requests : d # c => mine'[d] = mine[d]
      BY <2>3
    <3>2. \A d \in Requests : d # c => mine[d] # m
      BY <2>2 DEF OrdersOwned
    <3>3. NoOrder \notin Placed'
      BY <2>2, <2>7 DEF Placed
    <3>4. \A d \in Requests : mine'[d] \notin Placed'
      BY <2>7, <3>1, <3>2, <3>3 DEF OrdersOwned
    <3> HIDE DEF m
    <3>5. \A d \in Requests : /\ mine'[d] # NoOrder => mine'[d] \in intent
                              /\ \A e \in Requests \ {d} : mine'[d] = mine'[e] => mine'[d] = NoOrder
      BY <3>1 DEF OrdersOwned
    <3> QED
      BY <2>1, <2>2, <2>7, <3>4, <3>5 DEF OrdersOwned
  <2>9. RowsOK'
    <3>1. ASSUME NEW j \in Keys
          PROVE  /\ row'[j] # NoRow => row'[j].order \in Placed' /\ order'[row'[j].order].key = j
                 /\ row'[j] # NoRow /\ ~row'[j].live => j \in expired
      <4>1. CASE j = k
        BY <2>4, <2>5, <2>6, <2>7, <4>1
      <4>2. CASE j # k
        <5>1. row'[j] = row[j]
          BY <2>5, <4>2
        <5>2. row[j] # NoRow => row[j].order # m /\ row[j].order \in Orders
          BY <2>2 DEF RowsOK, Placed
        <5> QED
          BY <2>4, <2>7, <5>1, <5>2 DEF RowsOK
      <4> QED
        BY <4>1, <4>2
    <3>2. ASSUME NEW o \in Placed', order'[o].key \notin expired
          PROVE  row'[order'[o].key].order = o
      <4>1. CASE o = m
        BY <2>4, <2>5, <2>6, <4>1
      <4>2. CASE o # m
        <5>1. o \in Placed /\ o \in Orders /\ order'[o] = order[o] /\ order[o].key \in Keys
          BY <2>4, <2>7, <4>2 DEF Placed, ShopTypes
        <5>2. row[order[o].key].order = o
          BY <3>2, <5>1 DEF RowsOK
        <5>3. row[k].order = NoOrder
          BY <2>1 DEF NoRow
        <5>4. order[o].key # k
          BY <5>1, <5>2, <5>3
        <5> QED
          BY <2>5, <5>1, <5>2, <5>4
      <4> QED
        BY <4>1, <4>2
    <3> QED
      BY <2>1, <3>1, <3>2 DEF RowsOK
  <2>10. AnswersPlaced'
    <3>1. ASSUME NEW a \in answers PROVE order'[a.order].key = a.key
      <4>1. a.order \in Orders /\ a.key \in Keys /\ order[a.order].key = a.key
        BY DEF AnswerTypes, Answers, AnswersPlaced
      <4>2. a.order \in Placed
        BY <4>1 DEF Placed
      <4> QED
        BY <2>2, <2>4, <4>1, <4>2
    <3>2. \A a \in answers' : a \in answers \/ (a.order = m /\ a.key = k)
      BY <2>1 DEF Answer
    <3> QED
      BY <2>4, <2>6, <3>1, <3>2 DEF AnswersPlaced
  <2> QED
    BY <2>3, <2>8, <2>9, <2>10
<1>12. ASSUME NEW c \in Requests, LoseKey(c)
       PROVE  RequestsOK' /\ OrdersOwned' /\ RowsOK' /\ AnswersPlaced'
  <2>1. "lost" \in Steps \ {"reclaim", "commit"}
    BY DEF Steps
  <2> QED
    BY <1>6, <1>12, <2>1 DEF LoseKey, locals
<1>13. ASSUME NEW c \in Requests, Replay(c)
       PROVE  RequestsOK' /\ OrdersOwned' /\ RowsOK' /\ AnswersPlaced'
  <2>1. pc[c] # "idle" /\ Return(c) /\ UNCHANGED shopVars /\ UNCHANGED <<order, expired, intent>>
    BY <1>13 DEF Replay, shopVars
  <2>2. CASE row[req[c].key] # NoRow /\ Answer(c, WinnersOrder(c))
    <3>1. RequestsOK' /\ mine' = [mine EXCEPT ![c] = NoOrder]
      BY <2>1, RequestReturns
    <3>2. OrdersOwned' /\ RowsOK'
      BY <2>1, <3>1, ShopKept
    <3>3. order[WinnersOrder(c)].key = req[c].key
      BY <2>1, <2>2, RowNamesOrder DEF WinnersOrder
    <3> QED
      BY <2>1, <2>2, <3>1, <3>2, <3>3, AnswerPlaced
  <2>3. CASE UNCHANGED answers
    BY <1>5, <2>1, <2>3
  <2> QED
    BY <1>13, <2>2, <2>3 DEF Replay
<1>14. ASSUME NEW c \in Requests, RollBack(c)
       PROVE  RequestsOK' /\ OrdersOwned' /\ RowsOK' /\ AnswersPlaced'
  BY <1>5, <1>14 DEF RollBack
<1>15. ASSUME NEW k \in Keys, ExpireKey(k)
       PROVE  RequestsOK' /\ OrdersOwned' /\ RowsOK' /\ AnswersPlaced'
  <2>1. /\ row[k].live /\ expired' = expired \cup {k}
        /\ row' = [row EXCEPT ![k].live = FALSE]
        /\ UNCHANGED <<order, intent, answers, pc, req, mine>>
    BY <1>15 DEF ExpireKey, locals
  <2>2. Placed' = Placed
    BY <2>1, PlacedNext
  <2>3. RequestsOK' /\ OrdersOwned' /\ AnswersPlaced'
    BY <2>1, <2>2 DEF RequestsOK, OrdersOwned, AnswersPlaced
  <2>4. row[k] # NoRow
    BY <2>1 DEF NoRow
  <2>5. \A j \in Keys : /\ row'[j].order = row[j].order
                        /\ j # k => row'[j] = row[j]
    BY <2>1 DEF ShopTypes
  <2>6. ASSUME NEW j \in Keys
        PROVE  /\ row'[j] # NoRow => row'[j].order \in Placed' /\ order'[row'[j].order].key = j
               /\ row'[j] # NoRow /\ ~row'[j].live => j \in expired'
    BY <2>1, <2>2, <2>4, <2>5 DEF RowsOK
  <2>7. \A o \in Placed : order[o].key \in Keys
    BY DEF Placed, ShopTypes
  <2>8. RowsOK'
    BY <2>1, <2>2, <2>5, <2>6, <2>7 DEF RowsOK
  <2> QED
    BY <2>3, <2>8
<1>16. CASE CartNext
  BY <1>1, <1>16, CartStep
<1>17. CASE UNCHANGED vars
  BY <1>1, <1>17 DEF vars
<1> QED
  BY <1>2, <1>3, <1>4, <1>7, <1>8, <1>9, <1>10, <1>11, <1>12, <1>13, <1>14, <1>15, <1>16, <1>17
     DEF Next, RequestNext

-----------------------------------------------------------------------------
(* No unit reserved twice                                                  *)

Covered(c) ==
  pc[c] \in {"pay", "commit"} =>
    \A i \in Needed(c) : lock[i] = c /\ reserved[i] + snap[c][i] <= Stock[i]

LEMMA StockParts == StockInv <=> NoOverReservation /\ \A c \in Requests : Covered(c)
BY DEF StockInv, Covered

LEMMA StockPartsNext == StockInv' <=> NoOverReservation' /\ \A c \in Requests : Covered(c)'
BY DEF StockInv, Covered

LEMMA StockInit == Init => StockInv
<1> SUFFICES ASSUME Init PROVE StockInv
  OBVIOUS
<1>1. NoOverReservation
  BY DEF Init, NoOverReservation
<1> QED
  BY <1>1 DEF Init, StockInv

\* A request's check stays true while others change neither its locks nor
\* what is reserved of the items it has locked.
LEMMA CoverKept ==
  ASSUME NEW c \in Requests, Covered(c), pc'[c] = pc[c], snap'[c] = snap[c],
         pc[c] \in {"pay", "commit"} =>
           \A i \in Needed(c) : lock'[i] = lock[i] /\ reserved'[i] = reserved[i]
  PROVE  Covered(c)'
BY DEF Covered, Needed

LEMMA CoverElsewhere ==
  ASSUME NEW c \in Requests, pc'[c] \notin {"pay", "commit"}
  PROVE  Covered(c)'
BY DEF Covered

\* A request that gives up its locks takes none from another.
LEMMA UnlockKeeps ==
  ASSUME TypeOK, NEW c \in Requests, Unlock(c)
  PROVE  \A i \in Tracked : lock[i] # c => lock'[i] = lock[i]
BY DEF Unlock

\* Outside the steps that lock and reserve, one request moves on and the rest
\* of the shop stays.
LEMMA StockKept ==
  ASSUME TypeOK, StockInv, NEW c \in Requests, UNCHANGED reserved, UNCHANGED lock \/ Unlock(c),
         pc'[c] \notin {"pay", "commit"},
         \A d \in Requests : d # c => pc'[d] = pc[d] /\ snap'[d] = snap[d]
  PROVE  StockInv'
<1>1. NoOverReservation'
  BY StockParts DEF NoOverReservation
<1>2. ASSUME NEW d \in Requests PROVE Covered(d)'
  <2>1. CASE d = c
    BY <2>1, CoverElsewhere
  <2>2. CASE d # c
    <3>1. Covered(d)
      BY StockParts
    <3>2. ASSUME pc[d] \in {"pay", "commit"}
          PROVE  \A i \in Needed(d) : lock'[i] = lock[i] /\ reserved'[i] = reserved[i]
      <4>1. \A i \in Needed(d) : i \in Tracked /\ lock[i] = d
        BY <3>1, <3>2 DEF Covered, Needed
      <4> QED
        BY <2>2, <4>1, UnlockKeeps
    <3> QED
      BY <2>2, <3>1, <3>2, CoverKept
  <2> QED
    BY <2>1, <2>2
<1> QED
  BY <1>1, <1>2, StockPartsNext

LEMMA ReturnMoves ==
  ASSUME LocalTypes, NEW c \in Requests, Return(c)
  PROVE  /\ pc'[c] = "idle" /\ snap'[c] = Empty
         /\ \A d \in Requests : d # c => pc'[d] = pc[d] /\ snap'[d] = snap[d]
BY DEF LocalTypes, Return, Goto

LEMMA GotoMoves ==
  ASSUME LocalTypes, NEW c \in Requests, NEW s, Goto(c, s)
  PROVE  pc'[c] = s /\ \A d \in Requests : d # c => pc'[d] = pc[d]
BY DEF LocalTypes, Goto

\* Two requests past the stock check hold different locks, so one of them
\* committing leaves the other's check true.
LEMMA StockCommit ==
  ASSUME TypeOK, StockInv, NEW c \in Requests, Commit(c)
  PROVE  StockInv'
<1>1. /\ pc[c] = "commit" /\ Unlock(c) /\ Return(c)
      /\ reserved' = [i \in Tracked |-> reserved[i] + snap[c][i]]
  BY DEF Commit
<1>2. LocalTypes /\ reserved \in [Tracked -> Nat]
  BY TypeParts DEF ShopTypes
<1>3. \A i \in Tracked : snap[c][i] \in Nat /\ reserved[i] \in Nat /\ Stock[i] \in Nat
  BY <1>2 DEF LocalTypes, Lines
<1>4. Covered(c) /\ NoOverReservation
  BY StockParts
<1>5. \A i \in Tracked : i \in Needed(c) \/ snap[c][i] = 0
  BY <1>3 DEF Needed
<1>6. NoOverReservation'
  <2>1. ASSUME NEW i \in Tracked PROVE reserved[i] + snap[c][i] <= Stock[i]
    <3>1. CASE i \in Needed(c)
      BY <1>1, <1>4, <3>1 DEF Covered
    <3>2. CASE snap[c][i] = 0
      BY <1>3, <1>4, <3>2 DEF NoOverReservation
    <3> QED
      BY <1>5, <3>1, <3>2
  <2> QED
    BY <1>1, <2>1 DEF NoOverReservation
<1>7. ASSUME NEW d \in Requests PROVE Covered(d)'
  <2>1. CASE d = c
    <3>1. pc'[d] = "idle"
      BY <1>1, <1>2, <2>1, ReturnMoves
    <3> QED
      BY <3>1, CoverElsewhere
  <2>2. CASE d # c
    <3>1. Covered(d) /\ pc'[d] = pc[d] /\ snap'[d] = snap[d]
      BY <1>1, <1>2, <2>2, StockParts, ReturnMoves
    <3>2. ASSUME pc[d] \in {"pay", "commit"}, NEW i \in Needed(d)
          PROVE  lock'[i] = lock[i] /\ reserved'[i] = reserved[i]
      <4>1. i \in Tracked /\ lock[i] = d
        BY <3>1, <3>2 DEF Covered, Needed
      <4>2. i \notin Needed(c)
        BY <1>1, <1>4, <2>2, <4>1 DEF Covered
      <4>3. snap[c][i] = 0
        BY <1>5, <4>1, <4>2
      <4>4. reserved'[i] = reserved[i]
        BY <1>1, <1>3, <4>1, <4>3
      <4> QED
        BY <1>1, <2>2, <4>1, <4>4, UnlockKeeps
    <3> QED
      BY <3>1, <3>2, CoverKept
  <2> QED
    BY <2>1, <2>2
<1> QED
  BY <1>6, <1>7, StockPartsNext

\* A lock that is taken was free, so no other request is past its check.
LEMMA StockLocked ==
  ASSUME TypeOK, StockInv, NEW c \in Requests, LockStock(c)
  PROVE  StockInv'
<1>1. Lockable(c) /\ UNCHANGED reserved
  BY DEF LockStock, shopVars
<1>2. LocalTypes /\ reserved \in [Tracked -> Nat]
  BY TypeParts DEF ShopTypes
<1>3. CASE Return(c) /\ UNCHANGED lock
  BY <1>1, <1>2, <1>3, ReturnMoves, StockKept
<1>4. CASE /\ \A i \in Needed(c) : Available(i, snap[c][i])
           /\ lock' = [i \in Tracked |-> IF i \in Needed(c) THEN c ELSE lock[i]]
           /\ Goto(c, "pay")
           /\ UNCHANGED locals
  <2>1. NoOverReservation'
    BY <1>1, StockParts DEF NoOverReservation
  <2>2. UNCHANGED snap
    BY <1>4 DEF locals
  <2>3. Covered(c)'
    <3>1. ASSUME NEW i \in Needed(c)
          PROVE  lock'[i] = c /\ reserved[i] + snap[c][i] <= Stock[i]
      <4>1. i \in Tracked /\ snap[c][i] \in Nat /\ reserved[i] \in Nat /\ Stock[i] \in Nat
        BY <1>2 DEF LocalTypes, Lines, Needed
      <4>2. snap[c][i] <= Stock[i] - reserved[i]
        BY <1>4, <4>1 DEF Available
      <4>3. reserved[i] + snap[c][i] <= Stock[i]
        BY <4>1, <4>2
      <4> QED
        BY <1>4, <4>1, <4>3
    <3> QED
      BY <1>1, <2>2, <3>1 DEF Covered, Needed
  <2>4. ASSUME NEW d \in Requests, d # c PROVE Covered(d)'
    <3>1. Covered(d) /\ pc'[d] = pc[d] /\ snap'[d] = snap[d]
      BY <1>2, <1>4, <2>2, <2>4, StockParts, GotoMoves
    <3>2. ASSUME pc[d] \in {"pay", "commit"}, NEW i \in Needed(d)
          PROVE  lock'[i] = lock[i] /\ reserved'[i] = reserved[i]
      <4>1. i \in Tracked /\ lock[i] = d
        BY <3>1, <3>2 DEF Covered, Needed
      <4>2. i \notin Needed(c)
        BY <1>1, <4>1 DEF Lockable
      <4> QED
        BY <1>1, <1>4, <4>1, <4>2
    <3> QED
      BY <3>1, <3>2, CoverKept
  <2> QED
    BY <2>1, <2>3, <2>4, StockPartsNext
<1> QED
  BY <1>3, <1>4 DEF LockStock

LEMMA StockStep ==
  ASSUME TypeOK, StockInv, [Next]_vars
  PROVE  StockInv'
<1>0. LocalTypes
  BY TypeParts
<1>1. CASE UNCHANGED <<reserved, lock, pc, snap>>
  BY <1>1 DEF StockInv, NoOverReservation, Needed
<1>2. ASSUME NEW c \in Requests, NEW s, s \notin {"pay", "commit"}, Goto(c, s),
             UNCHANGED reserved, UNCHANGED lock \/ Unlock(c),
             \A d \in Requests : d # c => snap'[d] = snap[d]
      PROVE  StockInv'
  BY <1>0, <1>2, GotoMoves, StockKept
<1>3. ASSUME NEW c \in Requests, Return(c), UNCHANGED reserved, UNCHANGED lock \/ Unlock(c)
      PROVE  StockInv'
  BY <1>0, <1>3, ReturnMoves, StockKept
<1>4. ASSUME NEW c \in Requests, NEW k \in Keys, NEW b \in Bodies, Begin(c, k, b)
      PROVE  StockInv'
  BY <1>2, <1>4 DEF Begin, shopVars
<1>5. ASSUME NEW c \in Requests, Lookup(c)
      PROVE  StockInv'
  <2>1. CASE Return(c)
    BY <1>3, <1>5, <2>1 DEF Lookup, shopVars
  <2>2. CASE /\ Goto(c, IF row[req[c].key] = NoRow THEN "cart" ELSE "reclaim")
             /\ UNCHANGED locals
    <3>1. (IF row[req[c].key] = NoRow THEN "cart" ELSE "reclaim") \notin {"pay", "commit"}
      OBVIOUS
    <3> QED
      BY <1>2, <1>5, <2>2, <3>1 DEF Lookup, shopVars, locals
  <2> QED
    BY <1>5, <2>1, <2>2 DEF Lookup
<1>6. ASSUME NEW c \in Requests, Reclaim(c)
      PROVE  StockInv'
  BY <1>2, <1>6 DEF Reclaim, locals
<1>7. ASSUME NEW c \in Requests, ReadCart(c)
      PROVE  StockInv'
  <2>1. CASE Return(c)
    BY <1>3, <1>7, <2>1 DEF ReadCart, shopVars
  <2>2. CASE snap' = [snap EXCEPT ![c] = cart] /\ Goto(c, "stock")
    <3>1. \A d \in Requests : d # c => snap'[d] = snap[d]
      BY <1>0, <2>2 DEF LocalTypes
    <3> QED
      BY <1>2, <1>7, <2>2, <3>1 DEF ReadCart, shopVars
  <2> QED
    BY <1>7, <2>1, <2>2 DEF ReadCart
<1>8. ASSUME NEW c \in Requests, Collide(c)
      PROVE  StockInv'
  <2>1. CASE Return(c)
    BY <1>3, <1>8, <2>1 DEF Collide, shopVars
  <2>2. CASE snap' = [snap EXCEPT ![c] = Empty] /\ Goto(c, "cart")
    <3>1. \A d \in Requests : d # c => snap'[d] = snap[d]
      BY <1>0, <2>2 DEF LocalTypes
    <3> QED
      BY <1>2, <1>8, <2>2, <3>1 DEF Collide, shopVars
  <2> QED
    BY <1>8, <2>1, <2>2 DEF Collide
<1>9. ASSUME NEW c \in Requests, NEW o \in Orders, CreatePayment(c, o)
      PROVE  StockInv'
  <2>1. pc[c] = "pay" /\ UNCHANGED <<reserved, lock, snap>>
    BY <1>9 DEF CreatePayment
  <2>2. \A d \in Requests : d # c => pc'[d] = pc[d]
    BY <1>0, <1>9, GotoMoves DEF CreatePayment
  <2> QED
    BY <2>1, <2>2 DEF StockInv, NoOverReservation, Needed
<1>10. ASSUME NEW c \in Requests, LoseKey(c)
       PROVE  StockInv'
  BY <1>2, <1>10 DEF LoseKey, shopVars, locals
<1>11. ASSUME NEW c \in Requests, Replay(c)
       PROVE  StockInv'
  BY <1>3, <1>11 DEF Replay, shopVars
<1>12. ASSUME NEW c \in Requests, RollBack(c)
       PROVE  StockInv'
  BY <1>3, <1>12 DEF RollBack, shopVars
<1>13. ASSUME NEW k \in Keys, ExpireKey(k)
       PROVE  StockInv'
  BY <1>1, <1>13 DEF ExpireKey, locals
<1>14. CASE CartNext
  BY <1>1, <1>14, CartStep DEF shopVars, locals
<1>15. CASE UNCHANGED vars
  BY <1>1, <1>15 DEF vars, shopVars, locals
<1> QED
  BY <1>4, <1>5, <1>6, <1>7, <1>8, <1>9, <1>10, <1>11, <1>12, <1>13, <1>14, <1>15,
     StockLocked, StockCommit
     DEF Next, RequestNext

-----------------------------------------------------------------------------
(* What an order may ask for: something, and no more than was put in       *)

CartBounded == \A i \in Items : cart[i] <= put[i] /\ put[i] <= MaxUnits
HasRead(c) == pc[c] \in {"stock", "pay", "commit"} => snap[c] # Empty
SnapsBounded == \A c \in Requests : HasRead(c) /\ \A i \in Items : snap[c][i] <= MaxUnits

LEMMA BoundedInit == Init => CartBounded /\ SnapsBounded
BY DEF Init, CartBounded, SnapsBounded, HasRead, Empty

LEMMA PutBounded ==
  ASSUME TypeOK, CartBounded, NEW i \in Items, NEW n \in Nat, Put(i, n)
  PROVE  CartBounded'
<1> DEFINE more == IF n > cart[i] THEN n - cart[i] ELSE 0
<1>1. \A j \in Items : cart[j] \in Nat /\ put[j] \in Nat
  BY DEF TypeOK, Lines
<1>2. put[i] + more <= MaxUnits /\ put' = [put EXCEPT ![i] = @ + more] /\ cart' = [cart EXCEPT ![i] = n]
  BY DEF Put
<1>3. n <= put[i] + more
  BY <1>1 DEF CartBounded
<1>4. \A j \in Items : IF j = i THEN cart'[j] = n /\ put'[j] = put[i] + more
                                ELSE cart'[j] = cart[j] /\ put'[j] = put[j]
  BY <1>2 DEF TypeOK, Lines
<1> HIDE DEF more
<1> QED BY <1>2, <1>3, <1>4 DEF CartBounded

LEMMA CartBoundedStep ==
  ASSUME TypeOK, CartBounded, [Next]_vars
  PROVE  CartBounded'
<1>1. ASSUME NEW i \in Items, AddItem(i)
      PROVE  CartBounded'
  <2>1. cart[i] + 1 \in Nat
    BY DEF TypeOK, Lines
  <2> QED BY <1>1, <2>1, PutBounded DEF AddItem
<1>2. ASSUME NEW i \in Items, NEW n \in 0..MaxUnits, UpdateItem(i, n)
      PROVE  CartBounded'
  <2>1. n \in Nat
    BY <1>2
  <2>2. CASE UNCHANGED <<cart, put>>
    BY <2>2 DEF CartBounded
  <2> QED BY <1>2, <2>1, <2>2, PutBounded DEF UpdateItem
<1>3. ASSUME UNCHANGED put, \A i \in Items : cart'[i] = cart[i] \/ cart'[i] = 0
      PROVE  CartBounded'
  <2>1. \A i \in Items : put[i] \in Nat
    BY DEF TypeOK, Lines
  <2> QED BY <1>3, <2>1 DEF CartBounded
<1>4. CASE \E i \in Items : RemoveItem(i) \/ \E n \in 0..MaxUnits : CheckItem(i, n)
  BY <1>3, <1>4 DEF RemoveItem, CheckItem, TypeOK, Lines
<1>5. CASE UNCHANGED cartVars
  BY <1>3, <1>5 DEF cartVars
<1>6. ASSUME NEW c \in Requests, Commit(c)
      PROVE  CartBounded'
  BY <1>3, <1>6 DEF Commit, Spend, Empty
<1>7. ASSUME NEW c \in Requests, RequestNext(c)
      PROVE  CartBounded'
  BY <1>5, <1>6, <1>7, Zenon
     DEF RequestNext, Lookup, Reclaim, ReadCart, LockStock, Collide, CreatePayment, LoseKey, Replay, RollBack
<1>8. CASE UNCHANGED vars
  BY <1>5, <1>8 DEF vars
<1> QED
  BY <1>1, <1>2, <1>4, <1>5, <1>7, <1>8 DEF Next, CartNext, Begin, ExpireKey

\* One request moves on with the cart it has read, or without any.
LEMMA SnapsKept ==
  ASSUME SnapsBounded, NEW c \in Requests,
         \A d \in Requests : d # c => pc'[d] = pc[d] /\ snap'[d] = snap[d],
         \A i \in Items : snap'[c][i] <= MaxUnits, HasRead(c)'
  PROVE  SnapsBounded'
BY DEF SnapsBounded, HasRead

LEMMA SnapsBoundedStep ==
  ASSUME TypeOK, CartBounded, SnapsBounded, [Next]_vars
  PROVE  SnapsBounded'
<1>0. LocalTypes /\ \A i \in Items : Empty[i] <= MaxUnits
  BY TypeParts DEF Empty
<1>1. CASE UNCHANGED <<pc, snap>>
  BY <1>1 DEF SnapsBounded, HasRead
<1>2. ASSUME NEW c \in Requests, Return(c)
      PROVE  SnapsBounded'
  BY <1>0, <1>2, ReturnMoves, SnapsKept DEF HasRead
<1>3. ASSUME NEW c \in Requests, NEW s, Goto(c, s), UNCHANGED snap,
             s \in {"stock", "pay", "commit"} => pc[c] \in {"stock", "pay"}
      PROVE  SnapsBounded'
  <2>1. pc'[c] = s /\ \A d \in Requests : d # c => pc'[d] = pc[d]
    BY <1>0, <1>3, GotoMoves
  <2> QED BY <1>3, <2>1 DEF SnapsBounded, HasRead
<1>4. ASSUME NEW c \in Requests, NEW k \in Keys, NEW b \in Bodies, Begin(c, k, b)
      PROVE  SnapsBounded'
  BY <1>3, <1>4 DEF Begin
<1>5. ASSUME NEW c \in Requests, Lookup(c)
      PROVE  SnapsBounded'
  <2>1. (IF row[req[c].key] = NoRow THEN "cart" ELSE "reclaim") \notin {"stock", "pay", "commit"}
    OBVIOUS
  <2> QED BY <1>2, <1>3, <1>5, <2>1 DEF Lookup, locals
<1>6. ASSUME NEW c \in Requests, ReadCart(c)
      PROVE  SnapsBounded'
  <2>1. CASE cart # Empty /\ snap' = [snap EXCEPT ![c] = cart] /\ Goto(c, "stock")
    <3>1. snap'[c] = cart /\ \A d \in Requests : d # c => pc'[d] = pc[d] /\ snap'[d] = snap[d]
      BY <1>0, <2>1, GotoMoves DEF LocalTypes
    <3>2. \A i \in Items : cart[i] <= MaxUnits
      BY DEF CartBounded, TypeOK, Lines
    <3> QED BY <2>1, <3>1, <3>2, SnapsKept DEF HasRead
  <2> QED BY <1>2, <1>6, <2>1 DEF ReadCart
<1>7. ASSUME NEW c \in Requests, LockStock(c)
      PROVE  SnapsBounded'
  BY <1>2, <1>3, <1>7 DEF LockStock, locals
<1>8. ASSUME NEW c \in Requests, Collide(c)
      PROVE  SnapsBounded'
  <2>1. CASE snap' = [snap EXCEPT ![c] = Empty] /\ Goto(c, "cart")
    <3>1. /\ snap'[c] = Empty /\ pc'[c] = "cart"
          /\ \A d \in Requests : d # c => pc'[d] = pc[d] /\ snap'[d] = snap[d]
      BY <1>0, <2>1, GotoMoves DEF LocalTypes
    <3> QED BY <1>0, <3>1, SnapsKept DEF HasRead
  <2> QED BY <1>2, <1>8, <2>1 DEF Collide
<1>9. ASSUME NEW c \in Requests, NEW o \in Orders, CreatePayment(c, o)
      PROVE  SnapsBounded'
  BY <1>3, <1>9 DEF CreatePayment
<1>10. ASSUME NEW c \in Requests,
              Reclaim(c) \/ Commit(c) \/ LoseKey(c) \/ Replay(c) \/ RollBack(c)
       PROVE  SnapsBounded'
  BY <1>2, <1>3, <1>10 DEF Reclaim, Commit, LoseKey, Replay, RollBack, locals
<1>11. CASE CartNext \/ \E k \in Keys : ExpireKey(k)
  BY <1>1, <1>11, CartStep DEF ExpireKey, locals
<1>12. CASE UNCHANGED vars
  BY <1>1, <1>12 DEF vars, locals
<1> QED
  BY <1>4, <1>5, <1>6, <1>7, <1>8, <1>9, <1>10, <1>11, <1>12 DEF Next, RequestNext

-----------------------------------------------------------------------------
(* The promise of a key                                                    *)

LEMMA OnceInit == Init => Once!Init
BY DEF Init, Once!Init, Once!Nothing, NoRow, Absent, Empty

LEMMA OnceStutters ==
  ASSUME UNCHANGED <<order, row, expired, answers>>
  PROVE  UNCHANGED Once!vars
BY DEF Once!vars

LEMMA OnceRepeats ==
  ASSUME TypeOK, KeysInv, NEW c \in Requests, pc[c] # "idle", row[req[c].key] # NoRow,
         Answer(c, row[req[c].key].order), UNCHANGED <<order, row, expired>>
  PROVE  Once!Next
<1> DEFINE k == req[c].key
           b == req[c].body
<1>1. k \in Keys /\ b \in Bodies /\ row[k].order # NoOrder
  BY RowNamesOrder
<1>2. Once!Repeat(k, b)
  BY <1>1 DEF Once!Repeat, Once!Tell, Answer
<1> QED BY <1>1, <1>2 DEF Once!Next

LEMMA OnceForgets ==
  ASSUME TypeOK, NEW k \in Keys, k \in expired, row' = [row EXCEPT ![k] = NoRow],
         UNCHANGED <<order, expired, answers>>
  PROVE  Once!Next
<1>1. [j \in Keys |-> row'[j].order] = [[j \in Keys |-> row[j].order] EXCEPT ![k] = NoOrder]
  BY DEF TypeOK, NoRow
<1>2. Once!Forget(k)
  BY <1>1 DEF Once!Forget
<1> QED BY <1>2 DEF Once!Next

LEMMA OncePlaces ==
  ASSUME TypeOK, KeysInv, SnapsBounded, NEW c \in Requests, Commit(c)
  PROVE  Once!Next
<1>1. pc[c] = "commit"
  BY DEF Commit
<1>2. req[c].key \in Keys /\ req[c].body \in Bodies /\ mine[c] \in Orders /\ order[mine[c]].key = NoKey
  BY <1>1, RowNamesOrder, OwnOrder DEF Placed
<1>3. SUFFICES ASSUME NEW k \in Keys, NEW b \in Bodies, NEW o \in Orders,
                      k = req[c].key, b = req[c].body, o = mine[c]
               PROVE  Once!Next
  BY <1>2
<1>4. snap[c] \in [Items -> 0..MaxUnits] \ {Once!Nothing}
  <2>1. snap[c] \in [Items -> Nat] /\ snap[c] # Empty /\ \A i \in Items : snap[c][i] <= MaxUnits
    BY <1>1 DEF TypeOK, Lines, SnapsBounded, HasRead
  <2> QED BY <2>1 DEF Once!Nothing, Empty
<1>5. /\ row[k] = NoRow /\ row' = [row EXCEPT ![k] = [order |-> o, body |-> b, live |-> TRUE]]
      /\ order' = [order EXCEPT ![o] = [key |-> k, body |-> b, lines |-> snap[c]]]
      /\ Answer(c, o) /\ UNCHANGED expired
  BY <1>3 DEF Commit, Insertable
<1>6. [j \in Keys |-> row'[j].order] = [[j \in Keys |-> row[j].order] EXCEPT ![k] = o]
  BY <1>5 DEF TypeOK
<1>7. Once!Tell(k, b, o)
  BY <1>3, <1>5 DEF Once!Tell, Answer
<1>8. [j \in Keys |-> row[j].order][k] = NoOrder
  BY <1>5 DEF NoRow
<1>9. \E lines \in [Items -> 0..MaxUnits] \ {Once!Nothing} :
        order' = [order EXCEPT ![o] = [key |-> k, body |-> b, lines |-> lines]]
  BY <1>4, <1>5
<1>10. order[o].key = NoKey
  BY <1>2, <1>3
<1>11. Once!Place(k, b, o)
  BY <1>5, <1>6, <1>7, <1>8, <1>9, <1>10 DEF Once!Place
<1> QED BY <1>11 DEF Once!Next

LEMMA OnceExpires ==
  ASSUME TypeOK, KeysInv, NEW k \in Keys, ExpireKey(k)
  PROVE  Once!Next
<1>1. row[k].live /\ row' = [row EXCEPT ![k].live = FALSE] /\ expired' = expired \cup {k}
      /\ UNCHANGED <<order, answers>>
  BY DEF ExpireKey
<1>2. row[k] # NoRow
  BY <1>1 DEF NoRow
<1>3. row[k].order # NoOrder
  BY <1>2 DEF KeysInv, RowsOK, Placed
<1>4. [j \in Keys |-> row'[j].order] = [j \in Keys |-> row[j].order]
  BY <1>1 DEF TypeOK
<1>5. Once!Expire(k)
  BY <1>1, <1>3, <1>4 DEF Once!Expire
<1> QED BY <1>5 DEF Once!Next

LEMMA OnceStep ==
  ASSUME TypeOK, KeysInv, SnapsBounded, [Next]_vars
  PROVE  [Once!Next]_(Once!vars)
<1>1. CASE UNCHANGED <<order, row, expired, answers>>
  BY <1>1, OnceStutters
<1>2. ASSUME NEW c \in Requests, Lookup(c)
      PROVE  [Once!Next]_(Once!vars)
  <2>1. UNCHANGED <<order, row, expired>> /\ pc[c] # "idle"
    BY <1>2 DEF Lookup, shopVars
  <2>2. CASE row[req[c].key].live /\ Answer(c, row[req[c].key].order)
    BY <2>1, <2>2, OnceRepeats DEF NoRow
  <2> QED BY <1>1, <1>2, <2>1, <2>2 DEF Lookup
<1>3. ASSUME NEW c \in Requests, Reclaim(c)
      PROVE  [Once!Next]_(Once!vars)
  <2>1. req[c].key \in Keys /\ req[c].key \in expired
    BY <1>3 DEF Reclaim, KeysInv, RequestsOK
  <2> QED BY <1>3, <2>1, OnceForgets DEF Reclaim
<1>4. ASSUME NEW c \in Requests, Replay(c)
      PROVE  [Once!Next]_(Once!vars)
  <2>1. UNCHANGED <<order, row, expired>> /\ pc[c] # "idle"
    BY <1>4 DEF Replay, shopVars
  <2>2. CASE row[req[c].key] # NoRow /\ Answer(c, WinnersOrder(c))
    BY <2>1, <2>2, OnceRepeats DEF WinnersOrder
  <2> QED BY <1>1, <1>4, <2>1, <2>2 DEF Replay
<1>5. ASSUME NEW c \in Requests, RequestNext(c)
      PROVE  [Once!Next]_(Once!vars)
  <2>1. CASE \/ ReadCart(c) \/ LockStock(c) \/ Collide(c) \/ LoseKey(c) \/ RollBack(c)
             \/ \E o \in Orders : CreatePayment(c, o)
    BY <1>1, <2>1, Zenon DEF ReadCart, LockStock, Collide, LoseKey, RollBack, CreatePayment, shopVars
  <2> QED BY <1>2, <1>3, <1>4, <1>5, <2>1, OncePlaces DEF RequestNext
<1>6. CASE CartNext
  BY <1>1, <1>6, CartStep DEF shopVars
<1>7. ASSUME NEW c \in Requests, NEW k \in Keys, NEW b \in Bodies, Begin(c, k, b)
      PROVE  [Once!Next]_(Once!vars)
  BY <1>1, <1>7 DEF Begin, shopVars
<1>8. CASE UNCHANGED vars
  BY <1>1, <1>8 DEF vars, shopVars
<1> QED BY <1>5, <1>6, <1>7, <1>8, OnceExpires DEF Next

-----------------------------------------------------------------------------
(* The promise about stock                                                 *)

LEMMA ShelfInit == Init => Shelf!Init
BY DEF Init, Shelf!Init, Absent, Empty

LEMMA ShelfHolds ==
  ASSUME TypeOK, KeysInv, StockInv, SnapsBounded, NEW c \in Requests, Commit(c)
  PROVE  Shelf!Next
<1>1. pc[c] = "commit"
  BY DEF Commit
<1>2. mine[c] \in Orders /\ order[mine[c]].key = NoKey /\ req[c].key \in Keys
  BY <1>1, RowNamesOrder, OwnOrder DEF Placed
<1>3. \A i \in Tracked : /\ snap[c][i] \in 0..MaxUnits
                         /\ reserved[i] \in Nat /\ Stock[i] \in Nat
  BY DEF TypeOK, Lines, SnapsBounded
<1>4. SUFFICES ASSUME NEW o \in Orders, NEW units \in [Tracked -> 0..MaxUnits],
                      o = mine[c], units = [i \in Tracked |-> snap[c][i]]
               PROVE  Shelf!Next
  <2>1. [i \in Tracked |-> snap[c][i]] \in [Tracked -> 0..MaxUnits]
    BY <1>3
  <2> QED BY <1>2, <2>1
<1>5. /\ order' = [order EXCEPT ![o] = [key |-> req[c].key, body |-> req[c].body, lines |-> snap[c]]]
      /\ reserved' = [i \in Tracked |-> reserved[i] + snap[c][i]]
  BY <1>4 DEF Commit
<1>6. \A i \in Tracked : units[i] > 0 => units[i] <= Stock[i] - reserved[i]
  <2> SUFFICES ASSUME NEW i \in Tracked, snap[c][i] > 0
               PROVE  snap[c][i] <= Stock[i] - reserved[i]
    BY <1>4
  <2>1. reserved[i] + snap[c][i] <= Stock[i]
    BY <1>1, StockParts DEF Covered, Needed
  <2> QED BY <1>3, <2>1
<1>7. [i \in Tracked |-> Stock[i] - reserved'[i]] = [i \in Tracked |-> (Stock[i] - reserved[i]) - units[i]]
  BY <1>3, <1>4, <1>5
<1>8. [p \in Orders |-> [i \in Tracked |-> order'[p].lines[i]]]
        = [[p \in Orders |-> [i \in Tracked |-> order[p].lines[i]]] EXCEPT ![o] = units]
  BY <1>2, <1>4, <1>5 DEF TypeOK
<1>9. [p \in Orders |-> IF order'[p].key = NoKey THEN "none" ELSE "holding"]
        = [[p \in Orders |-> IF order[p].key = NoKey THEN "none" ELSE "holding"] EXCEPT ![o] = "holding"]
  BY <1>2, <1>4, <1>5 DEF TypeOK
<1>10. /\ [p \in Orders |-> IF order[p].key = NoKey THEN "none" ELSE "holding"][o] = "none"
       /\ \A i \in Tracked : units[i] > 0 => units[i] <= [j \in Tracked |-> Stock[j] - reserved[j]][i]
       /\ [i \in Tracked |-> Stock[i] - reserved'[i]]
            = [i \in Tracked |-> [j \in Tracked |-> Stock[j] - reserved[j]][i] - units[i]]
  BY <1>2, <1>4, <1>6, <1>7
<1>11. Shelf!Hold(o, units)
  BY <1>8, <1>9, <1>10, Zenon DEF Shelf!Hold
<1> QED BY <1>11 DEF Shelf!Next

LEMMA ShelfStep ==
  ASSUME TypeOK, KeysInv, StockInv, SnapsBounded, [Next]_vars
  PROVE  [Shelf!Next]_(Shelf!vars)
<1>1. CASE UNCHANGED <<order, reserved>>
  BY <1>1 DEF Shelf!vars
<1>2. ASSUME NEW c \in Requests, RequestNext(c)
      PROVE  [Shelf!Next]_(Shelf!vars)
  <2>1. CASE ~Commit(c)
    BY <1>1, <1>2, <2>1, Zenon
       DEF RequestNext, Lookup, Reclaim, ReadCart, LockStock, Collide, CreatePayment, LoseKey, Replay,
           RollBack, shopVars
  <2> QED BY <2>1, ShelfHolds
<1>3. CASE CartNext
  BY <1>1, <1>3, CartStep DEF shopVars
<1>4. CASE UNCHANGED vars
  BY <1>1, <1>4 DEF vars, shopVars
<1> QED BY <1>1, <1>2, <1>3, <1>4 DEF Next, Begin, ExpireKey, shopVars

-----------------------------------------------------------------------------
(* Theorems                                                                *)

IInv == TypeOK /\ KeysInv /\ StockInv /\ CartBounded /\ SnapsBounded

LEMMA Invariance == Spec => []IInv
<1>1. Init => IInv
  BY TypeInit, KeysInit, StockInit, BoundedInit DEF IInv
<1>2. IInv /\ [Next]_vars => IInv'
  BY TypeStep, KeysStep, StockStep, CartBoundedStep, SnapsBoundedStep DEF IInv
<1> QED
  BY <1>1, <1>2, PTL DEF Spec

\* Every variable keeps its type through every interleaving of requests,
\* cart changes, rollbacks and expiries.
THEOREM TypeCorrect == Spec => []TypeOK
<1>1. IInv => TypeOK
  BY DEF IInv
<1> QED
  BY <1>1, Invariance, PTL

\* Any number of requests under one Idempotency-Key, in any order, place at
\* most one order until the key expires: the key's row is created in the
\* transaction that places the order (checkout.service.ts, step 11).
THEOREM KeysAreUsedOnce == Spec => []OneOrderPerKey
<1>1. IInv => OneOrderPerKey
  BY DEF IInv, KeysInv, RowsOK, OneOrderPerKey
<1> QED
  BY <1>1, Invariance, PTL

\* Whoever is answered under a key is answered with an order that was placed
\* under it, and everyone with the same one until it expires: the winner, a
\* replay and the loser of a race.
THEOREM ReplaysAgree == Spec => []AnswersAgree
<1>1. IInv => AnswersAgree
  <2> SUFFICES ASSUME IInv PROVE AnswersAgree
    OBVIOUS
  <2>1. TypeOK /\ RowsOK /\ AnswersPlaced
    BY DEF IInv, KeysInv
  <2>2. ASSUME NEW a \in answers, a.key \notin expired PROVE a.order = row[a.key].order
    <3>1. a.order \in Orders /\ a.key \in Keys /\ order[a.order].key = a.key
      BY <2>1, TypeParts DEF AnswerTypes, Answers, AnswersPlaced
    <3>2. a.order \in Placed
      BY <3>1 DEF Placed
    <3> QED
      BY <2>1, <2>2, <3>1, <3>2 DEF RowsOK
  <2> QED
    BY <2>1, <2>2 DEF AnswersAgree, AnswersPlaced
<1> QED
  BY <1>1, Invariance, PTL

\* However many requests race over the same items, what they reserve together
\* never exceeds the stock: the check and the reservation are separate steps,
\* held together by the row locks (stock-lock.ts).
THEOREM NothingIsReservedTwice == Spec => []NoOverReservation
<1>1. IInv => NoOverReservation
  BY DEF IInv, StockInv
<1> QED
  BY <1>1, Invariance, PTL

\* Requests that race, lose, roll back, die and are sent again do together
\* what one atomic step would: initiate implements CheckoutPromise.
THEOREM CheckoutIsAtomic == Spec => OncePerKey
<1>1. Init => Once!Init
  BY OnceInit
<1>2. IInv /\ [Next]_vars => [Once!Next]_(Once!vars)
  BY OnceStep DEF IInv
<1> QED
  BY <1>1, <1>2, Invariance, PTL DEF Spec, OncePerKey, Once!Spec

\* A checkout, taken apart into the reads, locks and writes of runCheckout,
\* holds the units of an order as StockPromise says: all at once, free ones
\* only. OrderStock may take it for one step.
THEOREM StockIsHeldAtOnce == Spec => HoldsAtOnce
<1>1. Init => Shelf!Init
  BY ShelfInit
<1>2. IInv /\ [Next]_vars => [Shelf!Next]_(Shelf!vars)
  BY ShelfStep DEF IInv
<1> QED
  BY <1>1, <1>2, Invariance, PTL DEF Spec, HoldsAtOnce, Shelf!Spec
=============================================================================
