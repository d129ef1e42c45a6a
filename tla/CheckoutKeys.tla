---------------------------- MODULE CheckoutKeys ----------------------------
(***************************************************************************)
(* Concurrent requests to check out one cart: CheckoutService.initiate and *)
(* runCheckout with the Idempotency-Key, the stock lock and the payment    *)
(* intent, and CartService, which changes the cart in the meantime.        *)
(*                                                                         *)
(* OrderStock takes a checkout as one atomic step that finds its lines     *)
(* given; here it is the transaction the code runs, step by step: the cart *)
(* is read before the stock is locked, the key is inserted last, and a     *)
(* request that loses on the key rolls everything back but the intent.     *)
(***************************************************************************)
EXTENDS Integers, FiniteSets

CONSTANTS
  Requests,      \* requests that may be running at the same time
  Keys,          \* values of the Idempotency-Key header
  Bodies,        \* request bodies with different hashes
  Orders,        \* identities of orders, one for each attempt (a bound)
  Items,         \* variants that may be in the cart
  Stock,         \* free units of each variant that tracks stock
  MaxUnits,      \* bound on the units of a variant that are put in the cart
  MaxWrites,     \* bound on the writes to the cart that are under way at once
  MaxAttempts,   \* MAX_ORDER_NUMBER_ATTEMPTS
  KeysMayExpire, \* may CHECKOUT_IDEMPOTENCY_TTL_HOURS pass?
  NoRequest, NoOrder, NoKey, NoBody \* absent values

Tracked == DOMAIN Stock

ASSUME TrackedAssumption == Tracked \subseteq Items
ASSUME StockAssumption == Stock \in [Tracked -> Nat]
ASSUME BoundsAssumption == {MaxUnits, MaxWrites} \subseteq Nat /\ MaxAttempts \in Nat \ {0}
ASSUME SwitchAssumption == KeysMayExpire \in BOOLEAN
ASSUME AbsentAssumption == /\ NoRequest \notin Requests /\ NoOrder \notin Orders
                           /\ NoKey \notin Keys /\ NoBody \notin Bodies

VARIABLES
  cart,      \* CartItem.quantity, 0 without a row
  writes,    \* how many writes to it have passed their availability check: <<i, 0>>
             \* adds a unit of i, <<i, n>> sets its quantity to n
  put,       \* units put in the cart so far
  order,     \* the committed orders
  reserved,  \* InventoryItem.reserved
  intent,    \* orders for which Stripe holds a PaymentIntent
  row,       \* the IdempotencyKey rows
  expired,   \* keys of which a row has expired
  answers,   \* responses sent so far
  lock,      \* the request that has locked the row of an InventoryItem
  pc,        \* the next step of each request
  req,       \* its key and body
  snap,      \* the cart as its transaction has read it
  mine,      \* the order its transaction has created
  attempt    \* its attempt at an order number

cartVars == <<cart, writes, put>>
shopVars == <<order, reserved, intent, row, expired>>
locals   == <<req, snap, mine, attempt>>
vars == <<cartVars, shopVars, answers, lock, pc, locals>>

Empty == [i \in Items |-> 0]
Lines == [Items -> Nat]
Writes == Items \X (0..MaxUnits)
NoRow == [order |-> NoOrder, body |-> NoBody, live |-> FALSE]
Absent == [key |-> NoKey, body |-> NoBody, lines |-> Empty]
Steps == {"idle", "lookup", "reclaim", "cart", "stock", "pay", "commit", "lost"}

TypeOK ==
  /\ cart \in Lines /\ put \in Lines
  /\ writes \in [Writes -> Nat]
  /\ order \in [Orders -> [key : Keys \cup {NoKey}, body : Bodies \cup {NoBody}, lines : Lines]]
  /\ reserved \in [Tracked -> Nat]
  /\ intent \in SUBSET Orders
  /\ row \in [Keys -> [order : Orders \cup {NoOrder}, body : Bodies \cup {NoBody}, live : BOOLEAN]]
  /\ expired \in SUBSET Keys
  /\ answers \in SUBSET [key : Keys, body : Bodies, order : Orders]
  /\ lock \in [Tracked -> Requests \cup {NoRequest}]
  /\ pc \in [Requests -> Steps]
  /\ req \in [Requests -> [key : Keys \cup {NoKey}, body : Bodies \cup {NoBody}]]
  /\ snap \in [Requests -> Lines]
  /\ mine \in [Requests -> Orders \cup {NoOrder}]
  /\ attempt \in [Requests -> 0..MaxAttempts]

Init ==
  /\ cart = Empty /\ put = Empty
  /\ writes = [w \in Writes |-> 0]
  /\ order = [o \in Orders |-> Absent]
  /\ reserved = [i \in Tracked |-> 0]
  /\ intent = {}
  /\ row = [k \in Keys |-> NoRow]
  /\ expired = {}
  /\ answers = {}
  /\ lock = [i \in Tracked |-> NoRequest]
  /\ pc = [c \in Requests |-> "idle"]
  /\ req = [c \in Requests |-> [key |-> NoKey, body |-> NoBody]]
  /\ snap = [c \in Requests |-> Empty]
  /\ mine = [c \in Requests |-> NoOrder]
  /\ attempt = [c \in Requests |-> 0]

-----------------------------------------------------------------------------
(* The cart                                                                *)

Available(i, n) == i \in Tracked => n <= Stock[i] - reserved[i]

UnderWay == Cardinality({u \in Writes \X (1..MaxWrites) : u[2] <= writes[u[1]]})

\* addItem and updateItemQuantity read availability and the cart; equal requests
\* may all have done so before the first of them writes ...
CheckItem(i, n) ==
  /\ UnderWay < MaxWrites
  /\ \/ n = 0 /\ Available(i, cart[i] + 1)
     \/ n > 0 /\ cart[i] > 0 /\ Available(i, n)
  /\ writes' = [writes EXCEPT ![<<i, n>>] = @ + 1]
  /\ UNCHANGED <<cart, put, shopVars, answers, lock, pc, locals>>

\* ... and then write, whatever has become of either.
Put(i, n) ==
  LET more == IF n > cart[i] THEN n - cart[i] ELSE 0
  IN /\ put[i] + more <= MaxUnits
     /\ put' = [put EXCEPT ![i] = @ + more]
     /\ cart' = [cart EXCEPT ![i] = n]

Written(i, n) ==
  /\ writes[<<i, n>>] > 0
  /\ writes' = [writes EXCEPT ![<<i, n>>] = @ - 1]

\* An add increments the row there is, or creates it.
AddItem(i) ==
  /\ Written(i, 0)
  /\ Put(i, cart[i] + 1)
  /\ UNCHANGED <<shopVars, answers, lock, pc, locals>>

\* An update sets the quantity of the row, and is an error without it.
UpdateItem(i, n) ==
  /\ n > 0
  /\ Written(i, n)
  /\ \/ cart[i] > 0 /\ Put(i, n)
     \/ cart[i] = 0 /\ UNCHANGED <<cart, put>>
  /\ UNCHANGED <<shopVars, answers, lock, pc, locals>>

RemoveItem(i) ==
  /\ cart[i] > 0
  /\ cart' = [cart EXCEPT ![i] = 0]
  /\ UNCHANGED <<writes, put, shopVars, answers, lock, pc, locals>>

-----------------------------------------------------------------------------
(* initiate                                                                *)

Goto(c, step) == pc' = [pc EXCEPT ![c] = step]

\* The locks of a transaction end with it.
Unlock(c) == lock' = [i \in Tracked |-> IF lock[i] = c THEN NoRequest ELSE lock[i]]

\* The request is over, with a response or an error.
Return(c) ==
  /\ Goto(c, "idle")
  /\ req' = [req EXCEPT ![c] = [key |-> NoKey, body |-> NoBody]]
  /\ snap' = [snap EXCEPT ![c] = Empty]
  /\ mine' = [mine EXCEPT ![c] = NoOrder]
  /\ attempt' = [attempt EXCEPT ![c] = 0]

Answer(c, o) ==
  answers' = answers \cup {[key |-> req[c].key, body |-> req[c].body, order |-> o]}

Begin(c, k, b) ==
  /\ pc[c] = "idle"
  /\ Goto(c, "lookup")
  /\ req' = [req EXCEPT ![c] = [key |-> k, body |-> b]]
  /\ attempt' = [attempt EXCEPT ![c] = 1]
  /\ UNCHANGED <<cartVars, shopVars, answers, lock, snap, mine>>

\* Bug: a row of another request is taken for an expired one.
ReusableByOthers(c) == ~row[req[c].key].live \/ row[req[c].key].body # req[c].body

\* There is no row, or it has expired.
Reusable(c) == ~row[req[c].key].live

\* checkForReplayOrConflict: replay, conflict, an expired row, or none.
Lookup(c) ==
  LET found == row[req[c].key]
  IN /\ pc[c] = "lookup"
     /\ \/ found.live /\ found.body = req[c].body /\ Return(c) /\ Answer(c, found.order)
        \/ found.live /\ found.body # req[c].body /\ Return(c) /\ UNCHANGED answers
        \/ /\ Reusable(c)
           /\ Goto(c, IF found = NoRow THEN "cart" ELSE "reclaim")
           /\ UNCHANGED <<answers, locals>>
     /\ UNCHANGED <<cartVars, shopVars, lock>>

\* The expired row is deleted by its key, whatever the key holds by now.
Reclaim(c) ==
  /\ pc[c] = "reclaim"
  /\ row' = [row EXCEPT ![req[c].key] = NoRow]
  /\ Goto(c, "cart")
  /\ UNCHANGED <<cartVars, order, reserved, intent, expired, answers, lock, locals>>

\* The transaction begins; an empty cart is an error.
ReadCart(c) ==
  /\ pc[c] = "cart"
  /\ \/ /\ cart # Empty
        /\ snap' = [snap EXCEPT ![c] = cart]
        /\ Goto(c, "stock")
        /\ UNCHANGED <<req, mine, attempt>>
     \/ cart = Empty /\ Return(c)
  /\ UNCHANGED <<cartVars, shopVars, answers, lock>>

Needed(c) == {i \in Tracked : snap[c][i] > 0}

\* Bug: availability is read without FOR UPDATE.
ReadUnlocked(c) == TRUE

\* A row lock is waited for.
Lockable(c) == \A i \in Needed(c) : lock[i] = NoRequest

\* The rows are locked and availability is read under the locks.
LockStock(c) ==
  /\ pc[c] = "stock"
  /\ Lockable(c)
  /\ \/ /\ \A i \in Needed(c) : Available(i, snap[c][i])
        /\ lock' = [i \in Tracked |-> IF i \in Needed(c) THEN c ELSE lock[i]]
        /\ Goto(c, "pay")
        /\ UNCHANGED locals
     \/ /\ \E i \in Needed(c) : ~Available(i, snap[c][i])
        /\ Return(c)
        /\ UNCHANGED lock
  /\ UNCHANGED <<cartVars, shopVars, answers>>

\* order.create collides with another order's number: the transaction is
\* rolled back and the next attempt starts from the cart.
Collide(c) ==
  /\ pc[c] = "pay"
  /\ Unlock(c)
  /\ \/ /\ attempt[c] < MaxAttempts
        /\ attempt' = [attempt EXCEPT ![c] = @ + 1]
        /\ snap' = [snap EXCEPT ![c] = Empty]
        /\ Goto(c, "cart")
        /\ UNCHANGED <<req, mine>>
     \/ attempt[c] = MaxAttempts /\ Return(c)
  /\ UNCHANGED <<cartVars, shopVars, answers>>

\* The order has its identity, and Stripe an intent for it, before anything
\* is committed.
CreatePayment(c, o) ==
  /\ pc[c] = "pay"
  /\ o \notin intent
  /\ intent' = intent \cup {o}
  /\ mine' = [mine EXCEPT ![c] = o]
  /\ Goto(c, "commit")
  /\ UNCHANGED <<cartVars, order, reserved, row, expired, answers, lock, req, snap, attempt>>

\* Bug: the row is upserted.
Upsertable(k) == TRUE

\* IdempotencyKey.key is the primary key, and the row is created, not upserted.
Insertable(k) == row[k] = NoRow

\* The cart is emptied as it is now.
Spend(c) == cart' = Empty

Commit(c) ==
  LET k == req[c].key
  IN /\ pc[c] = "commit"
     /\ Insertable(k)
     /\ order' = [order EXCEPT ![mine[c]] =
                    [key |-> k, body |-> req[c].body, lines |-> snap[c]]]
     /\ reserved' = [i \in Tracked |-> reserved[i] + snap[c][i]]
     /\ row' = [row EXCEPT ![k] = [order |-> mine[c], body |-> req[c].body, live |-> TRUE]]
     /\ Spend(c)
     /\ Answer(c, mine[c])
     /\ Unlock(c)
     /\ Return(c)
     /\ UNCHANGED <<writes, put, intent, expired>>

\* The insert of the key fails; order, reservation and payment are rolled
\* back, the intent at Stripe is not.
LoseKey(c) ==
  /\ pc[c] = "commit"
  /\ ~Insertable(req[c].key)
  /\ Unlock(c)
  /\ Goto(c, "lost")
  /\ UNCHANGED <<cartVars, shopVars, answers, locals>>

\* Bug: the response of the transaction that was rolled back is returned.
LosersOrder(c) == mine[c]

\* The winner's snapshot is returned, without a look at its requestHash.
WinnersOrder(c) == row[req[c].key].order

Replay(c) ==
  /\ pc[c] = "lost"
  /\ Return(c)
  /\ \/ row[req[c].key] # NoRow /\ Answer(c, WinnersOrder(c))
     \/ row[req[c].key] = NoRow /\ UNCHANGED answers
  /\ UNCHANGED <<cartVars, shopVars, lock>>

\* Validation, a quote, Stripe or the process fails inside the transaction.
RollBack(c) ==
  /\ pc[c] \in {"stock", "pay", "commit"}
  /\ Unlock(c)
  /\ Return(c)
  /\ UNCHANGED <<cartVars, shopVars, answers>>

ExpireKey(k) ==
  /\ KeysMayExpire
  /\ row[k].live
  /\ row' = [row EXCEPT ![k].live = FALSE]
  /\ expired' = expired \cup {k}
  /\ UNCHANGED <<cartVars, order, reserved, intent, answers, lock, pc, locals>>

-----------------------------------------------------------------------------
CartNext ==
  \E i \in Items :
    \/ AddItem(i) \/ RemoveItem(i)
    \/ \E n \in 0..MaxUnits : CheckItem(i, n) \/ UpdateItem(i, n)

RequestNext(c) ==
  \/ Lookup(c) \/ Reclaim(c) \/ ReadCart(c) \/ LockStock(c) \/ Collide(c)
  \/ \E o \in Orders : CreatePayment(c, o)
  \/ Commit(c) \/ LoseKey(c) \/ Replay(c) \/ RollBack(c)

Next ==
  \/ CartNext
  \/ \E c \in Requests : RequestNext(c) \/ \E k \in Keys, b \in Bodies : Begin(c, k, b)
  \/ \E k \in Keys : ExpireKey(k)

Spec == Init /\ [][Next]_vars
-----------------------------------------------------------------------------
(* Properties                                                              *)

Placed == {o \in Orders : order[o].key # NoKey}

\* Requests with one key, racing or retried, place one order at most, unless
\* the key has expired.
OneOrderPerKey ==
  \A o, p \in Placed : order[o].key = order[p].key /\ order[o].key \notin expired => o = p

\* Whoever is answered under one key is answered with the same order, by the
\* request that placed it, a replay or the loser of a race; the order was
\* placed under that key, and it was committed.
AnswersAgree ==
  /\ \A a \in answers : order[a.order].key = a.key
  /\ \A a, b \in answers : a.key = b.key /\ a.key \notin expired => a.order = b.order

\* Checking availability and reserving are apart in time, and the cart is
\* read before both: no race reserves more than there is.
NoOverReservation == \A i \in Tracked : reserved[i] <= Stock[i]

\* Seen from its keys, the transaction with its locks, lost races, rollbacks
\* and replays is one atomic step, and a key promises what CheckoutPromise
\* says: nobody is told of an order that is not placed under the key.
Once == INSTANCE CheckoutPromise WITH current <- [k \in Keys |-> row[k].order]
OncePerKey == Once!Spec

\* Seen from the stock, it holds all units of an order at once or none, which
\* is the step that OrderStock and StockPromise take a checkout for.
Shelf == INSTANCE StockPromise WITH
  Items <- Tracked, MaxQty <- MaxUnits, InitialFree <- Stock,
  free <- [i \in Tracked |-> Stock[i] - reserved[i]],
  counted <- [i \in Tracked |-> 0],
  held <- [o \in Orders |-> [i \in Tracked |-> order[o].lines[i]]],
  phase <- [o \in Orders |-> IF order[o].key = NoKey THEN "none" ELSE "holding"]
HoldsAtOnce == Shelf!Spec

\* A cart is spent once: no unit put in the cart is ordered twice. The code
\* breaks this for requests under different keys: see the README.
SpentOnce == \A i \in Items : \A o, p \in Placed : o # p => order[o].lines[i] + order[p].lines[i] <= put[i]

\* What makes these inductive. A key that has not expired names the only order
\* placed under it; a row is deleted under expired keys alone; an order that is
\* not committed yet belongs to one request; and a request past the stock
\* check holds the locks that keep its check true.
RequestsOK ==
  \A c \in Requests :
    /\ pc[c] # "idle" => req[c].key \in Keys /\ req[c].body \in Bodies
    /\ pc[c] = "reclaim" => req[c].key \in expired
    /\ pc[c] = "commit" => mine[c] \in intent

OrdersOwned ==
  /\ Placed \subseteq intent
  /\ \A c \in Requests :
       /\ mine[c] \notin Placed
       /\ mine[c] # NoOrder => mine[c] \in intent
       /\ \A d \in Requests \ {c} : mine[c] = mine[d] => mine[c] = NoOrder

RowsOK ==
  /\ \A k \in Keys : /\ row[k] # NoRow => row[k].order \in Placed /\ order[row[k].order].key = k
                     /\ row[k] # NoRow /\ ~row[k].live => k \in expired
  /\ \A o \in Placed : order[o].key \notin expired => row[order[o].key].order = o

AnswersPlaced == \A a \in answers : order[a.order].key = a.key

KeysInv == RequestsOK /\ OrdersOwned /\ RowsOK /\ AnswersPlaced

StockInv ==
  /\ NoOverReservation
  /\ \A c \in Requests : pc[c] \in {"pay", "commit"} =>
       \A i \in Needed(c) : lock[i] = c /\ reserved[i] + snap[c][i] <= Stock[i]
=============================================================================
