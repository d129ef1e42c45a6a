# Âme de Fil: specifications, model checks and proofs

TLA+ modules for the shop: its API (`apps/api/src`, NestJS over one Postgres
database, Stripe as payment provider, Shipmondo as carrier) and the pages of
its two Next.js applications where they decide something
(`apps/storefront/src`, `apps/admin/src`), the TLC configurations that check
them on small instances, and TLAPS proofs of their main theorems for every
value of the constants. `PROJECT.json` maps every definition to the lines it
is translated from and lists runs, mutants, findings, hazards and theorems.
Source paths below are relative to `apps/api/src`, unless they begin with
`apps/` or `docs/`.

To check a run: `tlc -config Settle.cfg MCOrderStock.tla`; to check a proof:
`tlapm OrderStockProofs.tla`.

## The system

Several instances of the API may run at once. They share nothing but the
database: every request is a sequence of Prisma transactions and single
statements at READ COMMITTED, with row locks (`SELECT ... FOR UPDATE`),
guarded updates (`UPDATE ... WHERE status = ...`, the row count checked) and
unique constraints as the only means of coordination. Stripe, the carrier and
the mail server are called between transactions, never inside one, except for
the creation of a payment intent during checkout.

### Inventory of components

| Component | State | Operations | Hard behaviour | What makes it correct | Modelled in |
|---|---|---|---|---|---|
| Checkout (`checkout/`) | Order, OrderItem, Payment, StockReservation, InventoryItem.reserved, IdempotencyKey, CartItem | `initiate`, `runCheckout` | two carts compete for the last unit; one key or one cart used twice at once; Stripe called inside the transaction | never oversells; reserved is exact; one order per key | `OrderStock`, `CheckoutKeys`, `CheckoutPage` |
| Reservation expiry (`checkout/reservation-expiry.*`) | the sweep's snapshot, in memory | `releaseExpiredReservations` | snapshot read outside the transactions; several instances sweep; a tick stops half-way | releases once; everything unpaid is released in the end | `OrderStock` |
| Stripe webhook (`payments/payments-webhook.*`) | WebhookEvent, Payment, PaymentAttempt, Order, stock | `handle` | duplicated and reordered events, races with the sweep, a crash after the claim | money and order agree; stock leaves once; mail sent once | `OrderStock` |
| Stripe provider (`payments/stripe-payment.provider.ts`) | at Stripe | intents, refunds, event mapping | answers that get lost; retries | the same request never acts twice | partly |
| Inventory (`inventory/`) | InventoryItem, InventoryMovement | `adjustStock`; listings | adjusting stock that orders hold | onHand equals the movement log | `OrderStock` |
| Order administration (`orders/`) | Refund, Payment, Order, Shipment, AuditLog, IdempotencyKey | `issueRefund`, `markReadyToShip`, `markShipped`, `markDelivered` | Stripe called outside any lock, crash and resume under a key, concurrent refunds and fulfilment | never refunds more than captured; restocks once; statuses agree with the money | `RefundFlow` |
| Order lookup (`orders/orders.service.ts`) | none | `getStatus`, lists | an answer that is out of date when it is shown | | `CheckoutPage` (`getStatus`) |
| Cart (`cart/`) | Cart, CartItem | add, update, remove | parallel adds of one variant; a checkout consuming the cart meanwhile | checkout refuses what is not there | `CheckoutKeys` |
| Promotions (`promotions/`) | Promotion, PromotionVariant, advisory locks | `create`, `update`, `removeVariant` | overlapping periods written concurrently, locks taken one by one | one promotion in effect per variant and moment; requests end | `Promotions` |
| Staff tasks (`tasks/`) | Task | the sweep; create, complete, cancel, reopen | several sweeps and admins act on one task, on rows that move | closed means over; decisions stand; the board catches up | `TaskBoard` |
| Catalogue (`catalog/`, `images/`) | Product, ProductImage, pictures in a store; Category, Collection | create, upload, reorder, remove, publish, delete; CRUD | two stores without a common transaction; the create form's parallel uploads | every image has its picture; nothing orphaned; what a cart holds stays | `Catalogue` (one product) |
| Admin users (`users/`) | User, Role, UserRole | create, activate, deactivate, assign, remove role | two admins remove each other's rights | a role manager always remains; rights are not amplified | `StaffAccess` |
| Identity (`identity/`) | User, Session, LoginOtp, AccountActionToken, OAuthAccount | register, sign in by password, code or Google, verify, reset, logout | one-time secrets used twice at once; attempts counted concurrently; a deactivation or a reset that overtakes a sign-in | a code opens one session; sessions end with their cause | `SignIn` |
| Storefront (`apps/storefront`) | the checkout page's state, sessionStorage | lookups, submission, payment, polling; the account forms | answers out of order or lost; a redirect that loses the tab | the form shows what the last lookup found; the outcome shown is the order's | `CheckoutPage`, `SignIn` |
| Admin application (`apps/admin`) | the forms | product, promotion, task and user forms | forms saved over rows that changed since | | as the requests of the modules above |
| Shipping (`shipping/`) | at the carrier | quote, create shipment | a booking without a local row | | the manual provider, in `CheckoutPage` |
| Notifications (`notifications/`) | Notification | confirmation, shipping notice | duplicates | at most one per cause | the calls, in `OrderStock` and `RefundFlow` |
| Addresses, marketing, customers, dashboard, audit, settings, health, HTTP layer, shared packages | single rows, lists, reads | | | | not modelled |

The components meet in the database. Checkout creates what the sweep and the
webhook compete for; the webhook hands a paid order to administration;
administration gives stock back to Inventory and asks Notifications for mail.
The task sweep only reads orders, stock and refunds. Deactivating a user ends
that user's sessions, which is where `users/` and `identity/` meet. The
checkout page talks to the API through lookups, one submission under one
Idempotency-Key and a poll of the order's status.
`PROJECT.json` lists, under `hazards`, each place where this is hard to test,
at its line.

## Modules

| Module | What it is | Instances for TLC | Proofs |
|---|---|---|---|
| `OrderStock` | checkout, sweep, webhook and stock adjustment over orders, reservations, payments and stock | `MCOrderStock` | `OrderStockProofs` |
| `StockPromise` | the abstract promise about limited stock that `OrderStock` and `CheckoutKeys` implement | | |
| `RefundFlow` | refunds and fulfilment of a paid order | `MCRefundFlow` | `RefundFlowProofs` |
| `RefundPromise` | the abstract promise about a paid order's money, stock and parcel that `RefundFlow` implements | | |
| `CheckoutKeys` | concurrent requests to check out one changing cart, under Idempotency-Keys | `MCCheckoutKeys` | `CheckoutKeysProofs` |
| `CheckoutPromise` | the abstract promise of an Idempotency-Key that `CheckoutKeys` implements | | |
| `Promotions` | concurrent changes to the promotions of product variants | `MCPromotions` | `PromotionsProofs` |
| `TaskBoard` | the task sweep and the admins who work on the same tasks | `MCTaskBoard` | `StaffProofs` |
| `Catalogue` | the life of one product: create form, images, status, deletion | `MCCatalogue` | `CatalogueProofs` |
| `StaffAccess` | users, roles, and who may administer them | `MCStaffAccess` | `StaffProofs` |
| `SignIn` | one account: its sessions, codes and links | `MCSignIn` | `SignInProofs` |
| `CheckoutPage` | the checkout page in one browser tab, against the API | `MCCheckoutPage` | `CheckoutPageProofs` |

One action stands for one database transaction whose decision is protected by
a row lock or a guarded update, or for one statement outside a transaction;
whatever the code reads before and uses after such a step is a variable of
the process. In a page an action is one callback of the event loop. A comment
that starts with "Bug:" marks an operator that is not part of the model: it is
a plausible mistake in the code, and `PROJECT.json` names it as a mutant; with
the mutant in place TLC finds the property violated.

### OrderStock

| In the model | In the code |
|---|---|
| `order`, `payment`, `resv` | Order.status, Payment.status, StockReservation.status; "NONE" where there is no row |
| `line`, `madeToOrder` | the order's tracked quantities, and whether it has a made-to-order line |
| `onHand`, `reserved` | the InventoryItem columns |
| `sold`, `adjusted` | sums over InventoryMovement rows of type SALE, and of RESTOCK and ADJUSTMENT |
| `intent`, `webhook` | the PaymentIntent at Stripe; each event's delivery, claim and processing |
| `mailDue`, `mailCalls` | calls of `sendOrderConfirmation` that are due, and made |
| `pc`, `batch`, `stale` | a sweep's position and the rows it has read |
| `overdue` | the reservation's `expiresAt` (or `createdAt` + TTL) is in the past |

`Checkout` is the transaction of `runCheckout` (lock, availability,
reservations, order, payment, intent). `StartSweep`, `SweepOrder`, `FindStale`
and `CancelStale` are the steps of `releaseExpiredReservations`; `SweepFails`
is the exception that ends a tick. `Claim` and `Process` are the two halves of
the webhook: the insert of the event row, which commits alone, and the
processing transaction; `HandlerFails` is a crash or rollback between them,
`Redeliver` Stripe's retry, which the code answers at once because the row
exists. `SendConfirmation` runs after the commit. `Charge`, `Decline`,
`CancelIntent` and `OtherEvent` are Stripe.

Events of one kind are delivered at most once to the processing step (the
claim is unique), so a duplicate is a redelivery. `EventKinds` gives for each
order what Stripe may report of its intent, so that a run can send the decline
of a card for one order and keep the other plain. Quantities of untracked
lines, prices and taxes are left out: nothing here depends on them.

### RefundFlow

Each call of `issueRefund` is a process `c` with its position `pc`, its
request `req`, the refunds `todo` that `reconcileOutstandingRefunds` has still
to visit, the refund `cur` it works on and what `applyRefundEffects` has `seen`.
Every transaction and every write of its own is a step. The effects
transaction is two steps, its reads and its writes, because it reads
Order.status without locking the order, and fulfilment may run in between;
`lock` is the Payment row. `row` is the IdempotencyKey table: a row is
"pending" with a refund or "final", carries the amount as the request's hash,
and is `live` until its expiry. `stripe` is what Stripe stores under the
refund's idempotency key: it repeats a stored answer, refuses what the charge
does not cover, and otherwise decides. `StripeThrows` is a refused request, or
one whose answer was lost before or after Stripe acted. `Die` is a crash at
any point, with an open transaction rolled back. Expiry is looked at when the
row is; the code compares with the time its call began, so that a row is
taken for live a little longer.

`MarkReadyToShip`, `ShipFrom` and `MarkDelivered` are the guarded transactions
of fulfilment. The carrier is called before `markShipped`'s transaction and
its booking is discarded if the guard fails; the booking is not part of the
state. One order stands for all: payment, refunds and keys carry its id.
`taken` is what the confirmation took off the shelf: the ordered units, or none
if it flagged the stock as lost.

`RefundPromise` is the same order without calls, locks, keys and crashes:
`Grant` takes a refund's amount out of what is `left` of the payment, `Succeed`
and `Fail` settle it, `Book` shows it on the order, `Ship` sends the goods.
`RefundFlow` keeps that promise (`GivesBackAsPromised`) with the remaining
amount for `left`, the successful refunds' sum for `given`, the audit log for
what is booked and Payment.status for the order's standing. What it promises
beyond the invariants: the step that books the last part of the whole, and none
before it, must make the order REFUNDED and is the only one to restock; goods
leave once, and never after a refund was booked. To restock is to write the RETURN
movements; that the units had left the shelf is not part of the promise, since
the code restocks orders of which none had (`OnlySoldComesBack`, below).

### CheckoutKeys

`OrderStock` takes a checkout as one atomic step with its lines given.
`CheckoutKeys` is that step in full: each call of `initiate` is a process `c`
at step `pc[c]`, with its key and body `req`, the cart `snap` it has read, the
order `mine` it has created and its `attempt` at an order number.

| Action | In the code |
|---|---|
| `Lookup`, `Reclaim` | `checkForReplayOrConflict`, two statements outside any transaction |
| `ReadCart` | the transaction's first read; an empty cart is an error |
| `LockStock` | `SELECT ... FOR UPDATE` of all tracked lines, and the check of availability |
| `Collide` | `order.create` hits another order's number: rollback, next attempt |
| `CreatePayment` | the order has its id; Stripe is called inside the transaction |
| `Commit` | the rest of the transaction: reservations, emptied cart, key insert, commit |
| `LoseKey`, `Replay` | the insert fails on the key: rollback, then the winner's row is read |
| `RollBack` | an invalid line, method or pickup point, a failed call, a crash |
| `CheckItem` and `AddItem`, `UpdateItem` | `addItem`, `updateItemQuantity`: the check and the write are apart |
| `RemoveItem` | `removeItem` |
| `ExpireKey` | the clock passes `expiresAt` |

What a transaction writes becomes visible in `Commit`, its row locks are held
from `LockStock` on. A row lock that is taken is waited for: `LockStock` is
then not enabled. `LockStock` takes the locks of all lines at once; that they
are taken one at a time matters only for deadlocks, which the code avoids by ordering
the ids (`stock-lock.ts`).
`expired` remembers keys of which some row has expired: their uses may place a
second order, by design. `Orders` bounds the orders that are ever attempted,
`MaxUnits` the units put in the cart; a body stands for its hash. `writes`
counts the changes of the cart that have passed their check and not been
written yet, equal ones too; `MaxWrites` bounds how many there are at once.

Two abstract specifications say what all this amounts to. `CheckoutPromise`
is a key seen from outside: `Place` puts an order in the shop, takes the key
and tells the customer in one step, `Repeat` tells it again, `Expire` and
`Forget` end it. `CheckoutKeys` keeps that promise (`OncePerKey`) with the
order of a key's row for what the key stands for: only `Commit` places,
`Lookup` and `Replay` repeat, and everything else a request does is invisible.
The second is `StockPromise`, which `OrderStock` implements too. There a
checkout is the single action `Checkout`; `HoldsAtOnce` shows that the
transaction `CheckoutKeys` takes apart, with the lock, the check and the
reservation in steps of their own, does to the stock what that action does.

### Promotions

A promotion is its terms (`promo`) and a row per variant (`rows`) with a copy
of them, the snapshot that the EXCLUDE constraint compares; `lock` are the
advisory locks. A request goes through `form` (the page has loaded the
promotion), `read`, `lock`, `delete` and `write`.

| Action | In the code |
|---|---|
| `Create` | the form for a new promotion and `create` up to its transaction |
| `OpenForm`, `SaveForm` | `promotion-detail-form.tsx`, which sends every field it shows, and the validation in front of `update` |
| `RemoveVariant` | `removeVariant` up to its call of `update` |
| `ReadExisting` | `update` before its transaction: the merge with what is stored, the lock scope |
| `LockVariant` | one `pg_advisory_xact_lock`, in sorted order, waiting if it is taken |
| `CheckConflicts` | `findOverlapConflicts`, which reads promotions and not snapshots |
| `DeleteRows`, `Write` | `deleteMany` and the insert; unique and EXCLUDE constraints; commit |

Times are numbers and an empty bound is the first or the last of them.
`raced` remembers promotions that two requests changed at once; the code takes
no lock on the promotion itself, and what is promised of it is stated for the
others.

### TaskBoard

A task is named by what its `dedupeKey` is made of. `Plan` is `runSweep`: the
steps that open tasks (`ReadDue`, `CreateMany`), those that close tasks of
orders by one update (`ReadOver`, `CloseWhere`) and those that list open
tasks, look at their rows and update by id (`ReadOpen`, `Compare`,
`CloseListed`). Every read and every write is a step of its own; `Fail` ends a
sweep anywhere and `Tick` starts the next. `Complete`, `Cancel`, `Reopen` and
`CreateTask` are the guarded updates of `AdminTasksService`, behind the
buttons and the dialog that send them. The rows a sweep reads are moved by
`RowsMove`, along the edges of the other modules. Of the variants that are
`low` a sweep sees the first `PageSize`, the `page` that `listLowStock` lists,
and of the refunds those that are not `old`, that is, out of the 30-day
lookback.

### Catalogue

One product. `stored` are the pictures in the store, `row` the ProductImage
rows, `upload` each picture's request. `FindProduct`, `Store`, `Measure` and
`InsertRow` are the four steps of `uploadImage`; `Submit`, `Create`, `Settle`
and `Continue` the create form, which sends all staged files at once and waits
for all to settle. `StartRemove`, `RemovePicture`, `RemoveRow` are
`deleteImage`, `StartDelete`, `DeletePicture`, `DeleteRows` `deleteProduct`,
whose last step a foreign key refuses when a cart has taken the product
meanwhile (`Hold`). `UploadFails`, `RequestFails` and `CreateFails` are a
failure of either store, or a death, at any step. `loose` and `broken`
remember what a failure left behind.

### StaffAccess

`Begin` is the guards: a request carries the permissions its sender had then
(`carries`). `CreateUser`, `AssignRole` and `Activate` are single
transactions; `LockRoleManagementGate`, `ReadTarget`,
`CountOtherActiveRoleManagers` and `Deactivate` or `RemoveRole` are the steps
of the transaction that takes rights away, under the lock on the gate's
Permission row. `Dies` rolls it back. Roles and permissions come from the
seed; no code edits them.

### SignIn

One account, its sessions, codes and links, and the requests under way. Each
handler of `AuthService` is split at its awaits: the account is read when the
request starts, and what was read then may be out of date at every later step.

| Action | In the code |
|---|---|
| `Login`, `LoginWithOtp`, `LoginWithGoogle` | the reads and the decision, up to the first write |
| `WrongCode`, `TooManyTries`, `RightCode`, `MarkVerified` | the writes of `loginWithOtp` |
| `MakeUser`, `RevokeForClaim`, `CommitClaim`, `LinkGoogle` | `findOrCreateUserForGoogle` and the upsert after it |
| `CreateSession`, `ValidateSession` | `issueSession`: the row, and the write of lastLoginAt, which waits for a transaction that has written the User row |
| `Register`, `CreateAccount` | `register`, before and in its transaction |
| `RequestLoginOtp`, `ResendVerification`, `RequestPasswordReset` with `CommitLoginOtp`, `CommitToken` | codes and links: the statements that void the old ones, and the commit |
| `VerifyEmail`, `SetVerified`; `ResetPassword`, `WritePassword`, `CommitReset` | the link is consumed first, the account is written after |
| `Deactivate`, `CommitDeactivate`, `Activate` | `AdminUsersService` |
| `Die` | the process dies between any two of these |

A transaction that revokes sessions sees those its UPDATE's snapshot saw
(`seen`), and a session inserted meanwhile escapes it. Rows are recycled: a
session that is revoked or out of date, a consumed code and a link that is
void stand for the next ones written, so a finite number of rows models any
number over time, and `RoomForSession`, `RoomForCode` and `RoomForLink` are
bounds on how many are in use at once. The cooldown between two codes is time
that passes. Two histories say what a failure left behind: a session's `late`,
why it outlived a replacement of the password (its sign-in was under way then,
or the claim by Google had missed it), and a code's `left`, that the request
that had counted its last wrong try died before closing it.

### CheckoutPage

One tab. `form`, `offered`, `points` and `loading` are the state of
`checkout-form.tsx`; `timers` and `lookups` are its two debounced effects and
the fetches they have sent; changing what an effect depends on clears its
timer and ignores its answer (`Cancelled`). `request[i]` is the i-th
submission on its way through `CheckoutService` (`CheckKey`, `PlaceOrder`,
`RefuseOrder`, `LoseKeyRace`), under the one key of the page. `phase` is the
screen, `poll` the poller's place and the answer on its way to it, `stored`
what sessionStorage kept for the tab that comes back from Stripe. `LoseLookup`,
`LoseAnswer` and `LosePoll` are rejected fetches: the server may have worked
on them, or may still. The order moves at the other end as `OrderStock` and
`RefundFlow` move it.

## What the runs check

| Run | Instance | Properties |
|---|---|---|
| `Settle` | 2 orders with up to 2 of 2 units, a sweep, success events, and a declined card before one order's charge, fairness | `ReservedMatchesPending`, `NoOversell`; `KeepsPromise`: `OrderStock` implements `StockPromise`; `AbandonedIsReleased`, `ChargedIsSettled` |
| `Basket` | 1 order, 2 items, 2 sweeps, all five kinds of event, handlers that die, one restock | `StockMatchesSales`, `ReservationsFollowOrder`, `MoneyAndOrderAgree`, `ConfirmationMailOnce` |
| `Refunds` | 2 calls, 2 keys, 2 refunds of 1 or 2 out of 2, lost answers, crashes | `NeverOverRefunded`, `RestockedOnce`, `StatusesConverge`; `GivesBackAsPromised`: `RefundFlow` implements `RefundPromise` |
| `Applied` | 2 calls, 1 key that may expire, every answer of Stripe, no crashes, fairness | `SuccessIsApplied` |
| `Keys` | 2 requests, 2 keys, 2 bodies, 1 item with 2 units, 2 writes to the cart under way, 3 attempted orders, keys that expire | `OneOrderPerKey`, `AnswersAgree`; `OncePerKey`, `HoldsAtOnce`: `CheckoutKeys` implements `CheckoutPromise` and `StockPromise` |
| `Sales` | 2 promotions, 2 variants, 3 requests, dates 0 to 3, fairness | `OneEffectivePrice`, `SnapshotsAgree`, `RequestsEnd` |
| `Board` | 1 order, 2 variants of which a sweep lists 1, 1 refund, 2 sweeps, 1 decision, 2 moves, 1 failure, fairness | `ClosedMeansOver`, `DecisionsStand`, `BoardCatchesUp` |
| `Product` | 3 pictures, two of them staged, 2 requests, 2 failures, fairness | `PictureBehindRow`, `NoOrphans`, `HeldIsKept`, `NoneForgotten` |
| `Staff` | 2 users, 3 roles, 2 requests that may die | `AlwaysARoleManager`, `NoNewPermission` |
| `SignIn` | 2 requests, 2 sessions, 2 codes with 2 tries, 1 link, 2 passwords, 1 death | `OneSessionPerCode`, `ExhaustedCodeCloses`, `SignedInByMailIsVerified`, `AcceptedLinkVerifies`, `DisabledIsSignedOut`, `OldPasswordsAreOut` |
| `Page` | 2 methods, 2 places, 3 edits, 2 submissions, 2 polls, 1 lost answer, fairness | `SettledFormIsRight`, `PaysForWhatWasSent`, `OutcomeIsTrue`, `NothingSpins` |
| `LateMadeToOrder` | 1 order, a sweep, a success event | finds a counterexample to `PaidOrderNeverCanceled` |

The bounds are small because each hazard needs little: two processes to race,
one unit to fight over, a second item to tear an order's lines apart, a second
refund to complete a sum. Two orders with quantities up to two on two units
let either order alone, both, or only one fit. Two refunds of one or two units
out of two give a full refund by one, by two, and one too many. In `Settle`
one order's card may be declined, so that the report of the decline and that
of a later charge on the same intent come in any order. Three orders
let a key race be lost and tried again. In `Sales` two variants are enough for
locks in the wrong order to wait in a circle, and three requests for a third
to use what two left behind. In `Board` one row of each kind and two sweeps
let a task be written after another sweep has closed its kind, and a second
variant pushes the first off the page while it is still low (a page that
changes its order and nothing else would need a third move). In `Product` two
staged pictures and two failures let the creation's answer get lost, one
upload fail while the other goes on, or both, and a third picture and two
requests meet them on the product's page, where pictures are sent, reordered,
removed or deleted with the product. In `Staff` two users are the fewest of whom both can be the last
manager. In `SignIn` a second request is what overtakes the first, and rows
are recycled, so that two of a kind are enough for old and new to meet. In
`Page` two places, one of which offers only one of the two methods, let a
selection disappear. Proofs lift most of the safety properties to every size.
`CHECK_DEADLOCK FALSE` is set where everything may come to rest: all orders
settled, all refunds used, all attempts made, all edits spent. `Staff` and
`SignIn` never stop and check it.

### Fairness

`OrderStock!FairSpec` is weakly fair to the delivery and processing of each
event, to the passing of the TTL and to the start of a sweep, and strongly
fair to the steps inside a sweep: Stripe delivers what it reports, the
scheduler runs on an interval, a transaction that waits for a row lock gets
it, and a tick may fail half-way again and again, but not every time at the
same step. Nothing is assumed of retries, because the code answers a retry
without processing it, and nothing obliges a customer to pay or an admin to
act.
`RefundFlow!FairSpec` is strongly fair to each running call: the Payment row
lock is queued by Postgres, so a call cannot be overtaken for ever, though
the lock is taken and released by others meanwhile. No run assumes that an
admin asks for a refund, that Stripe ever decides a pending one, or that a
process survives where crashes are switched on.
`Promotions!FairSpec` is weakly fair to each request the server has accepted;
weak is enough, because a request runs once, so others cannot take a lock from
it for ever.
`TaskBoard!FairSpec` is weakly fair to each instance's timer and sweep; rows
and admins come to rest only by their bounds. `Catalogue!FairSpec` is weakly
fair to the creation of the product, to uploads under way and to the form that
waits for them: each is answered or fails in the end.
`CheckoutPage!FairSpec` is weakly fair to the poller and to each submission
the API is working on, not to the customer. `CheckoutKeys`, `StaffAccess` and
`SignIn` state safety only.

## Where code and documents disagree

`LateMadeToOrder` is listed as a finding: an order without reservation rows
that the sweep canceled and that is paid afterwards stays CANCELED under a
PAID payment, where `docs/PAYMENTS.md` and a comment in
`payments-webhook.service.ts` say it never does.

The modules contain more behaviour that a document or a comment rules out.
Each of these properties is stated in its module and no run keeps it; TLC
finds the counterexample when it is put in the place of the properties of a
run of that module, with the instance given here.

| Property | What happens, and who says otherwise |
|---|---|
| `OrderStock!NoEventLost` (`HandlersMayFail = TRUE`) | a handler dies between the claim of an event and its transaction; the retry is answered 200 and dropped. `docs/PAYMENTS.md:143`: "safe to receive the same event N times" |
| `OrderStock!ReportedChargeIsSeen` (instance of `Settle`) | a card is declined, the event sets the payment FAILED and the order CANCELED, the customer tries again on the same intent and is charged; the success event finds no PENDING payment and does nothing, and the stock was released. `docs/PAYMENTS.md:133` has "a retried card entry" end in the stock-lost status, `:135` says of a reported failure "there is no money captured, so there is nothing to flag", `payments/payments-webhook.service.ts:197` "never left CANCELED with a paid order underneath it" |
| `RefundFlow!OnlySoldComesBack` (one refund key) | a full refund of an order in PAYMENT_SUCCEEDED_STOCK_LOST, which counts as not shipped, adds its units to `onHand` although they never left it. `docs/PAYMENTS.md:134`: "never pretend the stock is still there"; `:164` calls the movement "compensating" |
| `RefundFlow!ShippedNeverRestocked` (one refund key) | a partial refund of a shipped order overwrites SHIPPED, and the completing refund restocks it. `docs/PAYMENTS.md:164`: "a shipped order's refund never auto-restocks either" |
| `RefundFlow!StripeSuccessRecorded` (`StripeMayThrow = TRUE`) | Stripe refunds, the answer is lost, and the refund is recorded as FAILED. `docs/PAYMENTS.md:159`: "A **successful** Stripe call is never silently lost" |
| `RefundFlow!SameKeySameRefund` (three refunds, one key) | a slow failure deletes, by its value, the key that a newer attempt has written, and the key reserves again. `docs/PAYMENTS.md:168`: a key "replays the final result" |
| `CheckoutKeys!SpentOnce` (`Items = {shirt, gown}`) | two requests under different keys read one cart before either empties it, and both order it. `checkout.service.ts:361`: "The cart that was just checked out is now spent" |
| `Promotions!NeverTwoInEffect` (4 requests, a paused promotion that was emptied) | `update` reads the promotion before any lock and locks variants only; two updates whose variants are disjoint merge their rows, one keeps an inactive snapshot under an active promotion, and the constraint lets a second one take effect. `promotions/effective-price.ts:75`: "At most one row per variant can ever be currently effective" |
| `TaskBoard!EveryCloseIsGuarded` | four closing steps update by id what they listed two statements earlier; a task an admin canceled meanwhile becomes DONE. `tasks/task-automation.scheduler.ts:15`: "every close step is a guarded `updateMany`" |
| `SignIn!ExhaustedCodeOpensNothing` (instance of `SignIn`) | the write that counts the last wrong try and the one that consumes the code are apart, and the consumption of a right code does not look at `attempts`: a right code still opens a session in between, and for good if the process dies there. `packages/database/prisma/schema.prisma:262`: "5 wrong tries kills it"; `docs/SECURITY.md:15`: "a 5-attempt cap per code" |
| `SignIn!NoSessionOutlivesItsPassword` (instance of `SignIn`) | the claim by Google revokes the sessions it finds before it writes the User row, and a password sign-in may complete in between: its session survives the password. So does one whose sign-in had read the account before a claim or a reset and is answered after it. `identity/auth.service.ts:206`: "(killing a squatter's access outright) and revoke any sessions, atomically"; `docs/SECURITY.md:14`: "a successful reset revokes every existing session for that user" |
| `CheckoutPage!StalePointNeverSent` | the effect for pickup points returns before it resets the point when the new method needs none; home delivery is submitted with a pickup point and refused, and no control shows it. `apps/storefront/src/components/checkout-form.tsx:204`: "can never be submitted" |

Smaller ones, which the modules contain and state no property about:

- Two transactions that issue a login code, or a link, at once do not see each
  other's rows, and both stay good, where `identity/auth.service.ts:522` and
  `:544` promise one.
- A Google sign-in decides by an `emailVerified` it read before its
  transaction whether to drop the account's password; a verification or a
  reset that commits in between loses its password.
- Sessions opened during a deactivation are kept from being handed out only by
  the write of `lastLoginAt`, which waits for the row the deactivation locks.
- The loser of a race for one Idempotency-Key is answered with the winner's
  order without a comparison of the request's hash: a customer who corrects an
  address while the first submission is under way is shown the order with the
  old one (the exception in `PaysForWhatWasSent`).
- A deposit of items in the cart while its checkout commits is deleted with
  the rest; a checkout that loses its key race leaves an intent at Stripe.
- A rejected poll is caught nowhere and is the last one; a rejected lookup
  leaves the list for the method and place before (the exceptions in
  `NothingSpins` and `SettledFormIsRight`).
- Pictures uploaded in parallel may read the same last position and get the
  same one; nothing promises otherwise.
- An order with made-to-order lines goes to IN_PRODUCTION when it is paid, a
  status the poller does not know; its customer is told that the payment is
  still being confirmed.
- An order refunded before it is shipped leaves its open tasks to an admin.
- Failed refunds are looked up by when they were created: one that was pending
  for more than 30 days before it failed never gets its follow-up.
- With more low variants than the page of 1000 holds, those past it get no
  task, and an open one is closed although the variant is still low.

## What is proved

The proof modules prove the theorems below for any number of orders, items,
sweeps, calls, requests, keys, refunds, users, roles, sessions, codes, links,
promotions, variants, tasks and pictures, and any quantities and amounts. They
assume what the modules state as named assumptions: quantities and amounts are
natural numbers, orders, refunds, pictures and variants are finite sets, absent
values are outside the sets they complement.

**OrderStock.** `Invariance` proves the conjunction `Invariant`, which is
inductive; the others read facts off it. The safety properties alone are not
inductive: a sweep acts on a snapshot that may be stale, so one must know that
a snapshot holds all lines of an order or none (`BatchIsWhole`) and that what
the second branch cancels holds no stock (`StaleIsUntracked`); a success event
must imply a charge (`ReportedIsCharged`); and an order's lines must agree
with its status (`ReservationsFollowOrder`), which gives the sweep's guard
its force: if one line is PENDING, all are. Sums over orders are cardinalities
of sets of units, which the library's theorems on finite sets can reason
about. Proved: `TypeCorrect`, `ReservedIsExact`, `StockIsAccounted`,
`ReservationsAreWhole`, `PaidOrdersAreSettled`, `MailOnce`, `NeverOversold`
(if adjustments only add stock), `EdgesOnly`, and `PromiseKept`: `OrderStock`
implements `StockPromise`. In that refinement free units are those on hand and
not reserved, and the phase of an order is read off its status; checkout is
`Hold`, a confirmation `Sell`, a release by sweep or webhook `Free`, the
stock-lost branch `Owe`, an adjustment `Recount`, and every other step
stutters. It needs the invariant: without `BatchIsWhole` a sweep might free
part of an order, without `ReservationsFollowOrder` a late payment might turn
a holding order into an owed one. `ChargesAreAccountedFor` and
`SweepsAreThorough` are what the two liveness properties leave when nothing is
assumed of fairness. The first needs `ReportsInv` (a payment ends as some
delivery that was processed reported it): a charge that no order shows is on its
way, or was lost with a handler that died, or met a payment that an earlier
declined attempt had closed. The second needs `SnapshotIsFull` (an overdue
order that the running sweep has not come to is still in its snapshot).

**RefundFlow.** `StateInv` (types and `CallsInv`) says where a call may be
with which refund, and that the lock is held exactly by the call that writes
effects. `EffectsInv` is the heart: a call under the lock may have read the
sum of successful refunds before another refund succeeded, so its `full` may
be stale, but then some other successful refund is still unapplied, whose own
effects will see the whole sum. That is why `StatusesConverge` survives the
race its comment in the code worries about. Proved: `TypeCorrect`,
`MoneyIsBounded`, `RestockIsOnce`, `StatusesAgree`, `ShipsOnce` (no run's
property any more: the refinement implies it), `OutcomesStay`; and
`RefundsAreKept`: `RefundFlow` implements `RefundPromise`. There a reservation
is `Grant`, because under the lock the sum it checked is the sum it adds to;
the guarded update of a refund is `Succeed` or `Fail`; the commit of the effects
is `Book`, and `EffectsInv` is what makes a stale `full` a permitted one; a
shipment is `Ship`, because `StatusesConverge` says that an order that can be
shipped has nothing booked. `SuccessIsNotDropped` is the half of
`SuccessIsApplied` that needs no fairness: if no call dies, every refund that
Stripe confirmed and that is not booked is in the hands of a running call.

**CheckoutKeys.** `IInv` adds to the types `KeysInv` and `StockInv`. The
uniqueness of orders per key follows from the rows: a key that has not expired
names the only order placed under it (`RowsOK`). This is inductive only
because rows are deleted under expired keys alone (`RequestsOK`) and because
an order that is not committed belongs to one request (`OrdersOwned`), so that
a commit cannot place an order that somebody was already answered with.
`StockInv` says of each request between the check and the commit that it holds
the locks of its lines and that what it is about to reserve still fits: no
other commit can touch those rows. `CartBounded` and `SnapsBounded` bound what
a cart, and a copy of one, can hold, which makes an order's units the
`Hold` step's. Proved: `TypeCorrect`, `KeysAreUsedOnce`, `ReplaysAgree`,
`NothingIsReservedTwice`, and the two refinements: `CheckoutIsAtomic`
(`OncePerKey`) and `StockIsHeldAtOnce` (`HoldsAtOnce`). In the first, a
commit is `Place` because the row it inserts is the key's only one and its
order is nobody else's; an answer is `Repeat` because a row names a placed
order; a reclaim is `Forget` because only a request that met an expired row
deletes one, and a key once expired stays so. In the second a commit is `Hold`
because, under its locks, what it checked is still free; no other step touches
stock or orders. Together with `PromiseKept` they tie the two models: what
`OrderStock` assumes of a checkout is what `CheckoutKeys` does.

**Promotions.** Everything is said of promotions that no two requests changed at
once (`raced` counts the others), because the code keeps no more than that.
`IInv` follows one request through the transaction: it holds the locks of its
variants from the overlap check on (`InOrder`), it is alone on its promotion
and its `deleteMany` leaves no row behind (`Alone`), and what the check found
is still true when it writes (`StillFree`), since whoever could make it false
would have to hold one of its locks. `Apart` says of dates what
`OneEffectivePrice` says of moments. Every step but the write only changes its
own request and locks (`Quiet`), so one lemma carries the invariant over all of
them and the write is proved on its own. Proved: `TypeCorrect`, `OnePrice`,
`SnapshotsStayEqual`, `ConstraintIsSecondLine`, `StoredDatesInOrder`, and
`NobodyWaitsInCircle`, which is why `RequestsEnd` can hold: a request holds only
locks below the one it wants (`LocksInOrder`), so whoever holds the greatest
lock that anybody waits for does not wait itself. That a finite set of variants
has a greatest and a least member is proved from the well-foundedness of
inclusion. The last three are no run's property.

**StaffAccess.** `AlwaysARoleManager` is not inductive: a request past the
count has seen another role manager, and must know that this one still is. The
invariant says so of the one request that holds the lock, using that what
takes rights waits for it and what gives them cannot hurt. These proofs stand
beside those of the task board, in a module that extends both. Proved:
`StaffTypesHold`, `StaffCanBeManaged`, `RightsAreHandedOn`.

**SignIn.** The invariant joins to the types what a request at each step may
carry (`Staged`), that nothing was written before there was an account
(`NothingBefore`), that a code that opens a session is consumed and opens no
other (`CodesAreOwned`), who is about to open a session by mail
(`MailVerifies`), that the transaction that has written the User row has seen
every session a client holds (`OneHoldsTheRow`), and that a replaced password
is only still used by sign-ins that were under way, or by sessions that a
claim missed, which left the account without a password
(`OldPasswordsAreLate`). `WrongTriesClose` exempts a code only while the
request that counted its last try is running, or if that very request died.
`OneHoldsTheRow` is what makes deactivation work: the session that its
snapshot misses is not yet held, and cannot become held before the commit.
Proved: `AccountTypes`, `CodeOpensOneSession`, `WrongTriesClose`,
`MailSignInVerifies`, `AcceptedLinksVerify`, `DeactivationSignsOut`,
`ReplacedPasswordsAreOut`.

**TaskBoard.** What a sweep read may be arbitrarily old when it writes. `IInv`
says that it is still good: what a closing step waits for is over and cannot
come back (`Past`), except for stock, and a refund's follow-up exists only once
the refund was asked for (`Asked`). From the list of steps (`PlanSteps`) the
proof needs only which types each kind of step closes. Proved: `TypeCorrect`,
`ClosedForGood`, `SweepRespectsDecisions`.

**Catalogue.** `IInv` follows each picture through its upload and each request
through its steps: a row or a request only ever names pictures whose upload
was finished (`OnlyUploaded`), a picture is in the store from the second step
of its upload on (`StoredInTurn`), what a removal has taken is not put back
(`TakenIsGone`), and a deletion has in its list every row but the ones
inserted since, whose pictures are exactly those the code may leave behind
(`NoneIsMissed`). Without `StoredInTurn` a row might be inserted for a picture
never stored; without `NoneIsMissed` the rows that go with the product might
leave pictures nobody knows of. That positions stay below the number of
pictures, which the type says, needs `Placed`: positions are below the number
of uploads that have read one, so `max + 1` is still one of them. That a
finite set of positions has a maximum is proved from the well-foundedness of
inclusion. `ImagesAreFinite` is the assumption this rests on. Proved:
`TypeCorrect`, `RowsHavePictures`, `NothingIsOrphaned`, `HeldProductsStay`,
and `NoneIsDropped`, the half of `NoneForgotten` that needs no fairness:
wherever the form comes to rest, it has made no product (refused), at most one
(unanswered), or one, with every staged picture either its image or named in
the summary.

**CheckoutPage.** `IInv` has three parts that hardly touch: `FormRight` (a
lookup that was not cancelled asks for what the form says, and while one for
pickup points is under way none can be chosen), `SendRight` (a submission that
came alone meets no other between its check of the key and its commit) and
`OrderRight` (an answer on its way to the poller is one the order may still
have grown out of). Proved: `TypeCorrect`, `FormShowsSelection`,
`SettledFormIsCurrent`, `OrderPaidIsOrderSent`, `ToldOutcomeIsTrue`, and
`NothingWaitsForNothing`, the half of `NothingSpins` that needs no fairness: what
the page is seen to wait for has been asked for, and its answer was not
cancelled. Of the list of pickup points it says so only while the postal code
is complete: with another one the effect returns early and leaves
`isLoadingPickupPoints` as the cancelled lookup left it.

Only model-checked: the seven liveness properties of the runs (TLAPS 1.4.5
proves no liveness under fairness and no ENABLED). Of six of them the part
that needs no fairness is proved: `NoneIsDropped`, `SuccessIsNotDropped`,
`NobodyWaitsInCircle`, `ChargesAreAccountedFor`, `SweepsAreThorough`,
`NothingWaitsForNothing`. `BoardCatchesUp` has no such part: a sweep that fails
or reads too early may leave the board wrong, and it is right again only
because the next one comes. Every invariant, inductive or not, and every
refinement was checked by TLC before it was proved.

## What is not modelled, and why

- Prices, taxes, e-mail texts, listings, CSV exports, mappers: pure functions
  or reads.
- Addresses, marketing content, settings, categories, collections, variants
  and a product's texts: single transactions over rows that nothing else
  decides by.
- Signature checks, rate limits, CSRF, the OAuth state and PKCE cookies sit in
  front of the modelled operations and do not change their state.
- Carrier bookings made before `markShipped`'s guard fails are a risk the code
  discloses; the Notification rows record what was sent and decide nothing.
- The pages that only show what the API returns, and the account forms' own
  screens: `SignIn` has the requests they send. Together with the mappers, the
  request types, the controllers and the wording of e-mails, this is most of
  the repository's code; the modules hold the part that decides something.
- The steps of the task sweep for disputes: no code sets the payment status
  they look for.

## What could come next

1. The row locks of checkout, sweep, webhook and refund and the order they are
   taken in: which pairs can wait for each other.
2. One default address under concurrent requests.
3. Price and VAT arithmetic against a reference definition.
4. Notification rows, and the variants of a product against carts and orders.
