# Specifications of the digital store server

TLA+ modules, TLC instances and TLAPS proofs for the server in this
repository: an Express/Prisma/PostgreSQL shop for gift cards, game top-ups and
subscriptions, paid through a hosted gateway (aamarPay). Paths below are
relative to the repository; line numbers are in `PROJECT.json` (`map`), one
entry per definition.

## The system

| Component | State | Operations | Hard behaviour | Correct when |
|---|---|---|---|---|
| Payment service (`src/modules/payment`) | `payments`, `payment_attempts`, `orders.paymentStatus` | `createPayment`, `handleCallback`, `executePayment`, two reconciliation sweeps, settle / fail / mark unknown / refund | gateway timeouts, lost, repeated and late callbacks, stale verdicts, unlocked reads | captured money is settled or refunded; nothing is sold without money; one session per order |
| Gift-card reservation (`gift-card-purchase.service.ts`) | `orders`, `order_items`, `gift_card_codes` | `createPurchase`, release on a failed initiation | contention for the last codes, crash between reservation and payment | all of an order's codes or none |
| Gift-card settlement and release (`gift-card-fulfillment.service.ts`) | codes, `gift_card_deliveries` | settle, late allocation, release | payments that arrive after the codes went to others | a sold code never changes hands; a paid order owns what it asked for |
| Gift-card e-mail delivery (same file) | delivery rows, attempts | claim, send, record, retry, reveal | crash between send and record, overlapping claims, two writes for one outcome | mailed with bounded retries, not again once recorded; item and delivery agree |
| Gift-card stock administration (`gift-card-admin.service.ts`) | products, denominations, codes | create, update, archive, delete | unlocked check-then-write beside checkouts | sold codes are not touched; no secret twice |
| Game top-up orders and fulfilment (`src/modules/game-top-up`) | items, details, daily sequence, e-mail attempts | create, cancel, claim, submit, query, settle, administrator's start/complete/fail, notify | provider timeouts, stale claims, cancellation races | one channel, delivered at most once, never given up silently |
| Game top-up catalogue | games, packages, account fields | create, edit, deactivate, archive, order | edits under an order that was read before | an order is one offer with what was required; archived is gone |
| Accounts and one-time codes (`users`, `admin`, `auth.middleware.ts`) | `users`, `otps` | register, verify, resend, login, forgot, reset, profiles, deletion, management | concurrent requests, mail failures, checks before unconditional writes | only the newest code works, once; admins are managed by super admins |
| Cart (`src/modules/cart`, checkout) | `carts`, `cart_items`, orders by `Idempotency-Key` | add, change, remove, clear, buy | read-modify-write, repeated checkouts | one row per option; a key buys once; unbought items stay |
| Categories, products, reviews | rows under unique keys | add, upload, change, archive, delete | search for a free slug and write later | slugs unique, one review each |
| Abuse block (`threat-protection.middleware.ts`) | a process's map of clients | check, register a violation | requests let in before the block | only repeated violations block, and a block lasts |
| Workers (`server.ts`) | two interval timers | sweeps, retries | overlap, restart, batches | pending work is found again |

They interact through the database only: a request, a callback, a worker and
an administrator run short transactions on the same rows, with network calls
(gateway, provider, mail) in between. The gateway reaches the server through
unauthenticated callbacks, which cause a query and are never believed. Inside
the server they call each other in this order: cart -> checkout -> payment ->
settlement -> delivery or top-up fulfilment; each of these has a module.
Every component, modelled or not, is in `PROJECT.json` under `components`; the
places where this goes wrong most easily are under `hazards`.

## Modules

| Module | What it is | Lines |
|---|---|---|
| `PaymentStates` | status vocabularies and the payment transition table | 51 |
| `InventoryLedger` | abstract: what the stock promises, with holds and sales only | 59 |
| `GiftCardCheckout` | reservation, payment, settlement, refund, sweeps, administrator, gateway | 671 |
| `GiftCardDelivery` | the e-mail that delivers a settled order, its retries, the views that reveal codes | 351 |
| `GiftCardStock` | administrators' edits of products, denominations and codes beside orders | 378 |
| `FulfilmentChannel` | abstract: an order's single way from open to one final outcome | 42 |
| `GameTopUp` | top-up orders, queue, provider, retries, cancellation, manual fallback, completion e-mails | 573 |
| `GameCatalogue` | games, packages, account fields and the orders placed from them | 283 |
| `Accounts` | registration, one-time codes, login, profiles, deletion, management of accounts | 491 |
| `Cart` | the cart and the checkout that buys it | 307 |
| `ProductCatalogue` | categories, products of all kinds, options in carts, reviews | 420 |
| `AbuseBlock` | the temporary block of clients | 111 |

`MC<Module>` gives the constants their values for TLC; `<Module>Proofs` holds
the theorems (those of `AbuseBlock` are in `AccountsProofs`).
`GiftCardCheckout` refines `InventoryLedger` and `GameTopUp` refines
`FulfilmentChannel`. The modules overlap where components interact: the
settlement is a transaction with payments around it in `GiftCardCheckout`, one
step beside stock edits in `GiftCardStock`, and one step that starts a delivery
in `GiftCardDelivery`.

Conventions of all modules. A variable is a database column or the part of it
that the code asks for (a timestamp is kept as what it is compared with: `due`,
`stale`, `expired`, `recent`). `job[p]` is what process `p` (a request, a
worker, an administrator) knows between two awaits. Each query is a step; a
transaction that locks the rows it decides on is one step. `Abandon` is a
process that stops, or a query that fails. Where one instance cannot hold
everything a module can do, a variable `scenario`, fixed by the initial state,
says which operations are called, how many requests overlap and which values
are entered, so that one run covers several small worlds. Definitions that
follow a comment `Mistake:` are not used by the specifications: each is a
plausible wrong version of the definition after it.

### GiftCardCheckout

| Code | Actions |
|---|---|
| `createPurchase`, transaction | `CreatePurchase` |
| `createPurchase`, catch | `CreatePaymentFails`, `ReleaseUninitiatedRead`, `ReleaseUninitiatedWrite` |
| `createPayment` | `CreatePayment`, `StorePaymentUrl`, `StoreAttemptUrl`, `InitiationRejected`, `InitiationUnconfirmed` |
| `handleCallback`, `executePayment` | `VerifyAndProcess` |
| sweeps | `ReconcileUnknownPayments`, `ReconcileExpiredReservations` |
| `verifyAndProcess` | `QueryFails`, `QueryAnswered`, `RereadAfterFail` |
| `completePayment` | `CompletePayment`, `CompleteLatePayment`, `CompletionRefused`, `LateInventoryUnavailable`, `MarkRefundPending` |
| `failPayment` | `FailPayment` |
| `markUnknown` | `MarkUnknownRead`, `MarkUnknownWrite` |
| admin `verifyPaymentIssue`, `updateOrderStatus` | `VerifyPaymentIssue`, `UpdateOrderStatus` |
| restart, aborted transaction, refused answer | `Abandon` |

- A transaction that first locks the rows it decides on (`FOR UPDATE` on
  order, then payment) is one action. `markUnknown` and the release in
  `createPurchase`'s catch lock nothing, under READ COMMITTED, so their reads
  and writes are two actions.
- `mergeLines` leaves one item per denomination, so (order, denomination)
  identifies an item, and `Lines` is the order.
- The lock order differs (`markUnknown`, the refund and the administrator take
  the payment first). When that deadlocks, PostgreSQL aborts one transaction:
  that handler stops, as in `Abandon`. `completePayment`'s refusals that write
  nothing (identity or amount mismatch, duplicate transaction id) are
  `Abandon` too.
- A sweep works through a batch it read earlier. A process that took an order
  up and proceeds much later covers the stale snapshot.
- `SKIP LOCKED` may pass over codes another transaction has locked, so a late
  allocation can fail (`LateInventoryUnavailable`) although codes are
  available.
- The raw answer of a verification replaces `providerResponse`, which also
  keeps the payment URL: that is `hasUrl`.

### GiftCardDelivery

| Code | Actions |
|---|---|
| `completePayment` and the delivery after its commit; a callback of a PAID payment | `Settle`, `Repeated` |
| `deliverGiftCardOrder`: claim, template, send, recording | `ReadOrder`, `Skipped`, `Claim`, `Overtaken`, `Template`, `CannotDecrypt`, `Sent`, `SendFails`, `RecordDeliveries`, `RecordItems` |
| `retryGiftCardDeliveries` | `Sweep`, `SweepNext`, `Drop` |
| the customer's views | `View` |
| administrator | `VerifyPaymentIssue`, `UpdateOrderStatus`, `UpdateDeliveryStatus`, `EditCode` |
| a query that fails, a stop, the clock | `QueryFails`, `Abandon`, `BecomesDue` |

The deliveries of an order are created, claimed and recorded by one statement
each, so one status stands for all of them; the items are written by another
query, and are a variable of their own. A delivery begins with two steps: it
reads the order, its deliveries and its codes without a lock, and then updates
the deliveries under a condition on their own columns only. A refund, an edit
of a code or another claim may come in between. `codes` is what the read asks
of the codes: one that an administrator reopened after the sale (the trace of
`SoldCodeReopened`, here one step `EditCode`) makes every later read skip the
order. A send that outlasts the retry delay is
possible only in the scenarios that say so (`slow`): `sendEmail` has a socket
timeout of 30 s and the delay is at least a minute, but the timeout is one of
inactivity.

### GiftCardStock

| Code | Actions |
|---|---|
| `createPurchase`, settlement, release, refund, late payment | `CreatePurchase`, `Finalize`, `Release`, `Refund`, `LatePayment`, `VerifyPaymentIssue` |
| `updateProduct`, `archiveProduct` | `ProductRead`, `ProductWrite` |
| denominations | `CreateDenomination`, `UpdateDenomination`, `DeleteDenominationRead`, `DeleteDenomination` |
| `addCode`, `addCodesBulk` | `AddCodesRead`, `AddCodes` |
| `updateCode`, `deleteCode` | `UpdateCodeRead`, `UpdateCode`, `DeleteCodeRead`, `DeleteCode` |
| expiry, and the start of the server, which fixes the date of the catalogue's filter | `ExpiryPasses`, `ServerStarts` |

A secret stands for a plaintext; rows from before encryption have no hash, so
that the unique key does not see them (`hashed`). The read of an edit is all of
its checks; the write is by id. An edit that leaves the expiry empty keeps the
old one (`ExpiryAfter`); one that erases it is still checked against the old
one.

### GameTopUp

| Code | Actions |
|---|---|
| `createOrder`, `cancel` | `CreateOrder`, `Cancel` |
| payment (reduced to what the order shows) | `StartPayment`, `MarkUnknown`, `FailPayment`, `CompletePayment`, `VerifyPaid`, `VerifyPaymentIssue` |
| `assignQueueToPaidTopUpOrder` | `AssignQueue`, in both of its callers |
| `claimItem`, provider, `settleItem` | `ReadPaid`, `ClaimItem`, `ClaimRefused`, `TopUp`, `QueryTopUp`, `SettleItem`, `SettleRefused` |
| `retryGameTopUpFulfillments` | `RetryScan` |
| `startProcessing`, `complete`, `fail` | `StartProcessingRead`, `StartProcessing`, `Complete`, `Fail` |
| `notifyOrderCompletion`, `retryTopUpNotifications` | `NotifyScan`, `Notify`, `NotifyRefused`, `MailSent`, `MailFails` |
| the clock, a stop | `RetryBecomesDue`, `ClaimBecomesStale`, `WindowCloses`, `MailBecomesDue`, `Abandon` |

`createOrder` makes one item per order, so items are identified with orders.
`claimItem` and `settleItem` lock the item, but read `orders.paymentStatus`
without a lock: `ReadPaid` is a step of its own, and a refund may come before
the write. The provider (external) is what its interface promises: it keeps a
record per idempotency key and answers SUCCESS, PENDING, FAILED, a FAILED with
`retryable` (`REJECTED`, after which the key may be submitted again), an error
that says nothing was submitted, retryable (`DOWN`) or not (`BROKEN`), or any
other error (`UNKNOWN`). It is assumed to be honest: an error whose status is
known means that nothing is under way. The mock, the only provider there is,
has neither retryable failures nor definite errors of a query; that is `final`.

`scenario` says whether claims may go stale while their call runs (`prompt`),
whether only requests stop, and not in the last attempt (`steady`), and
`final`. The run has three: `Usual` (prompt and steady), `Crashes` (prompt, any
process stops anywhere), both with retryable failures, and `LateAnswers` (calls
outlast their claims, with the failures of the mock). Two properties about the
provider's record ask for `Orderly`, that is `prompt` or `final`; what happens
otherwise is under disagreements.

### GameCatalogue, Accounts, Cart, ProductCatalogue, AbuseBlock

| Module | Code | Actions |
|---|---|---|
| `GameCatalogue` | services of games, packages, fields | `CreateGame` ... `DeactivateAccountField` assert that the row is there, `Write` writes by id |
| | public game, `createOrder` | `ReadForm`, `CheckPackage`, `DetailsRefused`, `PlaceOrder`, `Leave` |
| `Accounts` | register, verify, resend | `RegisterRead`, `RegisterCreate`, `VerifyRead`, `VerifyCompare`, `VerifyConsume`, `ResendRead`, `ResendIssue`, `MailSent`, `MailFails`, `Disable` |
| | forgot, reset | `ForgotRead`, `ForgotClear`, `ForgotIssue`, `ResetRead`, `ResetCompare`, `ResetConsume` |
| | login, `auth.middleware.ts` | `Login`, `Authenticate` |
| | profiles and management | `ActorCheck`, `TargetCheck`, then one write action per operation, and `Audit` |
| `Cart` | `addToCart`, `updateCartItem`, `removeFromCart`, `clearCart` | `AddToCart`, `GetCart`, `CreateCart`, `ReadItem`, `InsertItem`, `UpdateItem`, `FindItem`, `ResolveOption`, `SetItem`, `DeleteItem`, `StartClear`, `ClearCart` |
| | checkout | `BuyNow`, `CheckoutCart`, `ExistingCheckout`, `CreatePurchase`, `CreatePayment`, `Release`, `Settle` |
| | administrators | `SetPrice`, `SetActive` |
| `ProductCatalogue` | categories | `AddCategory`, `BulkAddCategories`, `PickSlug`, `CreateCategories`, `UpdateCategory`, `CheckTitle`, `UpdateRow`, `DeleteCategory`, `DeleteRow` |
| | product API | `AddProduct`, `BulkUploadProducts`, `UploadNext`, `UploadFails`, `UpdateProduct`, `DeleteProduct`, `FindRecord`, `WriteProduct`, `ArchiveProduct`, `AddToCart` |
| | reviews | `CreateReview`, `FindExistingReview`, `InsertReview`, `UpdateReview`, `DeleteReview`, `WriteReview`, `RemoveReview` |
| `AbuseBlock` | block check, the request, a limiter or pattern that refuses it | `LetIn`, `Serve`, `RefuseRequest` |

A person enters a code only after reading it in a mail (`read`). A query that
should disable an undelivered code and fails is only logged: nothing is written
and the request ends, which is what `Abandon` does at that step. The reads of
`addToCart` before its first write (option, number of codes, required fields)
are one step, `AddToCart`; edits of the catalogue between them are left out. Slugs are
sequences of words and numbers, since "games-2" is both the second candidate of
one title and the slug of another. An account detail is one of six classes of
values (`Entered`), which is what its validation tells apart.

## Runs

TLC, two workers; each of the passing runs takes at most three and a
half minutes. Deadlock is not checked: a server with nothing to do is at rest, every
order may be finished, and bounds end behaviours.

| Run | Instance | Checks | States |
|---|---|---|---|
| `CheckoutRace` | 1 order, 1 code, 2 handlers, 1 worker, 2 refund verdicts, failing transactions of the initiation, fair | `SettlementInvariant`, `SettledPaymentCompletesItsOrder`, `CapturedPaymentIsSettled`, `OneSessionPerOrder`, `NoReleaseUnderOpenSession` | 372 k |
| `ContendedStock` | 2 orders, 3 codes of 2 denominations, one item of two codes, 1 handler, database failures, orders cancelled by hand | `PaidOrderOwnsItsCodes`, `SoldIsFinal`, `ImplementsLedger` | 358 k |
| `Delivery` | a request that may stop and a worker with batches of 1; 2 orders, one of them undecryptable, or 1 order with slow sends, or 1 order whose code is edited after the sale; 2 attempts, fair | `DeliveryInvariant`, `DeliveredStays`, `RefundedGetsNothing`, `NoMailAfterDelivered`, `SettledOrderIsMailed` | 356 k |
| `Stock` | 2 codes, 2 orders, 2 administrators; overlapping edits with 1 order, uninterrupted edits with 2, a changing catalogue with 2 denominations | `SecretsAreUnique`, `StockInvariant`, `CompletedWithItsCodes`, `UninterruptedEditsKeepSold` | 453 k |
| `TopUp` | 1 order, a request, a worker and an administrator, all of which may stop; 3 attempts, 2 e-mails, three scenarios, fair | `OneSubmissionAtATime`, `TopUpInvariant`, `ImplementsFulfilment`, `PlaceIsKept`, `PaidOrderIsResolved`, `CompletionIsMailed` | 194 k |
| `GameCatalogue` | 1 customer and up to 2 administrators; 1 game edited under an order, 2 games with a package and 2 fields in turn, 1 game archived, a field named like a token | `OrdersAreSound`, `ArchivedIsGone`, `FilledFormIsAccepted` | 855 k |
| `Accounts` | 2 accounts, a seeded super administrator, 2 requests, 3 codes; verifications, resets, management, and every operation except verification in turn | `AccountInvariant`, `UndeliveredCodeIsDead`, `VerifiedByNewestCode`, `ResetByNewestCode`, `DeletedPasswordStays`, `AdminsAreManagedBySupers` | 1.03 M |
| `Cart` | 3 options, up to 3 requests, 2 keys, 3 rows, 2 orders; edits at once, one by one, checkouts, repeated purchases | `CartInvariant`, `KeyBuysOnce`, `UnboughtStays` | 704 k |
| `ProductCatalogue` | up to 2 requests; 3 titles, 3 categories, 4 products, 4 options, 2 reviewers, in six scenarios | `CatalogueInvariant` | 470 k |
| `AbuseBlock` | 1 client, 1 or 3 requests at once, a block after 3 violations | `AbuseInvariant`, `OldOffencesAreForgotten`, `BlockLasts` | 91 k |
| `TerminalRevival` | 1 order, 1 handler, 1 worker | violates `NoTerminalRevival` | |
| `SoldCodeReopened` | 2 codes, 2 orders, an edit that overlaps a settlement | violates `SoldIsImmutable` | |

What the invariants put together: each has the types of its module, and

- `SettlementInvariant`: code columns and rows agree, payable orders hold all
  their codes, paid ones own them, an order has all or none, a code is sold
  only against captured money, a failed payment keeps nothing, and what
  processes carry is still true;
- `DeliveryInvariant`: an item says DELIVERED only if its deliveries do
  (without slow sends);
- `StockInvariant`: a code's denomination is there, a reserved code belongs to
  an order that awaits it (while nothing interrupts an edit), and what can be
  sold is shown in stock;
- `TopUpInvariant`: a delivery is one of the provider's, a failed or retryable
  item is neither delivered nor pending there (`Orderly`), and nothing unpaid
  reaches the provider;
- `OrdersAreSound`: a top-up order has what was required and is one offer;
- `AccountInvariant`: one usable verification code at most, none of a verified
  account, super administrators stay;
- `CartInvariant`: one cart, one row for an option;
- `CatalogueInvariant`: unique slugs, searched slugs are free and titles differ
  (requests in turn, titles also without renaming), one review each, and cart
  rows keep their option;
- `AbuseInvariant`: a block was earned within one window.

Properties that are stated for requests in turn, for edits that nothing
interrupts or for prompt calls say so in their definition; the section on
disagreements says what happens otherwise.

### Bounds and why they suffice

The races the code is exposed to are between two or three holders of stale
knowledge about one row: initiator, callback and sweep on one payment; two
checkouts on one code; two administrators, or one and a checkout, on one code;
two requests of one customer on one cart or account. Handlers return to idle
and serve again, so that sequences of requests are not bounded; late payments
need one order to lose its code to another and come back. Counters that grow
are bounded by constants with names: `MaxAttempts` and `MaxMails` (settings of
the code, 3 and 2 here, so that a first, a middle and a last attempt differ),
`MaxCodes`, `MaxRow`, `MaxOrders`, `MaxOption`, `MaxReview`, `MaxSuffix`,
`MaxTime`; a bound lets an action stop happening, never changes its effect. The
constraint `Enough` ends behaviours of `AbuseBlock` after five violations, two
more than a block takes. Symmetry is used only in runs without liveness:
between codes of one denomination, requests, administrators, reviewers,
accounts that are not seeded. The
theorems below remove the bounds for what is proved.

The scenarios of a module were chosen so that each pair of operations that
touch one row meets in one of them; the operations of one scenario are those
that do. What two scenarios hold separately is not checked together: catalogue
changes of `GiftCardStock` are not mixed with edits of codes by a second
administrator, nor e-mail verification of `Accounts` with management.

### Fairness

Nothing is assumed of requests, customers, callbacks, the gateway or
administrators, unless they are in the middle of a request that does not stop.

- `GiftCardCheckout`: time passes (`ReservationExpires`); the worker takes its
  steps (weak fairness) and is not turned away from one payment for ever
  (strong fairness on taking a payment up, on an answered query, on the
  settlement). The server keeps running and its interval fires (`server.ts`,
  lines 17-34), `paymentWorkerRunning` is reset in a `finally`, errors are
  caught per payment. It also assumes fewer reconcilable payments than the
  batch of 20. `CapturedPaymentIsSettled` starts from a first capture: money
  captured after a recorded failure is found only if somebody asks again,
  which nobody must.
- `GiftCardDelivery`: requests and the worker go on, requests unless they stop
  (`Stops`; the worker's process is restarted, which is its next interval), and
  the retry delay passes. The batch is in the model (`Batch`): an undecryptable
  order does not keep the others from being mailed. Reopened orders do, once
  they fill the batch, because a skipped order counts no attempt and is listed
  again: `SettledOrderIsMailed` exempts that.
- `GameTopUp`: time passes (`RetryBecomesDue`, `ClaimBecomesStale`,
  `MailBecomesDue`), a process goes on with what it does, provider and mail
  calls end, and the worker's two scans come back to an order that is listed
  again and again (strong fairness: a status query may take it off the list in
  between). Where liveness is stated (`prompt` and `steady`), requests may stop at any
  step except in a provider call of the last attempt, and workers do not stop;
  in the other behaviours of the run every process may stop anywhere.

### Disagreements between the code and its own statements

Two runs find a trace; `PROJECT.json` (`findings`) quotes the line that says
otherwise.

| Run | What the trace shows |
|---|---|
| `TerminalRevival` | a stale `markUnknown` turns a settled, failed or refunded payment back into UNKNOWN |
| `SoldCodeReopened` | an edit that frees a reserved code is written after the settlement: the sold code is available again |

The models contain more behaviour that a reader may not expect. None of the
properties above excludes it, and each was seen as a trace of a stronger one:

- Verifying a pending session erases its stored payment URL, and a checkout
  repeated with its key then shows none.
- A slow refund transaction moves REFUNDED back to REFUND_PENDING
  (`payment.service.ts:135`); a refund for missing stock can be recorded for an
  order that got its codes in between.
- The catch of a checkout whose initiation transaction failed looks for a
  payment, finds none, and releases two queries later
  (`gift-card-purchase.service.ts:214`). Another request that initiates the
  payment in between has its order failed and its codes given up under an open
  session. Money captured then is refused with PAYMENT_TERMINAL and neither
  settled nor refunded. The run `CheckoutRace` has these failures; its
  properties say that this write, and a status set by hand, are the only ways
  (`ReleasedByCatch`, `Cancelled`).
- A delivery that read the order before a refund still claims and mails
  (`gift-card-fulfillment.service.ts:199`, `231`). `RefundedGetsNothing` says
  that none begins after the refund.
- An order with a code that an edit reopened is skipped for ever without
  counting an attempt (`gift-card-fulfillment.service.ts:229`); it stays in
  every sweep.
- A stop between reservation and payment row leaves codes reserved for good
  (`gift-card-purchase.service.ts:204`).
- A delivery claim or a top-up claim whose last attempt is interrupted stays
  PROCESSING: no scan lists it (`gift-card-fulfillment.service.ts:190`,
  `game-top-up-fulfillment.service.ts:177`), although
  `docs/game-topup-commerce.md:15` says that exhausted attempts go to
  MANUAL_REVIEW. Likewise a late answer can use up the last attempt
  (`game-top-up-fulfillment.service.ts:100`).
- `settleItem` asks only that the item is PROCESSING, not whose claim it
  settles. With a provider that has retryable failures, a claim that went stale
  under its call may settle a newer one: its old retryable failure, or a status
  query that ends in a definite error, makes the item FAILED_RETRYABLE, and it
  is submitted again while the newer submission runs. With the mock this cannot
  happen. `OneSubmissionAtATime` and `OutcomeIsTrue` therefore ask for
  `Orderly`.
- Cancellation locks the order and then the item, `claimItem` the item and then
  the order (`game-top-up-order.service.ts:197`, `211`;
  `game-top-up-fulfillment.service.ts:35`, `72`). PostgreSQL ends a deadlock by
  aborting one transaction, which writes nothing: a refused cancellation, or
  `Abandon`.
- An administrator's edit or deletion of a reserved code leaves its order short
  (`gift-card-admin.service.ts:323`, `346`); the settlement then refuses, and
  `CompletedWithItsCodes` holds.
- The catalogue's stock filter is as old as the server
  (`gift-card.service.ts:60`): codes that expired since are shown in stock.
  Only the direction of `SellableIsShown` holds.
- A checkout repeated with its key after the first emptied the cart may be told
  that the cart is empty instead of getting its order.
- A field whose key contains "token" is shown in the form and then refused.
- Two additions, or a renaming in other case, make two active categories of one
  title; a deletion overlaps with a product that is put in the category
  (`category.service.ts:80`).
- Two password-reset requests at once leave two live codes
  (`user.service.ts:428`); a reset that began before the deletion of the
  account gives it a password again (`user.service.ts:512`).
- A violation of a request that was let in before the block replaces its record
  when the window has passed and ends the block early
  (`threat-protection.middleware.ts:39`).
- The quantities of two overlapping additions to a cart are not added up
  (`cart.service.ts:201`).

## Proofs

Every theorem holds for every value of the constants; the only assumptions are
the modules' named ones (types of the constants, that "no order" is not an
order, that a scenario of `Cart` has a price, that something is sold in
`GameCatalogue`) and those in the statement. No set need be finite, except the
codes of `GiftCardStock`, whose settlement counts them.
A theorem about a folded invariant proves its types too.

| Module | Theorems |
|---|---|
| `GiftCardCheckoutProofs` | `SettlementInvariantHolds` and from it `TypeCorrectness`, `PayableOrdersAreCovered`, `PaidOrdersAreServed`, `NoSaleWithoutMoney`, `FailedPaymentsAreEmptyHanded`, `AllocationsAreWhole`; `SoldCodesStay`, `StockImplementsLedger`, `SessionsAreUnique`; `PaymentsCompleteOrders`, `OpenSessionsKeepTheirCodes` |
| `GameTopUpProofs` | `SubmittedOnce`, `StatusAgrees`, `OneChannelForGood` (the refinement), `PlacesAreUnique`, `PlaceStays` |
| `GiftCardDeliveryProofs` | `DeliveriesStay`, `RefundsStopDelivery`, `MailsAreClaimed`; `ItemsTellTheTruth` (if no administrator sets an item to DELIVERED) |
| `GiftCardStockProofs` | `StockStaysSound`, `SecretsStayUnique`, `NoOrderIsShort`, `SoldStaysSold` |
| `AccountsProofs` | `AccountsStaySound`, `AdminsStayManaged`, `NewestCodeVerifies`, `NewestCodeResets`, `DeletionIsForGood`, `UndeliveredCodesDie`; of `AbuseBlock`: `BlocksAreEarned`, `OffencesExpire`, `BlocksLast` |
| `CartProofs` | `CartIsOne`, `KeyIsSpentOnce`, `CheckoutLeavesTheRest` |
| `ProductCatalogueProofs` | `CatalogueStaysSound` |
| `GameCatalogueProofs` | `OrdersStaySound`, `ArchivedGamesAreGone`; `FilledFormsAreAccepted` |

The arguments:

- **Checkout.** None of the parts is inductive alone. Settlement takes what is
  reserved for the order, so it needs `PayableOrderHoldsItsCodes`; that needs
  `AllOrNothing` and `FailedPaymentKeepsNothing` to survive late allocations,
  which need the code columns to agree (`CodeColumnsAgree`).
  `SoldOnlyIfCaptured` needs `JobsAreSound`: a verdict that a process still
  carries remains true, since the gateway never takes captured money back. The
  key is that `orderPay`, unlike `pay`, is written under a condition
  everywhere, also by `markUnknown`: so the invariant relates codes to
  `orderPay` and survives the lost updates of `pay` that `TerminalRevival`
  shows. The lemmas say what each kind of step does to the order it serves and
  that it moves no other order's codes; every action is then one case. The
  ledger follows step by step: a reservation is `Hold`, a release `GiveBack`, a
  settlement `Sell`, a late one `SellFromStock`, everything else a stutter.
  That no reservation is given up under an open session needs the gateway's
  past: whoever records a failure was told it by the gateway
  (`FailuresAreReported`), and what the gateway refused it may later call paid,
  but never again open. A checkout decides to release only when it finds no
  payment, and without a payment there is no session; a session opened after
  that look is met by the write of that release alone. That a settled payment
  keeps its completed order follows step by step: a failure that meets a PAID
  payment or order is refused by its conditions, whatever verdict it carries,
  and a mark leaves a PAID order alone.
- **Top-ups.** An item leaves the queue once. After that it belongs to the
  provider, if attempts were counted, or to an administrator, never to both. A
  submission under way is the only one, and an item that may be submitted again
  is one of which the provider has no record, or a retryable failure: that is
  why a claim of an item whose submission may have got through must be a query.
  A claim and a settlement act on a payment read before: what keeps unpaid
  orders from the provider is that a payment once PAID never becomes payable.
- **Delivery.** Delivery rows come with the settlement, so an order that may
  still settle has none and no settlement resets a delivery. While no send
  outlasts the delay, a claim excludes others until its outcome is recorded:
  nobody else works on the order and its rows are not due. A refund is recorded
  for good, so once those who had read the order are done, nobody passes the
  read again.
- **Stock.** A sold code belongs to a completed order whatever edits did
  before, so an order that settles counts no code twice. An edit that passed
  its checks conflicts with no row in plaintext, and the unique key refuses the
  rest. While nothing interrupts an edit, at most one is between its read and
  its write, and the code is still as it was read.
- **Accounts.** The role of a row never changes once the row is there, which
  makes a check before an unconditional write enough. Unused verification codes
  belong to accounts that are not verified, one to each, because both
  transactions that could add a second one spend what is there. Codes are
  numbered in the order of their issue, and what an account could use before
  is spent with each issue: so a usable code is the newest, also when it is
  spent by a request that compared it earlier (`Trail`). For reset codes this
  needs requests that do not overlap, since clearing and issuing are two
  transactions. Only a customer's deletion takes a password, and it takes the
  address too, so that no later request finds the account (`Deletions`). A
  verification code that nobody has read is with the request that sends it,
  until the mail is out or the code is disabled (`Deliveries`).
- **Cart.** An id is given to one row only and a row keeps its option, so the
  row that a purchase deletes by id has the option of the row it read. The
  lines of an order have different options, so what a purchase takes of an
  option is what the stock covered.
- **Product catalogue.** The unique keys keep slugs and reviews single whatever
  requests had read. An option belongs to one product, so the plans that an
  update of a subscription replaces are in no cart row of another kind. With
  requests in turn, what a request read stays true until it writes (`Alone`,
  `Knows`): the titles it compared, the slugs it found free.
- **Top-up catalogue.** What a request carries from its one query is an offer
  that was sold and required fields among the active ones (`Carries`), and an
  order is written from nothing else, so edits under it do no harm. The data of
  an edit leaves every row it may meet well-typed, whatever the row has become
  since it was checked (`Fits`). A game is on sale only while `deletedAt` is
  empty, which no edit of the status restores. With one request at a time the
  catalogue is still as the form and the order have read it (`Alone`), so both
  saw the same fields, and only a key with "token" in it can make the
  difference.
- **Abuse block.** The violations a record counts are the last ones of the
  client, the first of them opened the window, and each of the others came
  before the window was over. A client with one request at a time has none
  inside while it is blocked, so nothing touches its record.

Only model-checked: liveness (`CapturedPaymentIsSettled`, `SettledOrderIsMailed`,
`PaidOrderIsResolved`, `CompletionIsMailed`), which TLAPS does not prove under
fairness.

Only proved: `SerialsAreUnique` (`PlacesAreUnique`), which takes several
orders, more than `TopUp` has.

## Not modelled

- The batch limit of the payment sweeps: which payments a batch of 20 holds,
  hence starvation by older rows (`payment.service.ts:304`).
- The counters of the rate limiters and the pattern check: library code; a
  request is served or refused.
- The content of requests to the gateway, the provider and the mail server,
  signatures and parsing; AES-GCM; password hashing.
- Lists, searches, reports, formatting, paging, audit rows that nothing reads.
- Input validation, except where a value decides what is stored (account
  details of top-ups, quantities).
- Uploads, logs, configuration, routing, the API description, migrations and
  the seed beyond the rows it creates.

## Plan

Next, the most important first: the payment sweep with a batch smaller than the
backlog; an abstract specification of a retried e-mail that both
`GiftCardDelivery` and the notifications of `GameTopUp` implement.
