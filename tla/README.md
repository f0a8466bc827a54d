# Peable, specified

TLA+ specifications of the Peable payment gateway (`src/packages/backend`) and of
its app's light wallet (`src/packages/frontend`), the TLC configurations that
check them and the TLAPS proofs of what matters most about them. Paths below are relative to `src/packages/backend/src/` unless they
start with `packages/`.

## 1. The system

Peable is a payment gateway: a Node service over PostgreSQL, run as several
identical tasks, in front of two rails. The card rail is an acquirer (Stripe)
reached over HTTP and heard from by webhooks. The FairCoin rail is a blockchain
read through an explorer. A merchant creates payment intents, refunds,
transfers, checkout sessions and subscriptions through a REST API, and is told
what happened by events delivered through a webhook outbox.

Nothing holds a lock across a network call. A handler reads a row, asks
somebody, and writes with a compare-and-swap from what it read; the same row is
meanwhile the target of other requests, of sweepers on timers and of the drain
of provider events, on every task. That is where the interesting behaviours are.

### Inventory

| Component | State | Operations | Interacts with |
|---|---|---|---|
| Status machine (`services/intentState.ts`, `packages/shared-types/src/paymentIntent.ts`) | none | `applyEvent`, `isValidStatusTransition` | everything that moves an intent |
| Card payment intents (`createIntent`, `confirmIntent`, `intentTransition`, `intentReconciliation`, `cardCancellation`, `expirySweeper`, `routes/paymentIntents`) | `payment_intents`, `charges`, `events` | create, replay, confirm, capture, cancel, expire, reconcile | acquirer, drain, outbox |
| Provider events (`providers/ingress`, `providerEventDrain`, `providers/eventProcessor`) | `provider_events` | ingest (dedupe), drain pass, interpret, mark | acquirer, intents, refunds, disputes, accounts, payouts |
| FairCoin settlement (`settlementWatcher`, `explorer`, `faircoinBroadcast`) | `payment_intents`, `faircoin_outputs`, in-memory timers | submit a transaction, poll, confirm, rewind on a reorganisation, recover at boot | chain, intents |
| Webhook outbox (`webhookOutbox`, `webhookDispatcher`, `webhookEndpoints`) | `events`, `webhook_deliveries`, endpoints | record with the transition, lease, deliver, retry, give up, disable, replay | every component that emits an event; the merchant's server |
| Idempotency (`lib/idempotency.ts`, `idempotencySweeper`) | `idempotency_keys` | claim, lease, complete, replay, take over, sweep | every POST route |
| Refunds (`refunds/refundService`) | `refunds` | reserve, submit, settle by answer or event, release | acquirer, drain, ledger |
| Transfers (`transfers/transferService`) | `transfers`, reversals | create, reverse, within the charge's budget | acquirer, ledger |
| Checkout sessions, payment links (`services/checkout`) | `checkout_sessions` | create, pay, complete, expire, restock | intents, billing, coupons |
| Billing engine (`services/billingEngine`) | subscriptions, invoices, quotes, credit notes, test clocks | cycle, draft, finalize, collect, retry, cancel, schedule | intents, catalog, clock |
| Radar (`services/radar`) | rules, reviews | gate a payment, open and close a review, judge | intents (hold and capture) |
| Ledger, payouts (`services/money`) | balance transactions, payouts, cursors | sync, reconcile | acquirer |
| Email outbox, reports, Oxy file references | their own outboxes and leases | enqueue, lease, run, retry | object storage, mailer |
| Setup intents, customers, payment methods, accounts, disputes, identity, terminal | projections of acquirer objects | create, re-read, apply an event | acquirer, drain |
| Light wallet of the app (`packages/frontend/src/wallet`, `p2p`, `storage`) | `block_headers`, `utxos`, `transactions`, `rescan_state` on the device; a coin set in memory | link a header, credit and record a transaction, scan past blocks, send | one FairCoin peer at a time, the Explorer |
| Catalog, tax, search, request logs, realtime, screens, checkout page, SDK, CLI | rows, views | CRUD, arithmetic, presentation | |

### What is hard, and what makes each part right

* **Intents.** Five writers per row (request, sweep, drain, replay, watcher) and
  an acquirer that moves on its own. Right when: one ending is told and it is
  the row's; succeeded means the money moved; a canceled payment cannot be
  completed; money that was taken is eventually reported.
* **Provider events.** At least once, any order, before the row is linked. Right
  when no event is lost, no stale event undoes a newer truth, and one bad event
  does not stop the rest.
* **FairCoin.** A confirmation may be undone by a reorganisation; timers live in
  memory. Right when nothing is called settled below the threshold, nothing that
  is paid expires, and a restart forgets no payment.
* **Outbox.** Crash between sending and recording, two dispatchers, endpoints
  that change. Right when every committed event is delivered or visibly given
  up, and an endpoint is not written to by two lanes at once.
* **Idempotency.** A lease that runs out while its owner still works. Right when
  one key has one effect and one answer.
* **Refunds and transfers.** Partial failure of the acquirer call. Right when
  the sum never exceeds what was received, and an unknown answer is not retried
  as a new operation.
* **Addresses.** Two requests count the same bound at once; a wallet reads three
  statements. Right when no bound is exceeded and no address handed out goes
  unwatched.
* **Checkout.** The order changes while its payment is being made. Right when an
  order is paid once, at the price it has, and a code sells as often as it may.
* **Billing.** A lease runs out while its owner charges; a decline is told twice.
  Right when an invoice is charged once and what was charged is what is paid.
* **Light wallet.** A transaction may come before its header, again without its
  block, or again after its coin was spent, while sends choose coins from the same
  rows. Right when the rows end as the chain has them and no coin is sent twice.
* **Disputes and readers.** Events and readings that are old when used. Right
  when an outcome is told once and is one the network, or the provider, gave.

## 2. Modules

| Module | Models | Extends |
|---|---|---|
| `IntentState` | the pure status machine: edges, events, legal sources, rails | |
| `PaymentLifecycle` | abstract: what a merchant is promised of one payment | `IntentState` |
| `CardIntent` | one card payment: row, acquirer's payment, events, and the executions that race over them | `IntentState`, instantiates `PaymentLifecycle` |
| `WebhookOutbox` | deliveries of events to a merchant's endpoints, and the passes that attempt them | |
| `Idempotency` | one `Idempotency-Key`: its row, the requests that present it, what they are told | |
| `Refunds` | the refunds of one payment: rows, the acquirer's refunds, its events, the drain | |
| `Transfers` | the settlements of sellers out of one payment, and their reversals | |
| `FairSettlement` | one FairCoin payment and the watchers that read the chain | instantiates `PaymentLifecycle` |
| `ReceiveAddresses` | the addresses handed out in recipients' wallets, and a wallet that syncs them | |
| `Wallet` | the app's light wallet: headers, coins, the historical scan, sends | |
| `CheckoutSession` | orders, their payments on both rails, the code they share | |
| `InvoiceCollection` | the invoices of one subscription, charged by lease holders | `IntentState` |
| `Disputes` | one dispute: its row, events in any order, the merchant's answers | |
| `TerminalReader` | readers that collect payments in person | |
| `CardIntent_proofs`, `Idempotency_proofs`, `Refunds_proofs` | theorems of one component | the module, TLAPS |
| `WaysToPay_proofs` | theorems of `ReceiveAddresses`, `FairSettlement`, `CheckoutSession`, `Wallet` | the first, instantiates the others |
| `AfterPayment_proofs` | theorems of `Transfers`, `Disputes`, `WebhookOutbox` | the first, instantiates the others |
| `Collection_proofs` | theorems of `InvoiceCollection`, `TerminalReader` | the first, instantiates the other |
| `MCPayments_proofs`, `MCServices_proofs` | the same, of the specifications TLC checks | `MCPayments`, `MCServices`, instantiate the three above |
| `MCCardIntent`, `MCIdempotency`, `MCRefunds` | one component with interchangeable workers | the module |
| `MCPayments`, `MCServices`, `MCProgress` | several components side by side | |

Everywhere one action is the code between two awaits of one execution. A
worker (`job[w]`, `request[r]`, `pass[p]`) holds what the handler's local
variables hold across an await: the row it read, the answer it got, the event it
is handling. What the gateway does not own (the acquirer, the payer, the
merchant's server, a task dying, time) is modelled from how the code uses it and
marked external in `PROJECT.json`. Operators whose comment begins "A faulty
variant" are not part of a specification: each is a mapped definition with a
plausible bug in it, kept to show that a property can fail. Some properties
stand in a module without a run: they say what section 6 reports, with the
constants that show it.

**Side by side.** The components of `MCPayments`, `MCServices` and `MCProgress`
share no row: what one needs of another (that the watcher decides, that a card
payment ends) is an external action in it. So they are not multiplied: `focus`
is chosen at the start and says which component a behaviour is of; the others'
variables are `Off`, and the state space is the sum. One component may stand
there under several sets of constants, each reaching something the others do not.

### CardIntent

| State | Code |
|---|---|
| `status`, `linked`, `charged`, `received` | columns of `payment_intents` and the `charges` row; `received` tells apart nothing, a part, the full amount |
| `outcomes` | `payment_intent.succeeded` / `.canceled` rows of `events`, committed with the transition |
| `captureMethod`, `saved` | the terms: capture method, created with a saved payment method |
| `due` | `expires_at` has passed |
| `pp`, `taken`, `events` | the acquirer's payment, what it captured, what it announced |
| `processed` | `provider_events.processed_at` |
| `job` | executions in progress |

| Actions | Code |
|---|---|
| `Create`, `Resume`, `AttachProviderPayment`, `LinkProviderObject` | `services/createIntent.ts`: row, acquirer's payment under `pay:<id>`, link |
| `Confirm`, `ConfirmAtProvider` | `routes/paymentIntents.ts` confirm, `services/confirmIntent.ts` |
| `Capture`, `CaptureAtProvider` | the capture route; one capture per payment |
| `Cancel`, `Expire`, `CancelAtProvider`, `CloseRow` | the cancel route, `expirySweeper.ts`, `cardCancellation.ts` |
| `AskProvider`, `RereadRow`, `ApplyProviderPaymentResult` | `intentReconciliation.ts` |
| `FetchEvent`, `FindIntentByProviderObject`, `ProcessProviderEvent`, `MarkProviderEventProcessed` | `providerEventDrain.ts`, `providers/eventProcessor.ts` |
| `TransitionIntent` | `intentTransition.ts` and `updateIntentState`, the one door to the row |
| `PayerActs`, `BankAnswers`, `HoldLapses`, `ClockPasses`, `Abort` | outside |

`PaymentLifecycle` is the promise: a payment is created, its status walks the
published table, and one ending is announced. `CardIntent!ImplementsLifecycle`
is `Lifecycle!Spec` under the identity mapping of `status` and `outcomes`;
`FairSettlement!ImplementsLifecycle` is the same promise kept by the other rail.

### WebhookOutbox

`delivery` is `webhook_deliveries` keyed by event, endpoint and redelivery
number (status, attempts, whether `next_attempt_at` has come, whether the lease
runs); `endpoint` is `webhook_endpoints` (status, whether its stored URL breaks
the rules, how long its run of failures is); `pass` is a dispatcher pass with
the rows it claimed. `RecordEvent` is the fan-out inside the transition's
transaction; `ClaimDueDeliveries` the claim with `for update skip locked`; then,
per row, `FindEndpointSigningTarget`, `AttemptDelivery`, `RecordDeliveryAttempt`
and `RecordEndpointAttempt`, or `DisableEndpoint` and `ReleaseDeliveryClaim`.
`Fault` is a pass that dies or skips a row because a statement failed. `LeaseLapses`
may come while a pass still holds the row, since 60 seconds need not be enough for
the 25 rows of a batch; `overrun` is history, the deliveries this happened to. Left out:
subscription filters (an event goes to every endpoint), secret rolls, endpoint
creation after the event, test events and the retention of old events.

### Idempotency

`key` is the row of `idempotency_keys`; `ClaimIdempotencyKey` is the one
`insert … on conflict do update`, `FindIdempotencyKey` the read after a lost
claim, `Run`, `Store` and `Send` the handler and the wrapped `res.json`,
`RunIdempotencySweep` the sweeper. `windows` counts 24-hour lives of the key, so
that answers of different lives are not compared. `overrun` and `lost` are
history: whether a request has ever outlived its 60 s lease, and whether an
answer has ever failed to be recorded. The code allows both; its promise of one
answer is kept only until one of them happens, and the business keys behind each
route (`createIntent`'s own key, a refund's `external_ref`) are what absorbs the
second run.

### Refunds

`rows` is the `refunds` table for one payment, `refunds` and `news` the
acquirer's refunds and every state it announced of them, `stored` and
`processed` the `provider_events` about them. `RequestRefund`, `CheckRemaining`,
`InsertRow`, `RereadRow`, `SendRefund`, `RecordResult` and `RecordRefusal` are
`createRefund` between its awaits; `RequestCancel`, `CancelAtAcquirer` and
`CloseRefund` are `cancelRefund`; `StartPass`, `ExamineEvent`,
`ApplyRefundState`, `ImportProviderRefund` and `MarkProcessed` are the drain and
`handleRefundEvent`.

Assumed of the acquirer: it refuses to refund more than it took; it answers a
repeated idempotency key with its first answer; an event carries the refund's
status at that moment and its amount. Assumed of the rest: the payment has
succeeded and is linked. The route's read of the reference and `createRefund`'s
own read of it are one step, since nothing is done between them that another
execution could see. A retryable error or an answer that never came ends the
request and leaves the row as it is, which is `Abort`.

### Transfers

| State | Code |
|---|---|
| `transfer`, `reversal` | rows of `transfers` and `transfer_reversals`, by the merchant's reference |
| `sent`, `taken`, `refused` | what the acquirer made of each idempotency key |
| `unread` | cumulative totals announced by `transfer.reversed` and not yet processed |
| `misread` | history: references of which one refused call was taken for a refusal of the whole |

| Actions | Code |
|---|---|
| `AskTransfer`, `FindTransfer`, `InsertTransfer` | `routes/transfers.ts`, `createTransfer` up to the insert under the payment's advisory lock |
| `SendTransfer`, `SendTransferLost`, `MarkTransferPaid`, `MarkTransferFailed` | the acquirer's answer, its loss, and what is recorded |
| `AskReversal`, `SendReversal`, `ReadTotal`, `MarkReversalSucceeded`, `ApplyTotal`, `MarkReversalFailed` | `reverseTransfer` between its awaits |
| `RefusedForItself`, `Abort` | a call refused for a reason of its own (a key revoked); one that dies or may be retried |
| `HandleTransferEvent` | `eventProcessor.ts` `handleTransferEvent` |

### FairSettlement

`row` holds status, transaction, depth, key stamp and age of a FairCoin intent;
`net` what the ledger adds up to; `memory` the watcher's maps of one task (since
when a transaction is missing, suspect or unseen); a poll (`<<task, n>>`) has its
own `job`, because a poll starts every interval whether the last one ended or
not. `ReadTransaction`, `AskTip`, `JudgeUnseen`, `CheckRecipientKeys`,
`RecheckSettled` and `WriteRow` are `check` of `settlementWatcher.ts` between its
awaits; `StartKeySweep` and `ChainShowsUnpaid` the sweep of replaced keys. A
reading (`Seen`) is the truth or, at the cost of a fault, what a lagging node
says. `TimePasses` ripens the watcher's grace periods. `FinalStatus` reads a
success as settled once it is `Depth` deep and no poll at work still holds a copy of
the row that it read as succeeded before that (such a poll may yet rewind it, or
write a smaller depth), and with it `ImplementsLifecycle` says that the FairCoin rail
keeps the promises of `PaymentLifecycle`, for any number of tasks and of polls that
overlap.

### ReceiveAddresses

`cursor` and `handed` are `social_receive_cursors` and the two tables that name
a handed-out address; `pool` is the advisory lock of a recipient. A request plans
(`PlanPayment` for the outputs of a payment, `AskAddress` for a send to an
@username), may be given its unpaid address again (`ReuseUnpaidAddress`), locks
one pool after another in the recipients' order (`LockRecipientPool`), counts and
reserves (`MayReserve`, `Commit`). `ReadPage` is the wallet's incremental read.

### Wallet

`headers`, `coin`, `txBlock`, `scan` and `pendingFrom` are the rows on the device;
`memory` is the coin set, `wire` what the peer sent (a filtered block becomes its
transaction when it is read), `batches` headers to be linked,
`jobs` the transactions in `processIncomingTransaction`, `assoc` the block the next
copy of a transaction is taken to be of. `ProcessMerkleBlock`, `ProcessTransaction`
and `ApplyHeaderBatch` are `spv-client.ts`; `ApplyTransaction`, `MarkDebitsSpent` and
`InsertTransaction` the processing between its awaits; `ReconcileConfirmations`
gives heights to what came before its header. `StartRescan` to `PersistWindow` are
`runHistoricalRescan` and `Rescanner.run`: a window is passed a fixed time after it was
asked for, so `PersistWindow` looks at nothing that came, and is left for the next
scan only when no peer was there to ask (`LeaveWindow`). `CheckSocialReceiveDue` and
`RefreshFilter` the check that finds coins at addresses outside the filter. A send
chooses and reserves coins (`SelectInputs`), is broadcast, marks its inputs and
records its row, or fails. `Disconnect` loses what the peer sent, `Crash` all but the
rows; `missed` is history, the transactions of linked blocks whose answer either of
them lost once the scan was past the block or waited for it, which finding 22 is
about. A transaction of ours makes one coin, the row of which is written in the turn
that credits it; the peer is asked for new blocks when it has sent what it was asked
for and their headers are linked, loose copies and replays come at any time.

### CheckoutSession

`session`, `payment`, `acquirer`, `redeemed` are rows and the acquirer's side; a
request works on the copy of the session it read. `UpdateSessionAsPayer` edits;
`StartConfirm` to `LinkSessionObject` are `confirmSessionAsPayer` between its
awaits; `ReadLinked` to `ReplaceSessionPayment` are a change of method;
`StartExpire` to `ExpireRow` the merchant's expiry; `ExpireDueSessions` the
sweep. `FollowIntent` is what a transition of the payment does to the order, in
the transaction of that transition.

### InvoiceCollection

`subscription`, `invoice` and `payment` are rows; an instant is `now`, `later`
or `none`. `ClaimDueInvoice` takes the lease, `RunInvoiceStep` finalizes or
attempts, `AttemptInvoicePayment` to `SettleAttemptSchedule` are
`attemptInvoicePayment` of `collect.ts` between its awaits, `PayInvoice` the same
from a request. `OnPaymentTransition` is the hook that moves invoice and
subscription in the transaction that moves the payment. `ProcessProviderEvent`
applies an event, keeps one that neither it nor a look at the acquirer can apply, and
leaves it unmarked when its pass dies or another pass read it as well. `Renew`,
`ExpireIncomplete`, `FinalizeInvoice`, `VoidInvoice`, `MarkInvoiceUncollectible`,
`PaidOutOfBand` and `CancelSubscriptionNow` are the other writers.

### Disputes

`dispute` is the row, `network` the truth, `inbox` the stored events in the order
of their arrival, `processed` those marked. A drain takes the places of its batch
in that order and examines the event at each (`ReadDispute`, `ReadBefore`, `UpsertDispute`, `MarkProcessed`); a request
stages a draft, submits or accepts (`StartRequest` to `CloseDisputeAsLost`).

### TerminalReader

`action` is the action columns of `terminal_readers`, `device` the provider's
reader. `StartCollection` to `ReleaseReaderAction` are `processPaymentIntent`
between its awaits; `AskReader` to `SettleReaderAction` are `reconcileReader`,
run by retrieves, cancels, sweeps and events alike. A claim may age past its minute
while the request that made it still waits for the provider (`ClaimAges`), and the
provider may refuse a collection for any reason (`SendCollection`).

## 3. Runs

| Run | Question | Bounds |
|---|---|---|
| `card_races` | can two handlers, sweeps or drains make the row contradict itself, the money or the published lifecycle? | 2 workers, every capture method and both ways to create, 1 attempt, 1 abort |
| `card_progress` | is money that was taken reported, and does an unpaid payment end? | 2 workers, automatic capture, 1 attempt |
| `idempotency` | does one key run one request and give one answer, and what survives an overrun? | 3 requests, 2 bodies, 3 windows, 2 crashes |
| `refunds` | does a reference send money once, as reserved, and do rows end as the acquirer said? | 2 workers, 1 reference, amounts 1 and 2 of 2 received, 1 dashboard refund of 1, 3 announcements, 1 fault |
| `payments` | is what is called received received, once, and are the bounds on addresses and codes kept, and does a wallet end with the coins of the chain? | below |
| `services` | is each outcome around a payment one that was given, told, charged and paid out once, and each webhook delivered once and for its reason? | below |
| `progress` | do a payment on the chain, a due order, an invoice in dunning and a webhook delivery come to their end? | below |
| `paid_after_cancel`, `card_choice_dead`, `first_payment_retired`, `declines_counted_twice`, `coin_chosen_again` | expected violations, section 6 | the smallest that shows it |

| Run | Focus | Bounds |
|---|---|---|
| `payments` | `Watcher` | 1 task, threshold 2, depth 3, 1 reorganisation, 1 fault |
| | `TwoWatchers` | 2 tasks, threshold 1, depth 2, 1 reorganisation |
| | `Recipient` | 1 recipient, 2 senders and payments, 2 requests, 3 addresses, 1 unpaid payment, 4 fresh ones a day (repeats within 2), 2 per sender |
| | `TwoRecipients` | 2 recipients, payments to both, 1 roll-back |
| | `Order` | 1 order, 2 requests, both rails, 4 writes, 1 fault |
| | `TwoOrders` | 2 orders, 1 request at a time, a code sold once |
| | `Sending` | 1 coin, 2 sends of it, 1 block, 1 loose copy, 1 crash or lost peer |
| | `Restarted` | 1 coin, 1 send of it, 2 blocks, 1 crash or lost peer |
| | `Rescanned` | 2 coins, one at an address that joins the filter late, 1 block replaced, 1 crash or lost peer |
| `services` | `RacedDispute`, `LongDispute` | 2 drains and 2 announcements; 1 drain and 3; 1 request, 1 abort |
| | `Reader`, `TwoReaders` | 2 attempts at 1 reader with a fault; at 2 readers of 1 payment |
| | `Renewal` | 2 tasks, 2 payments of 1 invoice, a lapsing lease |
| | `FirstInvoice`, `Dunning` | 1 task and 1 request, every outcome of a charge, 1 fault, 1 retry |
| | `Settling` | 2 requests, 2 settlements of a payment of 2, one for either of two sellers, 1 reversal and 1 more at the acquirer, 1 fault or refusal |
| | `Outbox` | 1 event, 1 endpoint, 1 redelivery, 2 passes, a schedule of 1, leases that run out |
| `progress` | `Watcher`, `Order`, `Dunning` | as above with 1 task; 5 writes; 2 tries of one charge |
| | `Outbox` | as above without a redelivery, 1 fault |

About 1.7 million distinct states in `payments`, 2.9 million in `services`, 71
thousand in `progress`, 130 thousand in `card_progress`.

**Why the bounds are enough.** Every race here is between executions that each
read once and write once: two workers give every interleaving of two, and the
theorems of section 5 cover any number of them. One abort or fault puts a crash
or a lost answer at every await. Idempotency needs a third request: one that
died, one that takes over, one that asks afterwards. In the outbox a redelivery
makes a second row of the same endpoint, so that a pass has a batch. A schedule
of one entry has a retry and an exhaustion. In `refunds`, three announcements are
a dashboard refund, the gateway's own, and one of them moving on. A chain needs
a depth at which success is said and a greater one past which nothing is watched;
one reorganisation and one bad reading are what the watcher's second reading is
there to tell apart. Two blocks are what the wallet needs to have a coin, spend
it and see that confirmed (`Restarted`); two sends race, and a copy comes late,
over the one block that paid the coin (`Sending`). A payment of 2 and amounts 1
and 2 let two settlements fit, and not fit. Two sets of constants where one suffices in principle (`Watcher` and
`TwoWatchers`, `Renewal` and `Dunning`) split what would be too large together:
what is not explored is a fault beside a second worker in those.

Deadlock is not checked in these runs: a payment that ended, a key whose windows
are used up and a delivery that was made are states where nothing remains to do.

**Type invariants.** Every module has one, which a run checks and section 5
proves; those of the components of `payments` and `services` are conjuncts of the
`TypeOK` of these.

## 4. Fairness

`CardIntent!Fairness`: an execution that started goes on (weak, per worker); the
drain tries each stored event again and again (strong, because a worker may be
busy when it could be tried) and the sweep each due row (strong); the bank
decides what it is processing (weak). The code justifies this with loops on
timers (`providerEventDrain.ts` every 5 s, `expirySweeper.ts`) in every task, and
with the acquirer redelivering until it gets a 2xx. The strong fairness of one
event holds while fewer events than a batch (50) are stuck ahead of it: see
section 8. Payers and merchants are under no obligation.

`WebhookOutbox!Fairness`: a pass goes on, backoffs and leases run out (weak),
and each delivery is claimed if it is claimable again and again (strong): the
loop runs every 5 s and claims the oldest due first, so a due delivery is passed
over only by the finitely many due before it.

`MCProgress!Fairness` is the outbox's and the `Fairness` of three components, each
weak. Of
`FairSettlement`: a poll starts and goes on (an interval per task), time passes,
rows age, blocks are mined. Of `CheckoutSession`: a request goes on, the deadline
sweep runs, the sweep of `CardIntent` and of FairCoin quotes end what is due, and
a card payment that ended is reported (`CardIntent!SettlementArrives` and
`ExpiryEnds` are what justifies these two). Of `InvoiceCollection`: a due invoice
is claimed, a lease runs out, an attempt goes on, instants fall due, the acquirer
decides, its event is drained. Nothing is assumed of payers or merchants.

## 5. Proofs

Checked by TLAPS for every value of the constants; TLC checks the same formulas
on the instances above.

| Module | Component | Theorems | Assumes |
|---|---|---|---|
| `CardIntent_proofs` | | `TypesHold`, `OneOutcome`, `SucceededWasPaid`, `CanceledAtProvider`, `EndingsAreFinal`, `Refinement` | `BoundsAssumption`, `TermsAssumption` |
| `Idempotency_proofs` | | `TypesHold`, `AnswersHold`, `AnswersStay`, `RunsAlone`, `AnswersOnce`, `HolderRuns` | `LimitsAssumption`, `NoneAssumption` |
| `Refunds_proofs` | | `TypesHold`, `OnceSent`, `AsReserved`, `WalksForward`, `EndsWereAnnounced`, `LastWasTold` | `BudgetAssumption` |
| `WaysToPay_proofs` | `ReceiveAddresses` | `TypesHold`, `NeverReusedHolds`, `SyncMissesNothingHolds`, `UnpaidWithinBoundHolds`, `OneUnpaidHolds`, `RepeatsHold`, `NoLockCycleHolds` | `AddressBounds` |
| | `FairSettlement` (`Fair`) | `FairTypesHold`, `SettledWasDeep`, `BooksAlwaysFollow`, `ReplacedKeysAreSaid`, `RewindsAreFounded`, `RailImplementsLifecycle` | `SettlementBounds` |
| | `CheckoutSession` (`Order`) | `OrderTypesHold`, `PaidOnceHolds`, `PaidIsReceivedHolds`, `NewsOnceHolds`, `CodeWithinBoundHolds` | `CheckoutBounds`; the last one finitely many sessions |
| | `Wallet` (`Purse`) | `PurseTypesHold`, `SendsStayApart`, `CoinsStayTheChains` | `WalletBounds` |
| `AfterPayment_proofs` | `Transfers` | `TypesHold`, `ReversedStaysTrue`, `ReversalsStayTrue`, `SellersWithinPayment` | `TransferBounds`; the last one finitely many references |
| | `Disputes` (`Disp`) | `DispTypesHold`, `CreatedToldOnceHolds`, `OutcomeIsTrueHolds`, `AnsweredIsTrueHolds`, `StatusWasToldHolds` | `DisputeBounds` |
| | `WebhookOutbox` (`Hook`) | `HookTypesHold`, `DeadWereTried`, `DeliveredWereAccepted`, `ClaimedByOne`, `EndedForGood` | `OutboxBounds` |
| `Collection_proofs` | `InvoiceCollection` | `TypesHold`, `OneInvoiceOneCharge`, `PaidWasCharged`, `PaidInvoiceRestores` | `CollectionBounds` |
| | `TerminalReader` (`Desk`) | `DeskTypesHold`, `AttemptsSettleOnce`, `SuccessesWereTaken`, `CollectedByOne` | `TerminalBounds` |
| `MCPayments_proofs` | the sum | `TypesHold`, `SuccessesAreTrue`, `BooksAlwaysFollow`, `SyncsMissNothing`, `AddressBoundsAlwaysHold`, `OrdersArePaidOnce`, `CodesAreWithinBound`, `SendsStayApart`, `CoinsAreAlwaysTheChains`, `RewindsAreFounded`, `LifecycleIsKept` | `BoundsAssumption` |
| `MCServices_proofs` | the sum | `TypesHold`, `DisputesAreToldTruly`, `AttemptsEndOnce`, `InvoicesAreChargedOnce`, `PaidInvoicesAreSettled`, `ReversalsAreTrue`, `SettledWithinPayment`, `DeadWereTried`, `ClaimedByOne`, `EndedForGood` | `BoundsAssumption` |

Components whose theorems are carried over together stand in one module: it
extends one of them and instantiates the rest under the names in brackets. They
share no row, so no proof of one uses another. A `...Bounds` says
that bounds are natural numbers and that what stands for nobody or nothing is no
worker, sender or transaction; each sum's `BoundsAssumption`, which TLC evaluates, is the
conjunction of them for the constants of its components.

**The sums.** `Spec` of `MCPayments` chooses a `focus` and goes on as one of its
components. `...Is` says that the component's `Init`, `Next` and properties, under the
constants it has there, are those of an instance of the proof module, definition by
definition; `...Runs`, that a behaviour of the sum is a behaviour of that
instance or never has that focus (`focus` never changes). The general theorem then
gives the property while the focus is that component, and each theorem of the sum
puts its components together. So what TLC checks and what is proved is one formula,
not two that look alike.

**CardIntent.** `OutcomeTold`, `SucceededIsPaid` and `CalledOffFirst` are not
inductive: a worker that is about to write "succeeded" does so from an answer it
got earlier. `IndInv` adds that answers and events in flight are truthful
(`JobsTruthful`, `EventsTruthful`): one that says succeeded or canceled exists
only if the acquirer's payment has that ending, and an ending is never left.
A worker closing a row started from a status that may be called off. With that,
each write of `TransitionIntent` is an edge of the table from the status the row
has, and `Refinement` follows step by step.

**Idempotency.** `Inv` says that the row, the request it names and the answers
given tell one story: the row binds its claim's body, belongs to the last window
begun, and is completed only by a claim whose run is over. That gives
`AnswersHold` and `AnswersStay` with nothing assumed of time. `Exclusive` (a run
of the current window holds the key with a live lease, or the key is gone) and
`Single` (an answer given is the one its key recorded) hold until a lease is
outlived, and until an answer is lost; they give `RunsAlone` and `AnswersOnce`.

**Refunds.** `IInv` is four conjuncts. `Table`: one row per reference.
`Acquirer`: one refund per row, of the amount the row reserves. `Jobs`: whoever
is about to send holds the row's amount, whoever records names a refund that
exists, and a drain holds an event that was announced. Every action leaves rows,
refunds and news in place and keeps a row's reference and amount (`Grows`), so
the jobs of all other workers still hold: one lemma per action is left.
`WalksForward` uses the same invariant and each writer's guard. That a row ends as
announced needs a second invariant, `Truth`, since a writer brings a status it
was told several steps ago: what a worker or a row says of a refund is what the
acquirer first answered or what it announced of that very refund, an announced
ending is its ending (`Heard`), and a refund once named by a row is named by it for
good (`Onward`). `LastWasTold` is about what the merchant heard: the writer decides
from the status it read earlier whether there is anything to tell, and the
invariant says that this was the row's status or that the row does not change. The
one exception is the merchant's own failed refund (`ToldAsRow` leaves it out).

**Transfers.** `ReversedIsTrue` says that a row's total never exceeds what the
acquirer took back and, when nothing is unread, equals it. The strengthening
`RowTotals` says where the latest total is: in the row, or announced and still
unread. Totals only grow and `ReversedTo` keeps the larger, so a late event or a
late answer changes nothing; every total a request or an event carries is one the
acquirer reached (`Totals`). For `ReversalIsTrue` a reversal has one holder at a
time, and what was taken for it is known to the request that asked or to its row
(`Takings`). The one exception is a reversal marked failed because the call that
reads the total was refused (`misread`): section 6 shows why.

`WithinPayment` is the budget, and its invariant `Budget` has three parts: what is
committed fits the payment, because `InsertTransfer` adds it up and writes under
one lock (`CommittedMore`); whatever the acquirer holds under a reference is in a
committed row of that amount (`Settled`); and what a request knows between its
steps stays so (`Knows`). The delicate step is `MarkTransferFailed`, after which a
row no longer counts: it is safe when the refusal a request holds is one its
key keeps, since nothing was or will be made under it then. That is false of a
refusal for another reason and of a key the acquirer refuses because the seller
changed. Such a reference is in `misread` from the moment its call is refused, and
the property and the sum it is proved with leave it out: `Committed` is what counts
among the others, no more than what the code adds up (`KeptCounts`), so the check of
`InsertTransfer` is worth as much. What the acquirer holds under the references left
out is not bounded, which is findings 8 and 9. Sums are the first section of the module:
`SumFunctionOnSet` is a fold over an arbitrary order, and no induction theorem can
be instantiated here, so its facts - it satisfies its equation (`SumOfPicked`), any
element may be taken out first (`SumTakesOut`), it is monotone (`SumAtMost`,
`SumOfPart`, `SumOfWhole`) - are proved from a smallest counterexample, which
exists because `<` on the numbers is well founded (`LeastNumber`, `SmallestSet`).

**WebhookOutbox.** A pass works from copies of the rows it claimed. `Counted`
says what a copy is worth however old it is: the row exists, its count has only
grown since, and a 2xx in hand was given. That is enough for `DeadWereTried` and
`DeliveredWereAccepted`, with nothing assumed of leases. `Apart` adds that a
delivery somebody holds is pending under a live lease (or its endpoint was
deleted) and that no two claims in hand are of one delivery, of deliveries whose lease
never ran out under a pass that held them: a delivery joins `overrun` in the step in
which that happens, and batches may take as long as they like. What the passes do
with a delivery of `overrun` is finding 4.

**TerminalReader.** Executions settle an attempt from a copy of the reader's row
that may be of an earlier attempt. `Numbered` says the number of an attempt is
never given twice and names one payment, so the compare-and-swap on it is one on
the attempt; `Open`, that an attempt in progress stands at one reader and its end
was told to nobody; `Truth`, that every success a row, a device, an execution or
an announcement speaks of is of a payment that was taken.

**Disputes.** A pass reads the status it will compare with before it writes, so two
passes may both read that there is no row; the second then overwrites what the
first inserted and, seeing no change from what it read, tells nothing. That
every status the row takes was told all the same (`StatusWasTold`) rests on
order: a pass takes places in order and, while there is no row, has skipped only
illegible events (`JobOK`), so a pass that read "no row" holds the first legible
event, and the row's maker, who held the same one, has told what it says or something
as good (`FirstTold`). `NewsOK` ties what is announced to what the network decided,
and an execution that holds an outcome holds the network's; an illegible close
gives it none.

**ReceiveAddresses.** An index that was handed out lies below its recipient's
cursor for good, each once (`Placed`); a wallet's own cursor lies below that and
everything at or below it is in what the wallet saw (`Watched`): the row and the
cursor are committed together, under the lock, and a roll-back spends no index.
Counts are bounded because the
request that counted still holds the lock (`LocksHold`, `ReadsHold`): nobody else
adds to that recipient's addresses in between. Locks are taken in the recipients'
order and all locks a request holds are below the next one it asks for, so
whoever waits, waits for a lock higher than all it holds: in a circle of waiting
requests the one that holds the highest lock would have to wait for a higher one.

**CheckoutSession.** Requests work from a copy of the session. `Tied` says that a
payment that took money is the one its session links, `Rows` what a row's status
allows of its link and what was told of it, `OrderJobs` what a request holds is
still worth when it writes: the old card payment of a link it is about to replace is
canceled at the acquirer, which is for good (`OrderOnward`). The bound of a promotion code is
about all sessions at once, so it has an invariant of its own: `Counted`
says that what was redeemed is the number of orders sold with the code, and that
what open orders hold fits beside it. Each action sells one, lets go of one, takes
one or leaves both sets alone, and one lemma per kind does the arithmetic.

**Wallet.** `SendsTyped` says that the inputs of a send in progress are reserved and
of no other send in progress. The rest of `PurseInv` types what the sends read: rows,
jobs, headers that link up and a scan that never asks beyond the tip. A replay
may credit a coin that is reserved, or spent, again; it is the reservation, not
the coin's row, that keeps two sends apart, until the send is recorded or fails.
What a finished send has spent may be chosen again (finding 19).

`CoinsAreTheChains` speaks of states at rest, so its invariant, `CoinsInv`, says of
everything under way what it still brings. `Scanned`: a block the scan has passed
or waits for was credited, or is on its way (`Comes`), in the peer's answer, then as
the transaction behind it, then as a job, or was lost there (`missed`). `ComesThrough`
follows it. The scan may be windows ahead of the answers (`PersistWindow` asks
nothing); at rest nothing is on its way, so what was not lost was credited. A scan
that is sent back asks for what it resumes at or below (`AsksBehind`), so nothing
leaves `Scanned` that way. A credit is not lost again (`CreditStays`): a copy whose block is unknown
is refused while the coin in memory is confirmed, and memory follows the row of every
coin no send has promised (`RowsFollow`), after a restart too; a copy of a known block
names the same one, since a transaction is mined once (`MinedOnce`) and a block
is taken to be of a transaction only if it holds it (`BlocksFit`). `InPlace` is the
other half: a confirmed coin stands in the block its row names. Both halves are kept
while the linked headers are the chain's (`OnChain`). A replaced block was linked at
a lower fork, so once the chain drops a linked block it never has it back
(`OnChainBack`): the wallet stays behind, which is finding 21, and is not at rest.
TLC checked the invariant first, on three instances with one or two payments, one of
them late, with or without a send, a loose copy, a replaced block, and a crash or lost peer.

**FairSettlement.** A poll writes what it concluded from a copy of the row and
from readings that may be old by then. `PollIsTrue` says what its copy and its
conclusion are worth when it writes, `DoubtIsFounded` what a task remembers of
bad readings, `RowIsTrue` what the row says. They survive the other polls
because nothing a poll relies on is taken back (`Onward`): a depth that was
reached is lost only to a reorganisation, a row that names the payer's own
transaction names it for good, stamps stay. `RailImplementsLifecycle` is the
refinement of `PaymentLifecycle` under `FinalStatus`, for any tasks and polls, however
they overlap. `Undecided` says that whatever is in flight started from an open row or
a settled one still watched, and does not call lost a payment it saw paid. Once a row is
settled for good no poll at work holds a copy read as succeeded, and none starts from
it, because it is too deep; a poll that holds an older copy finds the status moved
(`Moot`) and writes nothing. So every compare-and-swap is an edge of the table or a
stutter, and what is settled for good stays so (`KeepsFinal`). That a poll which read
the success earlier may still undo it is in the mapping, not assumed away: until it
ends the payment reads as `processing`.

**InvoiceCollection.** Nothing follows from who works on an invoice, because
leases run out and attempts overlap: what holds is its link. `LinkHolds` says
that a payment somebody may still complete is the one its invoice links,
`AttemptIsTrue` that an attempt charges only a payment that was linked and
links only over nothing or over a payment called off at the acquirer,
`PaymentIsTrue` that a payment nobody was shown is not charged. Being shown,
called off or taken is for good (`Onward`), so a stale copy of the link is
either the link or a payment that is dead. `Like` and `HookMoves` say what the
transactions do to links and to paid rows, `PaidMoves` and its neighbours one
lemma each. `PaidRestores` needs nothing of payments: every transaction that
pays the latest invoice brings the subscription back in the same transaction
(`ActivateOnPayment`), and those that make it wait find that invoice unpaid
(`Restored`).

**Only model-checked.** Every liveness property, and what rests on fairness, which
is out of the prover's reach. Every safety invariant and every action property a
passing run checks is stated by a theorem.

## 6. What the code does not keep

`PROJECT.json` quotes the line each one contradicts. Five have a run whose
counterexample is the trace; the others name the property and the constants that
show it, or the steps that lead there.

*Payments by card*

1. **Paid after cancel** (`cardCancellation.ts:97`, run `paid_after_cancel`). A
   row that is not linked yet has nothing to call off, so a cancel or expiry
   closes it while the acquirer's payment exists and can be paid.
2. **Partial capture recorded in full** (`db/payments/paymentIntentRepository.ts:1054`,
   the default of `amount_received`). The drain may record a partial capture
   first, and it names no amount. `CardIntent` with `CaptureAmounts = {"part", "full"}`:
   `received` becomes full while `taken` is a part.
3. **Stranded hold** (`services/intentState.ts:138`). A late `processing` event
   is legal from `requires_capture`, is applied without asking the acquirer, and
   leaves a held payment that can be neither captured nor canceled.

*Webhooks*

4. **Slow batch** (`db/webhooks/webhookOutboxRepository.ts:218`). One lease
   covers a batch attempted in sequence and the writes do not name the claim: a
   delivered row may be overwritten by a pass whose lease ran out.
   `WebhookOutbox!DeliveredIsTerminal`, with the constants of the `Outbox` of
   `services`. `EndedStaysEnded` and `OneClaimant` leave out the deliveries this
   happened to (`overrun`).

*Refunds*

5. **Own refund imported** (`providers/eventProcessor.ts:597`). An event of a
   refund this gateway made, drained before the row is linked, becomes a second
   row with origin `provider`; the merchant's row can then never be linked.
6. **Over-committed balance** (`services/refunds/refundService.ts:162`). The check
   and the insert are two statements; two references may reserve one balance.
   The acquirer's own check is what stops the second refund. Two references, two
   workers.
7. **Refusal over a sent refund** (`db/refunds/refundRepository.ts:310`). A
   permanent refusal of a resumed request writes `failed` over a refund the first
   attempt sent.

An event that finds no row, and meets the unique index when it imports because
the request linked the row meanwhile, is marked processed as a redelivery
(`eventProcessor.ts:811`), so the status it carried reaches no row.

*Transfers*

8. **A settlement that was made, marked failed** (`db/transfers/transferRepository.ts:144`).
   A permanent error of any call is recorded as a refusal
   of the whole settlement or reversal: of a repeated key whose parameters changed, of a
   call refused for a reason of its own, of the one that reads a reversal's total. The
   amount of such a settlement goes to the next reference (`source_transaction` is the
   limit left); `WithinPayment` and `ReversalIsTrue` leave these out (`misread`).
   `Transfers!FailedMovedNothing` with one worker, one reference of two `Sellers`, a fault.
9. **Resumed to another seller** (`routes/transfers.ts:117`). A repeated reference
   is not compared by seller. `Transfers!PaidAsRecorded` with two `Sellers` for it, one
   worker and a fault, or two workers and none.
10. **Reversal never retried** (`services/transfers/transferService.ts:409`). A
    reversal whose call failed stays pending: its retry is answered with the row.

*Checkout and billing*

11. **A dead choice of method** (`services/checkout/sessionService.ts:1602`, run
    `card_choice_dead`). The key of a card payment is the session and the amount,
    so a payer who goes from card to FairCoin and back gets the canceled one.
12. **Choosing ends the order** (`services/checkout/sessionService.ts:1663`). The
    old payment is canceled after the new one is linked, but a second confirm may
    have linked the old one again. `CheckoutSession!ChoosingEndsNothing`, one
    session, two workers.
13. **First payment not retired** (`services/billingEngine/subscriptions.ts:865`, run
    `first_payment_retired`). Neither `expireIncomplete` nor the step that ends the 23
    hours (1686) touches the payment the first invoice links.
14. **Declines counted twice** (`providers/eventProcessor.ts:391`, run
    `declines_counted_twice`). The answer and the event of one decline both reach
    the schedule.
15. **Charged before it is due** (`services/billingEngine/scheduler.ts:18`). A task
    whose lease ran out does not look at the instant again.
    `InvoiceCollection!ChargesOnlyWhenDue` with two workers.

*Around a payment*

16. **A decided dispute reopened** (`db/disputes/disputeRepository.ts:142`). An old
    event overwrites the outcome. `Disputes!OutcomeStays` with two drains, no
    request, `Reordered = FALSE`, three announcements, one abort.
17. **Failed and still collecting** (`services/terminal/terminal.ts:383`). A reading made
    before the provider started the collection settles the attempt it finds in the row
    afterwards; so does a claim that is older than a minute.
    `TerminalReader!FailedIsOver` with one reader, one payment, two workers, two
    attempts, no fault.
18. **A lower depth over a higher one** (`services/settlementWatcher.ts:329`).
    `FairSettlement!OnlyEverDeeper` with `Overlap = 2`, `Threshold = 1`, `Depth = 3`.

*The light wallet*

19. **A spent coin chosen again** (`packages/frontend/src/wallet/wallet-store.ts:2253`,
    run `coin_chosen_again`). A replayed transaction replaces its coin's row as
    unspent although a send has spent it, because that send took the coin out of
    memory. The network refuses the second send. For the same reason
    `CoinsAreTheChains` says nothing of coins a send has spent.
20. **A late coin not found** (`packages/frontend/src/wallet/wallet-store.ts:2478`). The
    peer tick may run the scan that was sent back for a coin before the filter has
    its address. `Rescanned`, `CheckSocialReceiveDue`, then `StartRescan` to
    `PersistWindow`, then `RefreshFilter`: at rest the coin has no row.
21. **A lost branch kept** (`packages/frontend/src/p2p/spv-client.ts:829`). Headers are
    linked one at a time and one header is never a longer branch, so a wallet whose
    last block was replaced ignores all that follow. `Rescanned` after `Reorganise`.
22. **A window passed unanswered** (`packages/frontend/src/p2p/rescan.ts:132`). The scan goes on eight seconds after it asked, whatever has
    come. Answers still to come when the peer is lost, or unread or not yet applied when
    the app dies, are of blocks no later scan asks for: their coins are never shown.
    `CoinsAreTheChains` leaves these coins out (`missed`). `Wallet!ScanFindsAll` with one
    payment, nothing late, no send, two blocks, one crash or lost peer.

## 7. Not modelled

Within the modelled parts:

* **Card payments, refunds.** Metadata and reads, the ledger entries and reviews a
  refund causes, destination-charge reversals, events of other objects. Two
  creates under one `Idempotency-Key` that race in `createIntent` (the model has
  one row per key) and an acquirer that forgets an idempotency key.
  An unlinked payment is the only one `CancelAtProvider` has nothing to call off of; the
  code gives the same answer for a linked one when the acquirer, or its key of the
  payment's mode, is not configured (`cardCancellation.ts:98-99`), and so does
  `CheckoutSession!CancelOldAtProvider` (`sessionService.ts:1710`).
* **Outbox.** Filters, secret rolls, endpoints created after the event, retention.
* **FairSettlement.** Several outputs of one payment, the rate limits of the
  explorer and the age past which a settled payment is no longer watched, a
  substitute that is only flagged, a network that is closed. The reads of tip, use,
  list and candidates of one judgement (`settlementWatcher.ts:386-468`) are one reading,
  in `JudgeUnseen` and in `ChainShowsUnpaid`. `RecheckSettled` watches every settled
  payment: no seven days, no batch of 200 rows, no clean-up of suspicions (230-247).
* **ReceiveAddresses.** A used address stays used: the code counts payments of the
  last day that did not succeed (`db/payments/faircoinAddressPool.ts:67`), so a
  reorganisation that rewinds one counts it again.
* **Wallet.** Keys, signing, coin selection by value, sends without change, several
  transactions of ours in one block or several blocks in one window, stranded coins,
  Pockets, a lock deferred by a send, the manual rescan, and the rewind the legacy
  `headers` message can cause (FairCoin peers do not send it).
* **CheckoutSession.** Orders priced in FAIR, setup and subscription mode, free
  orders, manual capture, payment links and their counts, customers, tax, emails.
  `MaxQuotes` and `MaxWrites` bound how often a payer asks again: the code looks at the
  deadline only while the order is not linked (1309-1313) and gives each new quote 60
  seconds at least (1526), so `DueOrderEnds` is of payers who stop asking.
* **InvoiceCollection.** Amounts, proration, items, tax, credit notes, quotes,
  trials, pauses, test clocks, invoices paid by FairCoin or sent to the customer,
  the `blocked` outcome of radar, `replaceInvoicePayment`, `error_if_incomplete`.
  `DunningEnds` lets a behaviour end at the bound on charges (`BoundReached`).
* **Disputes.** Deadlines, metadata, evidence files, a dispute of an unknown payment.
  Whether an upsert inserted is read off what the database did; the code compares the
  milliseconds of `created_at` and `updated_at` (`disputeRepository.ts:172`).
* **TerminalReader.** Registering and removing readers, locations, connection tokens.
* **Transfers.** Currencies, the readiness of the seller's account, the resolution
  of the charge, partial captures (the budget is `amount`, not `amount_received`).

Whole components: radar (its rule language is a parser), ledger and payouts, the
email outbox, reports, setup intents, accounts, catalog, tax, search, realtime,
file references, identity verification, the checkout page, the SDK and the CLI.
The generated SDK resources and the translation tables, the longest files of the
repository, hold no state.

## 8. Plan

1. `ProviderEventDrain`: a batch of fixed size, oldest first, with events nobody
   can match staying in it (`db/providers/providerEventRepository.ts:155-168`).
   Question: can a full batch of unmatched events starve the rest? This is the
   limit of the strong fairness in section 4.
2. `IntentCreation`: `Idempotency` composed with `createIntent`'s own replay, one
   acquirer payment per key.
3. `RadarReview` (hold, approve, refund), beside `Refunds`.
4. `LeasedWorker`: the email outbox and the report runner as instances of one
   leased queue, `WebhookOutbox` shown to implement it.
