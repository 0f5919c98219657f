# Lite-Payment-Processor: TLA+ models and proofs

This directory specifies the payment processor and the reconciliation service in
TLA+, model-checks the specifications with TLC on small instances and proves the
results that matter most with TLAPS for instances of every size. Every definition
is a translation of the Rust source (or of the SQL migration it runs against);
`PROJECT.json` names the lines each one stands for.

    tlc -workers 2 -config payments.cfg MCPaymentTransactions     # one run
    tlapm PaymentTransactionsProofs.tla                           # one module of proofs

## 1. The system

Two HTTP services on tokio (the payment processor with actix-web, the reconciliation service with
axum), one PostgreSQL database each, and one Redis.

    client --HTTP--> payment-processor --SQL--> payments DB
                        |   ^                      outbox_events
                        |   +-- outbox relay <--SQL----'
                        |           |
                        +--Redis----+--PUBLISH--> (reconciliation-service) --SQL--> reconciliation DB
                        +--WebSocket--> dashboard

Handlers are async functions: at each `.await` another handler, or the relay, may
run, and the handler itself may be cut off (an error returned with `?`, the client
gone, the process killed). Almost every operation is a *sequence of single SQL
statements*, each committed on its own. A database transaction is used in only
four places: creating a transaction with its outbox row, transferring money,
setting the default payment method, and swapping the replayed tables. The hard
behaviour of the system is therefore what requests do to each other **between** two
statements, and what a half-finished sequence leaves behind.

### Inventory

| Component (source) | State it keeps | Operations that change it | What is hard | What makes it correct |
|---|---|---|---|---|
| **Transactions** (`main.rs`, `state_machine.rs`, `database.rs`, `redis_client.rs`) | `transactions`, `transaction_events`, a Redis key per `external_id` | create, commit, fail, cancel | duplicates race past the Redis check; the transition is decided on a row read earlier; the audit row is written after the commit, and best-effort | one transaction per `external_id`; outbox row iff transaction; truthful audit trail; terminal states final |
| **Outbox relay** (`outbox.rs`) | `outbox_events` | add_event, poll, mark PROCESSING, publish, mark COMPLETED / FAILED, reset at start | crash between publish and mark; lost replies; rows left behind | COMPLETED was sent; bounded retries; duplicates only after counted failures; nothing starves |
| **Users, accounts and transfer** (`user_management.rs`) | `users`; `accounts`, row locks | create_user, verify_user; create_account, transfer_money | the email is looked up before the INSERT, and an error of the look-up is taken for "not found"; lock order, deadlock, BIGINT range, self-transfer | one user per email; no overdraft; money conserved; every transfer answered |
| **Refunds** (`refunds.rs`) | `refunds`, `transactions.refunded_amount`, `.refund_count` | create_refund | read, check, write back a value; i64 wrap-around; half-done refunds | total refunded within the amount |
| **Payment intents** (`payment_intents.rs`) | `payment_intents` | create, confirm, 3-D Secure, cancel | status decided on a stale read, written unconditionally | a large payment does not succeed unauthenticated; final states final |
| **Payouts, connect** (`payouts.rs`, `connect.rs`) | `payouts`, `transfers`, `connect_accounts` | create / cancel payout, transfer, account flags | unconditional updates; three flags read, modified and written | cancelled payouts stay cancelled |
| **Invoices, disputes, subscriptions** (`invoicing.rs`, `disputes.rs`, `subscriptions.rs`) | their tables | create, finalize, pay; evidence, resolve; cancel | lost updates of sums and states | PAID means paid in full; a decided dispute stays decided |
| **Payment methods, customers** (`payment_methods.rs`, `customers.rs`) | `payment_methods`, `customers` | create, set default, delete; create, update, delete a customer | the default is cleared and set in two statements; an update writes back the fields it has read; a deletion cascades under requests at work | at most one default; updates that do not overlap are kept; the deleted stay deleted |
| **Rate limiter** (`rate_limiting.rs`) | `rate_limit_usage` | check | count read, compared and incremented separately | no more than the limit per window |
| **Webhooks** (`webhooks.rs`) | `webhook_endpoints`, `webhook_events` | register; deliver, fire and forget | a row is written before its POST and never again; a failing INSERT stops the endpoints after it | no POST without its row; an unsent row has a known cause |
| **WebSocket broadcast** (`websocket.rs`) | a bounded ring, a task and an actor per connection | connect, broadcast, forward, disconnect | a client that lags loses its forwarding task and keeps its connection | a feed has no gaps up to its end |
| **Event ledger** (reconciliation `database.rs`, `reconciliation.rs`) | `event_ledger`, `daily_summaries` | store_event, update_daily_summary | duplicates are stored once and counted twice | summary agrees with the ledger |
| **Event replay** (`event_replay.rs`) | `event_ledger`, `event_replays` | start, execute | the ledger is cleared before the events are read | a replay never loses events |
| **Safe event replay** (`safe_event_replay.rs`) | staging and backup schemas | start, backup, replay, validate, swap, roll back | no mutual exclusion; shared names | live tables are always complete |
| **Cards** (`card_validation.rs`, `visa_api.rs`) | none | validate, charge through the simulated Visa client | checks that read the number in different ways | single slips are detected |
| **Exchange rates** (`currency.rs`) | `exchange_rates` | set, get | look-up and write in two statements; midnight between two | a quote was right while it was asked for |
| **Tax** (`tax.rs`) | `tax_rates` | create, calculate | a percentage rounded by its column, a tax by `f64::round`; two directions | adding a tax and taking it out agree |
| **Advanced fraud** (`advanced_fraud.rs`) | tables of its own | nothing calls it | | |
| **Authentication, test mode, metrics** | tokens, settings, counters | | no other component depends on them | |

Interactions: creating a transaction writes the row the relay later publishes
(one SQL transaction); refunds read the state that commit, fail and cancel write,
and add two columns of their own to the same row; the relay publishes to Redis
channels whose reader in the reconciliation service returns without subscribing
(`reconciliation-service/src/redis_client.rs`), so the ledger is fed only by a
replay, which reads the `transaction_events` table.

The hazards, each at its line with the property that covers it, are listed under
`hazards` in `PROJECT.json`.

## 2. Plan

Written, in order of importance:

1. `PaymentLife` (abstract) and `PaymentTransactions` (detailed), with proofs and the refinement proved.
2. `EventDelivery` (abstract) and `OutboxRelay` (detailed), with the refinement checked and proved.
3. `MoneyTransfer`, with proofs, for which `Sums` collects lemmas on sums over finite sets.
4. `Refunds`, with proofs.
5. `PaymentIntents`, with proofs.
6. `Payouts`, `Invoices`, `Disputes`, `PaymentMethods`, `Customers`, `ConnectAccounts`, `Subscriptions` and
   `RateLimiter`, composed in `Billing`, with proofs of its eight properties.
7. `CardChecks`, `ExchangeRates`, `TaxRates`, `Users`, `Webhooks` and `DashboardFeed`, composed in `Support`, with proofs
   of its six properties.
8. `EventReplay`: both replays as far as the shipped schema lets them run.
9. `PaymentPipeline`: `PaymentTransactions` composed with `OutboxRelay`, an instance's handlers and relay stopping
   together, shown to be a refinement of either, so that it implements `EventDelivery` and `PaymentLife`, with proofs.

Left: a smaller promise of the outbox that several instances still keep (with more than one, a row may be sent by each, and
`EventDelivery` is for one); an abstract specification of an invoice, and of a payment intent where requests do not overlap.

## 3. Modules and how they correspond to the code

An action is one call to PostgreSQL or Redis together with the local code up to the
next `.await`. A handler's local variables are a record or functions indexed by
handler; `pc` says which await it is at. `Interrupt` is the handler cut off there:
what it has committed stays, an open database transaction is rolled back. In `PaymentTransactions` it takes a set of handlers,
since a process that is killed cuts off all of its own at once. Reading
handlers that change nothing, and requests refused before they have changed
anything, are not steps.

**PaymentLife** is what outsiders see of payments: each is created once for its key, clients are told (`Tell`) and the audit trail says
(`Report`) only what has happened to it, an outcome may still be replaced (`Decide`) until the payment is settled (`Settle`), and never after.

**PaymentTransactions** (`MCPaymentTransactions` for TLC) is the service. `state[t]`, `external_id[t]` are columns of
`transactions`; `outbox_events`, `transaction_events` and `idempotency_keys` are the rows and keys that
exist; `call[h]` is a handler. Create: `CheckIdempotency` (EXISTS) → `InsertTransaction` (BEGIN, INSERT; waits
for another transaction's uncommitted row with that `external_id`, fails with `RefuseDuplicate` on a committed
one) → `AddOutboxEvent` → `CommitCreate` → `SetIdempotencyLock` (SETEX, failure ignored) → `EmitCreated` (audit row,
failure ignored; answer). Transition: `ReadTransaction` (read and `CanTransitionTo`) → `UpdateTransactionState`
(`WHERE id` alone) → `RereadTransaction` → `EmitStateChange`. `ExpireKey` is Redis's TTL. History variables:
`acknowledged` (what clients were told) and `unaudited` (writes whose audit row was never inserted).
The refinement of `PaymentLife` (`Life`) reads a payment's phase off its row and the handlers: "pending" and "decided" are PENDING and a terminal state,
"settled" a terminal state that no handler which read PENDING has yet to overwrite; the trail is what the audit rows report.

**EventDelivery** is the abstract outbox: an event is submitted, claimed, sent at most once per claim, and is done
only if sent, dead only after `MaxRetries` counted failures. **OutboxRelay** is the code: `AddEvent`,
`Start` (with `reset_failed_events`), `GetPendingEvents` (the `Limit` oldest PENDING rows), `MarkAsProcessing`,
`PublishEvent`/`PublishFails`, `MarkAsCompleted`, `MarkAsFailed`, `MarkFails` (the UPDATE's error, which abandons the
batch) and `Crash`. A call may fail without effect or take effect and lose its reply. The refinement maps PENDING, and
FAILED with retries left, to "waiting", and FAILED with its retries spent to "dead".

Any number of processors may share the rows: `sent_by` (history) says which of them published how often.

**PaymentPipeline** (`MCPaymentPipeline` for TLC) is the service as deployed: each instance has request handlers and one
relay, and all share the database. It extends `OutboxRelay`, whose events are now the transactions, instantiates `PaymentTransactions` as `T`,
and defines the `outbox_events` of the one from the `status` of the other, so that they cannot disagree. Two kinds of step concern both.
`CommitCreate` makes the row that a handler has inserted visible to the relays (`AddEvent`); `StopInstance` stops an instance's relay (`Crash`) and cuts off
its handlers. Handlers run while their instance is up. `PipelineInit`, `PipelineNext` and `PipelineSpec` are the composition.

**MoneyTransfer**: `CreateAccount`, then per transfer `CheckSufficientFunds` (no lock) → `LockPayer` → `LockPayee` → `Debit` →
`Credit` → `Commit`, with `Refuse`, `DeadlockAbort` (PostgreSQL's detector) and `Interrupt` rolling back. `balance` holds
committed balances; the uncommitted ones follow from a handler's `pc` (`AfterDebit`, `AfterBoth`).

**Refunds** (`MCRefunds`): `ReadTransaction` (with validation) → `InsertRefund` → `UpdateTransaction` → `MarkSucceeded`, no
database transaction, i64 sums wrapping (`Wrap`) as in the release build the Dockerfile makes. `StateChanges` stands for
module PaymentTransactions: the refund reads a state that other requests go on changing.

**PaymentIntents** (`MCPaymentIntents`): `CreatePaymentIntent` (an INSERT, refused when the status is longer than the column:
`StatusWidth`, see section 6); confirm is `ReadToConfirm` → `UpdatePaymentMethod` (when one is named) → `UpdateStatus` (REQUIRES_ACTION
for a large amount, else PROCESSING) → `Succeed` after 100 ms; 3-D Secure is `ReadRequiresAction` → `UpdateStatus` → `Succeed`;
`CancelPaymentIntent` is one UPDATE. History
variables: `charged` (the method each request charged) and `overlapped` (intents two requests worked on at once).

**Billing** (`MCBilling`) composes eight services that share no state; a behaviour is of the one that `active` names, the others
are at rest, so that the state space is the sum of theirs and not the product.

* *Customers*: `CreateCustomer`; `GetCustomer` → `UpdateCustomer`, which writes back every field; `DeleteCustomer`, whose cascade is
  `DeleteCustomer`, or `DeleteCustomerOf` a row, in the modules of invoices, methods and subscriptions: rows vanish
  under requests that have read them, whose INSERTs are then refused and whose UPDATEs change nothing.
* *Invoices*: `CreateInvoice` → `CreateLineItem`\* → `EndCreate`; `FinalizeInvoice` (`WHERE id` alone); `ReadInvoice` → `MarkInvoicePaid`,
  which writes back `amount_paid`, `amount_remaining` and a status computed from the row read, wrapping like i64.
* *Payouts*: `CreatePayout` (PENDING) → `SendPayout` (IN_TRANSIT, `WHERE id` alone); `ReadPayout` (refused unless PENDING) → `CancelPayout`.
* *Disputes*: `CreateDispute`; `ReadDispute` → `InsertEvidence` → `UpdateDispute`, with a status computed from the one read;
  `UpdateDisputeStatus` is one UPDATE.
* *PaymentMethods*: a default is created by `CreateClear` and `CreateInsert`, two statements without a transaction, or set by
  `SetBegin` → `SetClear` → `SetAndCommit` in one. Row locks and the snapshot a statement reads are PostgreSQL's: `rows` is what an UPDATE
  saw when it began. `raced` (history) names the customers for whom a method was created during a change.
* *RateLimiter*: `ReadCount` (with the comparison) → `Increment`, whose reply may be lost; `Abandon` is a failing statement, on which
  the middleware lets the request in uncounted. The window is the UTC day.
* *ConnectAccounts*: `ReadAccount` → `UpdateAccountStatus` (three flags merged into those read, all written); `CheckDestination` →
  `InsertTransfer` → `MarkTransferPaid`.
* *Subscriptions*: `CreateSubscription` → `CreateItem`; cancel reads, then `CancelSubscription` writes CANCELED or, at the period's
  end, the status it had read.

**Support** (`MCSupport`) composes six more in the same way.

* *CardChecks*: `AskIfValid` and `ProcessVisaPayment` are the two routes, each a chain of checks in the code's order: validator (number,
  expiry, CVV, address, name), Visa prefix, fraud patterns, declined numbers. A number is a sequence of digits.
* *ExchangeRates*: `BeginSet` → `CheckRate` → `WriteRate` (UPDATE, or an INSERT that the unique key may refuse); `BeginGet` →
  `SelectToday` → `SelectLatest`; `Midnight`. A request keeps the date on which it began.
* *TaxRates*: `CreateTaxRate` (rounded to the column's two places, refused beyond its range); `CalculateTax` with the newest
  rate that applies. Amounts are cents, stored percentages hundredths, given ones thousandths; `f64::round` is the set of
  nearest integers, so that of an exact half either may come out.
* *Users*: `LookUpEmail` (an error counts as "not found") → `InsertUser` (UNIQUE email); `VerifyUser`.
* *Webhooks*: `CreateWebhook`; `ListWebhooks` → (`InsertEvent` → `Spawn`)\*, the newest endpoint first, by the handler that has an event
  to tell; `Post` is the spawned task; `Interrupt` cuts off the handler, `Crash` everything.
* *DashboardFeed*: `Connect`, `Broadcast` into the ring, `Recv` / `RecvLagged` → `Forward` / `ForwardFails` by a connection's task,
  `Disconnect`.

**EventReplay**: `StartFullReplay` → `ClearLedger` → `ClearSummaries` → `ClearAnomalies` → `GetEvents` (an error with the repository's schema) →
`MarkReplayFailed`; `StartSafeReplay` → `CreateBackup` (a syntax error) → `MarkReplayFailed`. `ClearFails` and `Crash` are the failures
that the finding does not need; `disturbed` (history) says that one has happened.

## 4. What the runs show

| Run | Bounds, and why they are enough | What it shows |
|---|---|---|
| `payments` | 3 handlers, 2 transactions, 1 `external_id`; handlers are slots serving any number of requests. Two handlers give every pairwise race; the third lets one that read early act after two others. Two transactions are what a second creation with the same key needs. | Duplicates create one transaction (`IdempotentCreate`); a live Redis key always stands for a transaction (`KeyGuardsTransaction`); the outbox row exists exactly when the transaction does; the audit trail is complete up to known cut-offs and never false; a settled terminal state stays (`SettledIsFinal`); and the service implements `PaymentLife` |
| `pipeline` | 1 instance (the deployment), 2 handlers, 1 transaction, 1 `external_id`, `MaxRetries` 2, `Limit` 1. Two handlers: one waits for the other's uncommitted key while the relay may publish what was committed | handlers and relay together keep the promise of `EventDelivery`; so that outcomes are final; retries are bounded, a second publication was preceded by a counted failure; every request is answered or cut off though the instance stops under it |
| `payments_terminal` (violation) | 2 handlers, 1 transaction | commit and cancel both read PENDING, both write: finding 1 |
| `outbox` | 2 processors, 2 rows, `Limit` 1 (so a batch leaves a row behind), `MaxRetries` 2 (a retry that counts and a last one) | scaled out, instances take the same rows; still, COMPLETED was sent, each instance's publications are counted, and a waiting row is taken while one instance is well |
| `outbox_stuck` (violation) | 1 processor, 3 rows, `Limit` 2, `MaxRetries` 2 | a failed row is retried only after a restart: finding 2 |
| `transfer` | 3 handlers, 2 accounts (both directions and to oneself), amount 1, opening balances {1, 2}, BIGINT scaled to -4..3: three debits can pass a stale check of balance 1, and a credit to 3 overflows | no overdraft, money conserved, the balance checked is the one debited, deadlocks are broken |
| `refunds` | 3 requests, 2 transactions of 2 and 3 units, i64 scaled to -8..7, asking 1, 2, 7 (7 makes the sum wrap) or the rest | the total shown never exceeds the amount and is never more than what was refunded; the count loses nothing; refunds that do not overlap add up |
| `refunds_exceed` (violation) | same, asking 1 or 2: no wrap-around is needed | overlapping refunds pay out more than the amount: finding 3 |
| `intents` | 3 requests, 2 methods, a small and a large intent; `StatusWidth` 23, the longest status written, without which no intent is created at all. Two overlapping requests and a third that comes after, or a confirmation with two 3-D Secure results | a large payment proceeds only after a positive 3-D Secure result; PROCESSING is never left without a request that is finishing it or was cut off; without overlap, one charge per confirmation and of the method named |
| `billing` | 3 handlers (two that overlap and one that comes later); 1 invoice and 3 payments of -1, 1 or 2 units, i64 scaled to -4..3; 2 payouts; 1 dispute; 1 customer with 2 methods; 1 customer with 2 fields, updated singly and together, and deleted; a limit of 2 over 2 days; 1 account, 1 transfer; 1 subscription. Rows of one table do not interact, except a customer's methods and the days of the limiter, of which there are two | what still holds although nothing is locked: PAID means paid; settled payouts, decided disputes and cancelled subscriptions stay so but for a request that had read them before; review has evidence; one default; the limit passed by at most the other handlers; flags and customers' fields kept without overlap |
| `support` | 1100 card numbers (11 prefixes, among them test and suspicious numbers, with every pair of last digits; too short, 13, 15, 16 and 19 digits), typed with and without separators, and cards that expire around now or lack something; 3 handlers, 2 rates, 3 days (the day of a request, the next, and one to come back after); 2 tax rates in 3 places, of 0, 8.875, 25 and 150 percent and one too large, on amounts of -2 to 6 and 9999 cents (exact halves, signs, rounding); 2 users and 2 emails; 2 endpoints, 2 events of 2 types; 2 dashboards, a ring of 2 and 4 messages, so that one may lag twice over | every single wrong digit, and every swap of neighbours but 09 and 90, is refused; a quote within a day was right at some moment of its request; the two ways of calculating a tax agree to the cent; an email has one user; no POST without a row, and an unsent row belongs to a handler or process that was cut off; a dashboard's feed has no gap, and goes silent only by lagging |
| `replay` (violation) | 2 replays, 2 events: one of each would do | a replay empties the ledger and cannot fill it: finding 4 |

`CHECK_DEADLOCK FALSE` appears only where bounded inputs are used up: refunds, payments of an invoice, the last day, events to deliver, messages to broadcast, replays to start. Symmetry is declared for
safety runs only. Each property of a passing run has a mutant: a plausible bug in a definition, under which TLC finds
the property violated.

### Fairness

* Handlers (`PaymentTransactions`, `MoneyTransfer`): tokio polls a handler again after every await and every call returns, so
  `Proceed(h)` is weakly fair. A statement that waits for a lock or for another transaction's unique key is strongly fair:
  PostgreSQL queues waiters, so one is not overtaken for ever. Its deadlock detector runs in every cycle. No request need
  arrive and none need be interrupted.
* `PaymentPipeline`: the handlers as above, while their instance is up, and nothing of the relays; no instance need stop or
  start again.
* Billing, support, intents and replay state safety alone: their specifications have no fairness.
* Relay: of the instances at least one is healthy, whichever it is: it is restarted when it is down, and a call that it repeats
  for ever does not fail for ever (strong fairness of each successful call). This is what `outbox_stuck` needs too: even then nothing retries a FAILED row.

## 5. What is proved

All proofs are for arbitrary constants, under the assumptions the modules declare. Every invariant, action
property and refinement that a passing run checks is the statement of a theorem; what is left to TLC alone is at the end of this section.

**Sums** has no theorem of its own but the lemmas on `SumFunctionOnSet` that other proofs use: a sum is taken apart at any element (`SumApart`),
changes with the function at one point by as much (`SumOfChange`), and is an integer. The library defines the fold by a `CHOOSE` of a recursive function; `FoldExists` shows
that there is one for a finite set, and `SumEquation` what it satisfies. Induction is by the least counterexample: `SubsetInduction` takes the set of sets
for which a claim holds as a set, which the provers can instantiate, and not as an operator.

**PaymentTransactionsProofs.** The inductive invariant `IInv` strengthens the properties by three facts:
`LocalsSet` (a handler at a given pc has its variables set, e.g. a creator past the check has an `external_id`),
`InsertsExclusive` (no two open transactions have inserted the same key or the same id, and none a key already committed:
the UNIQUE index) and `RowsPresent` (a handler past its commit, or past its read, has its row in the table). Without the
second, idempotency is not inductive: nothing would say that two committers cannot both be about to commit one key.
From it: `Typing`, `CreateIsIdempotent`, `KeysGuardTransactions`, `OutboxIsTransactional`, `AuditIsTruthful`, `AuditIsComplete` and the action
property `SettledStaysSettled`. `ServiceImplementsPayments` is the refinement: a payment's phase changes with its row and with the handlers that
have read it PENDING (`Readers`), which matter only once there is an outcome (`PhaseKept`). Most steps keep both; the last reader to write
or to be cut off settles the payment, and one crash may settle several.

**PaymentPipelineProofs**, first about `OutboxRelay`: `CompletedMeansSent` and `SendsCounted` hold for any number of processors. With one (assumption
`OneProcessor`, which is the deployment): `RetriesAreBounded`, `DuplicatesCounted`, `OutcomesAreFinal` and the refinement `RelayImplementsDelivery`. The
invariant relates the row a processor holds to its `pc`: a marked row is PROCESSING and has been sent no more often than it failed.

Then about the processor as a whole. `StepIsRelayStep`: a step of the pipeline is a step of the relay or leaves it alone, because what a handler
commits is a transaction it has inserted under an id of its own (`InsertsNamed`). `StepIsServiceStep`: it is a step of the service or leaves it alone,
because relays neither make rows nor lose them (`SendsInv`: a row in a batch exists). So every behaviour of the pipeline is one of the relay
(`PipelineIsRelay`) and one of the service (`PipelineIsService`), and has what was proved of either. For any number of instances:
`PipelineSendings`, `PipelineCreates`, `PipelineOutbox`, `PipelineAudits`, `PipelineSettles` and `PipelineImplementsPayments`; for one, with any number of handlers,
transactions and retries: `PipelineRetries`, `PipelineDuplicates`, `PipelineOutcomes` and `PipelineImplementsDelivery`. `S` names the module of proofs about the service, instantiated;
`SameInit` and `SameNext` say that its service is the pipeline's.

**MoneyTransferProofs.** `Typing`, `CheckedStaysCurrent` (whoever has locked a row is its `holder`, so nobody else commits to it) and
`NeverOverdrawn`, under the hypothesis that amounts are natural numbers (the code does not check this, section 6). `TransfersConserveMoney`, for finitely
many accounts: a commit changes the balances at two accounts by opposite amounts, and an account without a row has never been written (`UnopenedIsUntouched`).

**RefundsProofs.** `TotalShownIsBounded` for any amounts asked and any width of integer, and, for finitely many requests, `CountLosesNothing` (cardinalities),
`TotalShownIsBacked` and `SerialRefundsSumUp` (sums). `Backed` adds that what a request has read is not more than the refunds made
(`SeenIsBacked`), which is why writing back an old total loses refunds but never invents them, and that amounts in progress are positive; `InTurn` says that with one request at a time what
it has read is current.

**PaymentIntentsProofs.** `Typing`; `LargePaymentsAreAuthenticated`, from the invariant that only an authenticated 3-D Secure request is past its
read of a large intent with a status to process; `ProcessingIsNeverOrphaned`; and `SerialRequestsChargeOnce` for finitely many requests, whose
invariant pairs the charges of an intent that never had two requests at once with its confirmations (cardinalities).

**BillingProofs** proves the eight properties of the composition, each from an inductive invariant of its service; `PartsStep` shows that a step of
`Billing` is a step of each service or leaves it alone. `SettledPayoutsStay` (`PayoutInv`: a canceller has read PENDING), `ReviewsHaveEvidence` and
`DecisionsStand` (`DisputeInv`: whoever is past the INSERT has its evidence in the table), `LimitIsNearlyKept` (`RateInv`: the count and the handlers
that have yet to increment it are together at most `Limit` + |`Handlers`| - 1, which is why the bound is not `Limit`), `CancellationsStand`,
`OneDefaultAtMost` (`MethodInv`: `LocksHeld`, the rows a transaction has cleared are still there and its customer's, and `AllAlone`: with a customer whom
no creation has raced, a change saw all the methods there are, a creation is the only change, and past its UPDATE no default is left),
`UpdatesAreKept` (`CustomerInv`, `ConnectInv`: what a lone update has read is what was last asked) and, for finitely many payments,
`PaidInvoicesArePaid` (`Covered`: neither what an invoice shows nor what a payment has read of it is more than the payments recorded, and where either says PAID it is enough).
`BillingAssumption` says that there are finitely many handlers, a limit and a day, that amounts are i64s, and that the absence of a row is no row.

**SupportProofs** proves the six properties, composed in the same way: `EmailsAreUnique`; `FeedsHaveNoGaps` (`FeedInv`: how far a task has come is what
its client has received); `RowsAccountForPosts`; `TaxesAreReversible`, integer arithmetic for every amount and percentage;
`QuotesStayCurrent`; and `LuhnCatchesSlips`, for numbers of every length. There the sum over a number's digits is one of figures, each
less than ten: a digit doubled and folded is told from every other digit (`DigitsTellApart`), so a wrong one changes the sum by less than ten and not by nothing (`OneFigureCounts`), and two
neighbours swapped change two figures, by less than ten together and, unless they are 0 and 9, not by nothing (`TwoFiguresCount`, `SwapsTell`).
The greatest element that `Max` chooses exists because the natural numbers are well-founded. `SupportAssumption` says that the
rows named by numbers are finitely many, percentages natural, amounts integers, and card numbers sequences of digits.

Only model-checked: the liveness properties (`RequestsFinish`, `PendingIsTaken`, `TransfersFinish`), which need fairness and ENABLED. The type invariants of the
transactions and of the intents are proved (`Typing`), that of accounts checked and proved.

## 6. Findings, and facts of the code worth knowing

1. *Terminal states are overwritten* (`payments_terminal`): `update_transaction_state` updates by id alone, so overlapping commit, fail and cancel
   requests all succeed. What still holds is `SettledIsFinal`.
2. *No retry while the process runs* (`outbox_stuck`): `reset_failed_events` is called once, at start, and rows left PROCESSING are never reset.
3. *Over-refund* (`refunds_exceed`): the refunded total is read, checked and written back without a lock.
4. *A replay loses the ledger* (`replay`): three tables are emptied, each in its own commit, before the events are selected, and the SELECT names a
   column that no migration creates.

Also, met while modelling and not the subject of a run:

* A negative `amount` in `POST /transfer` is not refused; it moves money from payee to payer. `NoOverdraft` is stated for non-negative amounts.
* `accounts.currency` is not compared in a transfer; the models leave currency out.
* `payment_intents.status` is VARCHAR(20) in migration 003, while the two statuses an intent is created with have 21 and 23 characters: with the
  schema as shipped every creation is refused. `PaymentIntents` takes the width as a constant.
* Payment intents: confirm has no guard on the status, two 3-D Secure results that overlap both process the payment, a payment can succeed with
  no method, and a cancellation overwrites SUCCEEDED.
* `finalize_invoice` reopens a PAID invoice; negative payments are accepted; any payment sets `paid_at`.
* `cancel_payout` answers "Only pending payouts can be canceled" but may cancel one that was sent after it was read.
* `delete_customer`, whose comment speaks of a soft delete, is a DELETE that cascades.
* Setting a default that is not one of the customer's methods clears every default. A method created as default during a change can leave two.
* The rate limiter lets a request in when the database fails; its window is the UTC day although `reset_at` says a minute from now.
* The rows of `webhook_events` stay PENDING: the result of a POST is discarded, and an INSERT that fails stops the delivery to the remaining endpoints.
* The fraud patterns and the Visa prefix are compared with the number as typed, the validator strips separators. `validate_card`'s log line slices
  `pan.len()-4` and panics on a shorter number.
* Several `create_*` functions, and the loop of `deliver_event`, use a value after it has been moved, which does not compile; the models
  read them as if the value were cloned.
* Nothing feeds the event ledger: the subscription returns at once, `process_event` has no caller, and what `store_report`, `store_anomaly` and
  `update_daily_summary` write does not match the schema. `docker-compose.yml` applies migration 002 to the payment processor's database.
* A safe replay always fails at its first statement: the backup table's unquoted name contains hyphens.
* A client that lags behind the ring loses its forwarding task: its connection stays open and silent. Of the messages that
  `docs/API_REFERENCE.md` documents and the dashboard handles only `transaction_created` is ever sent: `broadcast_transaction_updated` and
  `broadcast_metrics` have no caller.
* Updating a customer who was deleted meanwhile is answered with success, and so is verifying a user who does not exist.
* `create_tax_rate` answers with the percentage it was given while the column stores two places (8.875 becomes 8.88). Without a jurisdiction the
  newest rate of any jurisdiction of the country applies; an unknown jurisdiction has no tax. An inclusive rate of -100 percent divides by zero;
  the models take percentages that are not negative.
* `docs/DEPLOYMENT.md` scales the service to three instances. `mark_as_processing` does not look whether it was first, so the same row may be published
  by each: the theorems about duplicates and the refinement are for one instance, what remains with several is `outbox`.
* Migration 003, which creates the tables of refunds and billing, is not mounted by `docker-compose.yml`; the models assume it has been applied.

## 7. Not modelled

Formatting, logging, metrics, HTTP routing and serialisation; the wording of errors; time (timestamps are kept only where an order depends on
them, as `created_at` does in the relay). Components not modelled are listed with the reason in `PROJECT.json`: authentication, test mode and metrics (nothing depends
on them), the event ledger (none of its statements changes a row), the unreachable rest of the replays, and the dashboard's page. Of modelled
components, what nothing calls: `update_account_balance`, `process_recurring_billing`, `block_card`, `advanced_fraud.rs` and the two broadcasts named
above. Of the tax, amounts beyond 2^53 cents, where f64 is no longer exact.
