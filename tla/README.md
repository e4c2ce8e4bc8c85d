# Verification of the game-key shop

TLA+ models of the shop in `src/`, checked with TLC, and proofs about them checked
with TLAPS. The shop sells activation codes: a customer creates an order, a payment
provider sends notifications, a worker asks suppliers for one code per item, and
what cannot be delivered is paid back. All coordination goes through PostgreSQL
rows; there is no lock or queue outside the database.

## 1. The system

| part | state | operations | correct when |
|---|---|---|---|
| tables (`models.py`, `db.py`) | `orders`, `order_items`, `payment_events`, `issuances`, `ledger`, `order_events`, `jobs`, `supplier_budgets`, `sku_stock` | unique keys make repeats harmless | rows that say the same thing agree |
| orders (`services/orders.py`) | `orders`, `order_items` | `POST /orders` | an order finds the notifications that came before it |
| payments (`services/payments.py`) | `payment_events`, `orders.status` | webhook, orphan batch | one notification decides, whatever the order of arrival |
| delivery (`services/delivery.py`) | `order_items`, `issuances` | `deliver_order`, `deliver_item` | one code per item, closed items stay closed |
| settlement (`services/settlement.py`) | `order_items`, `ledger`, `orders.status` | `schedule_refunds`, `refund_item`, `finalize_order_in`, `settle_order` | nothing paid for is forgotten, nothing is returned twice |
| jobs (`services/jobs.py`) | `jobs` | `enqueue`, `claim`, `finish`, `reschedule`, `requeue_without_penalty` | no job is lost |
| worker and sweeper (`worker.py`) | handlers in memory | `_run_job`, `sweeper_loop`, `handle_sync_stock` | every paid order reaches an end |
| admin (`api/admin.py`) | - | redeliver, refund | safe at any moment |
| ledger (`ledger.py`) | `ledger_entries` | `post` | a paid order's balance is what nobody has answered for |
| history (`events.py`, `history.py`) | `order_events`, `ledger_entries` | `emit`, `order_as_of` | the past has one answer |
| reconciliation (`reconciliation.py`) | - | report | it finds what went wrong and nothing else |
| storefront (`worker.py`, `api/catalog.py`) | `sku_stock` | sync, count down, sweep | goods reach the shelf |
| rate limiter (`services/ratelimit.py`) | `supplier_budgets` | `take` | the supplier's limit is not exceeded |
| supplier client (`services/supplier_client.py`) | `supplier_attempts`, `supplier_discrepancies` | `acquire_code`, probes, fallback | one code is issued per item |
| supplier stub (`suppliers/`) | `supplier_keys`, `supplier_requests`, request log | issue, status, owner, stock, restock, `_stats` | idempotent by request id, no key given twice |
| catalogue search, scripts | - | search, seed data | - |

How they meet: a webhook changes the order and writes a delivery job in one
transaction; the worker claims the job and runs `deliver_order`, which for each open
item runs a transaction, a supplier call with no transaction, and a second
transaction; the reduction that follows writes refund jobs; the last handler to
close an item closes the order. The sweeper and the admin start the same handlers
at any other time.

What is hard: row locks are not held over the supplier call; the order's final
status is read and written without a lock on the order, by up to three kinds of
handlers; an enqueue is a no-op while a job with the same key runs; a handler may
raise or its process may die between two transactions; notifications come before
their order, twice and out of order; attempts are counted on the job and on the
item; `now()` is the start of a transaction, so journals are stamped with another moment
than the one their entries become visible at; requests with one id may reach a supplier
at once. `PROJECT.json` lists these hazards at their lines.

## 2. Modules

| module | models | extends |
|---|---|---|
| `Store` | the tables, `enqueue`, `ledger.post` | |
| `Payments` | `orders.py`, `payments.py` | `Store` |
| `Settlement` | `settlement.py`, local state of handlers | `Store` |
| `Delivery` | `delivery.py` | `Settlement` |
| `Shop` | worker, sweeper, admin; the whole, its properties and fairness | `Payments`, `Delivery` |
| `Promise` | what the shop promises: pay, hand over, pay back, finish | |
| `Books` | the amounts and sides of postings, and the report of `reconciliation.py`, over the tables of the shop | `Shop` |
| `History` | `events.py`, `history.py`: one order's two journals, transactions that take time, `order_as_of` | |
| `RateLimit` | the bucket's row, its transactions, the supplier's window | |
| `Supplier` | `supplier_client.py` and the stub's tables and answers: how one item gets its code | |
| `Purchase` | what the shop wants of its suppliers for an item: talk until a code is bought or refused, hand it over, give the item up at any moment | |
| `Pool` | the stub's transactions when requests come at the same time, restocking | |
| `Storefront` | `sku_stock` with the job, the sweeper and the deliveries that write it | `Pool` |
| `MCShop`, `MCBooks`, `MCRateLimit`, `MCSupplier`, `MCStorefront` | constants for TLC | |
| `ItemProofs`, `OrderProofs`, `QueueProofs` | proofs about `Shop`, each on top of the one before | |
| `BooksProofs` | proofs about `Books`, on top of `QueueProofs` | |
| `HistoryProofs` | proofs about `History` | |
| `RateProofs` | proofs about `RateLimit` | |
| `SupplierProofs` | proofs about `Supplier` and its refinement of `Purchase` | |
| `PoolProofs` | proofs about `Pool`, as part of `Storefront`, and about the shelf | |

**Atomicity.** An action is one transaction, or the part of a transaction between
two statements if another transaction may commit in between and the later statement
would see it (READ COMMITTED). So `finalize_order_in` is `CloseRead` and
`CloseWrite`, `_finalize_order` is `ReduceOrder` and `WriteOrder`, the webhook that
finds no order is `WebhookFindsNoOrder` and `WebhookKeepsOrphan`. Transactions that
lock the row they decide on (`FOR UPDATE`) are one action. Jobs a transaction
inserts before its last read are kept in `queued` until it commits.

**State.** Each variable of `Store` is a column or a table. `toldOrder` and
`toldItem` are what the events fold to, so history and rows can be compared. `pc`,
`todo`, `result` and `queued` are the local variables of handlers: one process for
each job key (the unique index over active jobs allows no two) and one admin's
request for each order.

**Left out of the shop.** Time: run-at, backoff, the age a stuck order must have, and
priorities; a due job may be claimed, and an order be swept, at any moment, so every
schedule the clock allows is among those checked. Amounts: a notification's amount
is right or wrong; the amounts of postings are in `Books`. The supplier conversation, which has its own module: in the shop
`acquire_code` may return any member of `Outcomes`, with any code. `sync_stock` jobs: delivery does not read what they
write (see `Storefront`, where the worker that runs one does not die: the job would stay `running` and no
later one be queued, as in `worker_dies`). `schedule_refunds` reads its rows in the step that reads the items. `Raise` is an exception in a job, which `_run_job` retries; one in the
admin's request leaves what it has committed and is never retried, as if its process had died, and is
`Crash` of that process: the properties checked without crashes (`basket`) say nothing of it. A webhook
process that dies before it commits is the same as a notification never received.
`max_attempts` of a job counts only in `retry_later`, which `_run_job` calls for the
outcome `failed` with the attempts already set to the maximum: such a job always
ends. Rescheduled jobs have no limit of their own; `settle_order` ends a delivery job
at `MaxAttempts`.

**The supplier conversation.** `Supplier` follows one item. `attempt` and `doubtful` are
the rows of `supplier_attempts` that `_settle_known` would select (a `failed` row tells
a later conversation nothing), `discrepancies` gives the generation of the next request
id, `answer` and `keyOf` are the stub's `supplier_requests` and `supplier_keys`. The
supplier's modes are the disjuncts of `Serve` and `TurnDown`: it answers, it issues and
the answer is lost, it issues and says "error", it gives a key that is not ours, it
refuses, hangs, is out of stock or does not sell. `Stop` loses the handler's locals at any
step. `ChangeItsMind` is `POST /_control` with other flags in the middle of an item's
conversations. `world` says which of these faults a behaviour may have. `Deliver` is
what `deliver_item` makes of a code. `Refund` is `refund_item`, at any moment the item is open: its job
comes from `schedule_refunds` (after a refusal, the attempts being spent), from `settle_order` (after any
outcome, `unknown` too, when the delivery job's attempts are spent) or of an earlier delivery, and runs
when a worker has time; the admin's request waits for nothing, and no lock is held during a
conversation. A conversation that had begun goes on and hands its code over; none begins on a
closed item (`Skipped`). Assumed: a request is
dealt with, or never will be, once the client has stopped waiting (the stub's latency is
below the read timeout). Requests that overlap all the same are the matter of `Pool`.
Pools are not restocked in `Supplier`; in `Pool` they are.

**The supplier's pool.** In `Pool` a request is `Receive` (the look-up by request id),
`Claim` (the `UPDATE ... SKIP LOCKED`), `Insert` (the flush, which waits for an insert of the
same primary key that is not committed) and `Commit`; `found` is what its open transaction
has written and nobody sees, `Locked` the rows under it. A conflict rolls back and goes to
`Poll`, which reads the winner's answer. A connection lost at the flush is caught by the same `except`
(`FlushFails`): that call polls as well, and answers 503 "conflict" when nobody else has recorded
anything. `pc` tells the two apart (`poll`, `cut off`), the code does not. The modes in which the supplier lies insert outside
`_claim_code` and have nobody to catch a conflict: `InsertLie` ends in a 500. `Abort` is a
connection lost at any other step, a 500 too. One SKU; a `foreign_code` lie is a matter of `Supplier`.

**The storefront.** `Storefront` adds the snapshot to a pool: `AskStock` and `Unreachable` are
the loop over suppliers in `handle_sync_stock`, `WriteShelf` its upsert, `Deliver` the
count-down at the end of `deliver_item`. `/stock` lists only SKUs with a free key, so nobody
ever writes a zero: a sold-out SKU keeps its last count until deliveries count it down
(`Snapshot`).

**History.** An entry's stamp is the start of its transaction (`since`), its place in the
journal the moment it commits. Really an id is given at the INSERT, a moment earlier; whoever
changed the row of the item or order holds its lock by then, so among such entries the order
is the same, and only an event written for no change can have its id earlier. Attempts have no
limit here. `order_as_of` reads events and postings by two SELECTs; `Slice` reads both at once.
A period report sums the postings between two moments: it is the difference of two slices.

**Books.** The report is the one with all grace periods over. The two legs of a posting are
`Legs`; that they sum to zero is checked by `post` itself. Discrepancies, and with them
`needs_attention`, are left out of `Healthy`.

## 3. Runs

Every run ends within its bounds with all states visited. Deadlock is not checked
in the shop: when no customer, provider or admin does anything, it has nothing to do.
`Supplier` rests explicitly (`Rest`) when the item is closed.

| run | instance | shows |
|---|---|---|
| `basket` | 1 order, 2 items with different prices, 2 attempts; answers ok (with either of 2 codes), out of stock, unavailable | rows, postings, amounts, history and codes agree; no code is bound twice; a final order is closed and a closed order final when work is done; due refunds are scheduled; final stays final; a refund keeps the item from being asked for again; the reconciliation is healthy exactly when every paid item was closed in one way; `Promise` is implemented |
| `payments` | 3 notifications for 1 order, one with a wrong amount, one failure; answers ok and unknown; handlers raise, so that a job can use up its attempts before its item does | one notification decides; nothing happens before payment and no payment is without its job; orphans apply in the provider's order |
| `progress` | 1 item, 2 attempts, all answers, a payment and a failure that may come early, crashes, fair | books and the item's history when handlers stop anywhere; a paid order finishes unless one of its jobs died while it ran; early notifications are decided once the order exists |
| `rate_limit` | 3 workers, a token each 2 ticks, burst 1, window 4, delay 2, 7 ticks | takes fit burst and refill in every period; the supplier has room for every request that has its token |
| `supplier` | 2 conversations about an item, 2 calls to a supplier, a refund at any moment; supplier a has two keys of the sku and one of another, b has one; four worlds of faults | one code is issued for the item; an accepted code is ours; an issued code is among what a new conversation asks about first; `Purchase` is implemented: a conversation ends in a refusal only while no code was bought; whoever refunds the item and whenever, only a conversation that had begun still buys, and only a bought code is delivered |
| `history` | 1 order, 2 items, payment, 2 runs of the delivery, one refund handler, 2 moments | events and postings tell one story at every moment; the present slice is what the rows are; a past slice never changes once what was open then has ended |
| `storefront` | 3 keys at 2 suppliers, one of them stocked at first; 3 requests, two of them with one id, fair | no key is lost or given twice; equal requests get one answer; the loser of a race has it to find; nobody waits for ever; goods reach the shelf |

Bounds. Two items are enough for the order's status to be all three final ones and
for handlers to close different items at once, and for suppliers to give both the same
code. Interesting limits are "one attempt left" and "none left", which 2
attempts give. Counters saturate: `attempts` at `MaxAttempts + 1` and `tries` at
`MaxAttempts`. The code tests only whether they reach `MaxAttempts`, and a
throttled call takes back only what its own capture added. In `rate_limit` the burst
is one token, so that the shortest period already matters; the three workers allow a
transaction to be overtaken by two others; symmetry exchanges workers, which no
property tells apart. In `supplier` two conversations are one that is cut short and
one that starts from the tables; generations grow only with
discrepancies and stay below `MaxGeneration` there (`TypeOK`); symmetry exchanges supplier a's two keys
of the sku, which only differ in name. In `history` two moments are a
past and a present; with two runs of the delivery a transaction of the first, one of the
second and a refund may overlap. In `storefront` two equal requests and a third that
competes for the same key give every conflict, with connections cut off before and at each of them; keys that appear at each supplier are
restocks before, during and after a sync. Prices in `basket` are 1 and 2, so that no two sets
of items cost the same.

Some runs show where the code does otherwise than its documentation says:

| run | what happens |
|---|---|
| `closed_one_way` | A refund (a job of an earlier delivery, or the admin's) commits during the supplier call. `_finalize_item` asks only `status <> 'delivered'`: the item is paid back and delivered. |
| `final_status` | A closer reads the items, a late delivery changes one and another closer writes the new status, then the first writes the old one. |
| `spent_budget` | The last attempt ends `unknown`: the item is neither awaited nor selected for a refund, the delivery job ends, and only the sweeper's new job asks again. |
| `worker_dies` | The job of a dead worker stays `running` for ever; the sweeper's enqueue for the order is a no-op. |
| `two_codes` | Supplier a issues the code and answers with an error, the status request fails; `_try_supplier` returns the error, and supplier b issues a second code. |

For this reason `Promise` does not say that an item is closed one way only, and
`PaidOrderFinishesOrJobDied`, which `progress` checks with crashes and all answers, makes
the exception its name says.

More divergences, which a passing property has to leave out:

- The order's history gets events of statuses its row never had: `_finalize_order` writes
  the event whether or not its guarded UPDATE matched (`delivery.py` 173-181; `src/README.md`
  707 says it is written only if the change was applied). And `delivering` is set by
  `deliver_order` without an event. `HistoryOfOrders` and `PresentIsExact` state what is left.
- `src/README.md` 600-602 says that after a restock an `out_of_stock` order is delivered by
  itself. When the pool really was empty the stub has recorded that answer (`AnswerForEver`),
  and the client asks with the same request id until its attempts are used up and the item is
  refunded; only an `out_of_stock_skus` flag, which is not recorded, or a discrepancy, which
  changes the id, lets it succeed. The demo script and the tests use the flag.
- Who is refunded while a conversation is under way, or after one that ended `unknown`, may have had a
  code bought for the item: `settle_order` and the admin do not ask (`settlement.py` 66-94, `admin.py`
  71-105). If the conversation gets to its end the code is handed over as well (`closed_one_way`); if it
  stops first, nobody asks again about a closed item, and the code is paid for and lost. So `Purchase`
  lets an item be given up whatever was bought, and asks only of a *refusal* that nothing was.
- A past slice is final only once every transaction open at that moment has ended
  (`PastIsFixed`); until then two requests about the same moment may be answered differently.
- A discrepancy recorded by a conversation that a refund overtook stays open on a closed
  item, so the report asks for attention although nothing is left to do.

**Fairness.** Weak fairness for everything the code does by itself: the worker polls
for ever (`worker_loop`: assumed is that no exception ends it in `jobs.claim`, which nothing
catches there, or that it is started again), a handler that runs gets on, an open transaction commits,
the sweeper ticks. Strong fairness only for "the supplier is asked and answers
something": the bucket refills, so a throttled job that comes back for ever gets
a token in the end, and an answer that is `unknown` for ever is ruled out in the same way. In
`storefront`: transactions of the supplier end, worker and sweeper run on, and a supplier
is not unreachable each time it is asked (strong fairness of `AskStock`); no request need
arrive and nobody need restock. No fairness for customers, the provider and the admin.

**What the supplier client copes with.** `Tolerable` is the weakest condition on the
faults we found under which one code is issued. Answers may be lost, codes may be wrong,
status and owner requests may fail and the handler may stop anywhere, as long as an
explicit error never hides a code; suppliers may change what they sell, as long as no
answer is lost or hidden either; or errors may hide codes, if every conversation comes
to its probe. Outside of it `NeverASecondCode` fails: (0) an answer is lost, and the
supplier then stops selling the SKU: the flags are looked at before the recorded answer
(289-295 of the stub), so the repeated request is refused, and the refusal is taken for
definite; (1) `two_codes`; (2) an error hides
a code and the handler stops, or is throttled, before the probe: the attempt is `failed`,
`_settle_known` does not select it, and the next conversation asks supplier a first;
(3) while settling, a code whose owner cannot be checked is passed over (`continue`,
507-510), unlike in `_try_supplier`, where this ends the conversation as `unknown`;
(4) a timeout hides a code, the last attempt ends in an error and the probe fails.
In (2) the stop may also come between `record_discrepancy` and the mark on the attempt
(417-429): the phantom error has then already moved the generation on.

**Rate limiter.** `now()` in PostgreSQL is the start of the transaction; a
transaction that waits for the row computes its refill for an earlier moment than
`updated_at` and sets it back. `Delay` bounds the time from there to the supplier's
clock, network included; without a bound no bucket can keep a window. The instance
has `Capacity + (Span - 1 + Delay) * Refill < (Limit + 1) * Token`, the discrete form
of the shop's settings (540 tokens a minute and burst 1 against 600). A change of the
settings while transactions are open is not modelled.

## 4. Proofs

Proved for all constants that satisfy the named assumptions (`StoreAssumption`: items
are numbered and belong to orders, no order is empty, at least one attempt;
`OutcomesAssumption`, `FaultsAssumption`; `PriceAssumption`: finitely many orders and items,
positive prices (`ck_order_items_amount_positive`, `models.py` 210); `RateAssumption`: positive rate, burst of at
least one token, finitely many workers; `SupplierAssumption`: every code is sold by one supplier, the two
answers that are no code are none, at least one call and one conversation; `HistoryAssumption`:
items are numbered from 1; `PoolAssumption`: keys and suppliers are numbered, every key belongs to a
supplier, there are finitely many, every call carries a request id). Faults are included: the
theorems hold with exceptions and crashes, and those about the supplier client in every world of faults.
Two theorems have a hypothesis more: `"crash" \notin Faults` where the last closer must not die, and
`Roomy`, the relation between the bucket's and the supplier's settings.

Every invariant and every action property that a run checks is proved, and so are both refinements.

| theorem | statement |
|---|---|
| `ShopTypeOK` | `Spec => []TypeOK` |
| `ShopBooksMatchItems`, `ShopNoCodeTwice` | item, code and postings agree; no code twice |
| `ShopNothingBeforePayment` | nothing is done for an unpaid order |
| `ShopFinalOrderIsClosed` | a final order has no open item |
| `ShopClosedItemStays`, `ShopFinalOrderStays` | what is closed or final stays so |
| `ShopKeepsPromise` | `Shop` implements `Promise` |
| `ShopPaymentMatchesEvents`, `ShopOrphansInProviderOrder` | at most one notification moves an order, and decides whether it is paid; early ones are applied in the provider's order |
| `ShopPaidIsQueued`, `ShopDueRefundIsScheduled` | no payment and no refund that is due is forgotten, whatever fails |
| `ShopHistoryOfItems`, `ShopHistoryOfOrders` | events fold to the rows |
| `ShopRefundSticks` | no delivery begins on a refunded item |
| `ShopClosedOrderIsFinal` | the last of several concurrent closers makes the order final; only for `"crash" \notin Faults` |
| `BooksDebtMatchesItems` | an order's balance is the price of its open items less that of the items closed twice |
| `BooksReportTellsTheTruth` | the report is healthy exactly when every paid item was closed in one way; only for `"crash" \notin Faults` |
| `HistoryTypeOK`, `HistorySliceAgrees` | events and postings tell one story at every moment |
| `HistoryPresentIsExact`, `HistoryPastIsFixed` | the present slice is the rows; a past one changes no more once what was open then has ended |
| `BucketTypeOK`, `BucketNeverOverspent` | the bucket in every period of time |
| `SupplierAlwaysHasRoom` | whoever has a token finds room at the supplier; for `Roomy` settings |
| `SupplierTypeOK`, `SupplierAcceptedIsOurs` | generations stay in bounds; an accepted code is ours |
| `SupplierOneCodePerItem`, `SupplierCodesCanBeFound` | under tolerable faults one code is issued, and the next conversation looks for it first |
| `SupplierKeepsPurchase` | `Supplier` implements `Purchase`: a refusal means that nothing was bought (under tolerable faults), no conversation begins on a closed item, one under way when the item is refunded may still buy and deliver, and only what was bought is delivered |
| `PoolKeysMatchAnswers`, `PoolRepliesAgree` | no key lost or given twice, equal requests answered the same, for any number of simultaneous calls |
| `PoolLoserFindsTheAnswer`, `PoolAnswerForEver` | the loser of a race has the winner's answer to find, so that only a call whose own flush was cut off can be told 503 "conflict"; a recorded answer stays |
| `StorefrontTypeOK` | the shelf's count is never negative and never above the number of keys |

The inductive invariant of the shop is `ShopInv`: types, a delivery works on items of
its own order (`OwnItems`), books and codes, payment (`PaidInv`), and
`ClosersSawAll`: a handler between `CloseRead` and `CloseWrite` still finds every item
closed. The last is what makes the stale read harmless for `FinalOrderIsClosed`: an
item that is closed is never reopened, so only *which* final status is written can be
out of date (see `final_status`), not that it is final.

The argument has two layers. `ItemSteps`, `OrderSteps`, `QueueSteps` and `CloseSteps`
go through the actions once and say what a step may do to items, orders, jobs and
closers (`ItemEffect`, `OrderEffect`, `QueueEffect`, `CloseEffect`). Everything else
follows from the effects without looking at an action again.

Three more invariants stand on `ShopInv`:

- `EventsDecide` (`OrderProofs`), for each order: the notifications applied to it are at most
  one, none before it left 'created', and what that one says is the payment.
  `EventEffect` is what a step may do to notifications: refuse them, keep them for
  later, or apply one and move its order in the same transaction. The batch of orphans is
  taken from its least `at` (`MoverExists`: the first one that moves the order).
- `HandlerInv` (`QueueProofs`): which job must be running while a handler is at which step
  (`ActiveRuns`, `RefundRuns`, `DeliveryRuns`), that refund jobs belong to paid orders, and
  with that `PaidIsQueued` and `DueRefundIsScheduled`: a delivery job ends only after
  the transaction that schedules the refunds. `HistoryInv` adds what a handler
  between two transactions has read and told (`AskedIsTold`).
- `CloserExists`: the items of a paid order are never all closed with nobody left to
  finish the order. Either somebody is about to read all items, or somebody has read
  them closed. A request of the admin that dies between closing the last item and
  `CloseRead` breaks it, therefore the hypothesis on crashes. Exceptions in jobs are allowed; one in
  the admin's request, which nobody retries, is a case of `Crash(Admin(o))` and excluded with it.

For the bucket, `SinceFits` relates the tokens taken since any moment `from` and the
tokens in the row to `updatedAt - from`, which may be negative. The refill is linear
in time, so it does not matter in which order transactions reach the row; the cap
only makes the bucket poorer.

For the pool, `PoolInv` says what the row locks and the primary key buy: open transactions
that claimed a key hold different available keys (`LocksOK`), at most one of them has an
uncommitted answer for a request, which has none yet (`InsertsOK`), and a loser's request
is answered (`LoserFindsTheAnswer`, which is inductive beside them). Steps of a call that leave the tables alone go through one lemma,
`MoveKeeps`; only the two commits and the restock need proofs of their own.

The supplier's window (`WindowInv`) combines the bucket with the time a request is on its
way. For every moment: the tokens of transactions begun since that moment, those in flight and
those whose requests have arrived so late that they must be among them, fit what the bucket
gives from that moment on. Put the moment `Delay` before the oldest entry the supplier still counts, and
`Roomy` leaves room for one more. With the shop's default settings (9 tokens a second, burst
1, 600 a minute) `Roomy` says that a request arrives within 6.5 seconds of the beginning of its
transaction.

For the supplier client, `TalkInv` holds in every world. `FewUsed` is what bounds the
generations: of all requests about the item at a supplier at most one a conversation was answered, and a discrepancy
is recorded only about an answered request, of one of three kinds. Under `Tolerable` faults
`FoundAt` says for each own code where its request is: at hand, still to be settled, or in the journal,
and that no refusal has been or can be drawn from it; which way it is safe depends on the world. That
at most one own code exists (`OneOwn`) follows because a supplier issues only when no own
code is left to be found elsewhere. With both, a step of `Purchase` can be read off each step
(`TalkByStep`, `OwnByStep`); refunds change nothing of this, since no step but `Begin` and `Deliver` looks
at the item, and an item once delivered is not talked about (`ItemOK`).

For the history, `StoryInv` says per item what can still follow its closing: nothing after
the delivery, at most a late delivery after the refund (`ShortEnd`); that the row is what was
told last (`RowIsTold`); and that a closing's event and posting carry one stamp (`Accounted`).
Ids and stamps need not be in the same order, so a slice takes a set of events
that is no prefix of the journal; with so short an end the greatest id in the set still
decides as the postings do. Transactions write by way of `Writers`: only an open
one, with its own stamp; this alone gives `HistoryPastIsFixed`.

For the amounts, the first half of `BooksProofs` proves what `MapThenSumSet` returns: that its recursion has a
solution on the subsets of a finite set, which is unique, and that therefore one element more adds its value
whatever order the fold takes them in (`SumLaws`), then sums over unions, of sums, over parts, and
of positive values. Induction is over a set of sets (`SetInduction`), because the
library's theorems take an operator. The second half is short: the books (`BooksMatchItems`), the payment
(`NothingBeforePayment`) and inclusion-exclusion (`OpenAndTwice`) give the balance, and with
`FinalOrderIsClosed` and `ClosedOrderIsFinal` the report.

Model-checked only: liveness and its fairness (`PaidOrderFinishesOrJobDied`,
`OrphansAreDecided`, `CallsEnd`, `GoodsReachTheShelf`), which are out of the prover's reach, and
that `Supplier` and `Storefront` never get stuck (ENABLED).

## 5. Not modelled, and what is left

Not modelled: search and catalogue pages, scripts, log format and request schemas: they
have no state the order flow depends on. The migration from the one-item schema in `db.py`:
one SQL script that runs before anything else. Of `reconciliation.py` the lists of stuck
orders, unresolved attempts and orphans, which restate the sweeper's conditions, and the
discrepancies. Minting codes for the load catalogue.

Left, in the order of worth:

1. `Supplier` composed with `Pool`: a worker that dies in mid-request and another that sends
   the same id while the first is dealt with.
2. `Supplier` with restocking, and `Delivery` with its outcome in place of the free answer.
