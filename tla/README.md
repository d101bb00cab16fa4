# A specification of DyPOS

DyPOS is a point of sale: an Express server over one SQLite file
(`src/server`), a Vue till that keeps selling while it is offline
(`src/POS`), an older client (`src/legacy`) and two Cloudflare proxies
(`src/worker*.js`). This directory holds TLA+ models of the parts where money,
stock and delivery depend on the order of events, the TLC runs that check
them on small instances, and TLAPS proofs of what holds for every instance.

    tlc -workers 2 -config InvoiceLedger_one.cfg MC_InvoiceLedger.tla
    tlapm InvoiceLedgerProofs.tla

`PROJECT.json` lists components, runs, the source lines behind every
definition, the known hazards and the theorems.

## 1. Inventory

| Component | State it keeps | Operations | Talks to | Hard behaviour | What makes it correct |
|---|---|---|---|---|---|
| Invoices (`server/routes/invoices.js`, `lib/stockPolicy.js`) | invoices, items, payments, ledger rows, number sequences, stock | sale, pay, void, full and partial return | customers, fiscal years, webhooks, idempotency | long sequences of legal calls, rounding, clamped totals | amounts agree, refunds are covered, stock and credit are accounted for, numbers have no gap but those of racing duplicates |
| Customer accounts (`routes/customers.js`) | credit used, wallet, points | wallet credit and debit, redeem, pay credit | written by invoices and billing too | totals kept in two places | credit and points are backed by live invoices |
| Fiscal years (`routes/fiscal.js`) | years with dates and status | open, close, reopen, provision on sale | gate sales, payments, voids, returns | a clock that moves between an invoice and its change | a closed year stays as reported |
| Webhook outbox (`lib/webhooks.js`, `routes/webhooks.js`) | outbox rows, subscriptions, dispatcher lease | emit, tick, dispatch, settle, retry, janitor | every handler emits; timer; subscribers over HTTP | overlapping batches, stale counts, leases, crashes, timeouts | outcomes are earned, one dispatching process, every row settles |
| Subscriptions (`lib/subscriptions.js`, `routes/subscriptions.js`) | plans, subscriptions, billings | update plan, subscribe, pause, resume, cancel, billing run | customer wallet | runs that race, stop half way, or use stale rows | every period is billed once |
| Idempotency (`lib/idempotency.js`) | in-flight map, memory copy, table | run once, replay | all writing routes | two copies with different expiry, a crash between commit and answer | a key runs its operation once, unless the server failed in between |
| Client sync (`POS/src/services/offline-store.js`, `sync-core.js`, `sync-manager.js`, `sync-protocol.js`) | queue rows pending/syncing/synced/failed, cursors | enqueue, push, pull, retry, reset | server sync routes, other tabs | two tabs, late answers, edits during a push, subscriber switches | the newest edit is not lost, every row is settled, nothing is sent under another subscriber |
| Server sync (`routes/sync.js`) | sync log, pulled rows | push, pull | client sync | repeated and partial batches | a pushed row is applied once |
| Stock documents (`routes/stock.js`) | levels, reserved quantities | adjust, reserve, release, transfer | sales | a release names no reservation | holds are not freed by others |
| Cashier shifts (`routes/shifts.js`) | shifts with expected cash | open, close, hand over | invoices of the shift | invoices change after the close | one open shift per terminal, expected cash explains the drawer |
| Method dispatcher (`routes/method.js`) | none of its own | the old client's API over the same tables | invoices, shifts, stock | a second path to the same rows | the same rules on both paths |
| Audit ledger and invoice chain (`lib/auditLedger.js`, `lib/chain.js`) | hash chains | append, verify | writing routes | appends from several processes | a change is found by verification |
| Resilience (`lib/resilience.js`) | breaker state, bulkhead counters | run, reject, half open | outbound calls | counters changed on two paths | never more running than allowed, no lost slot |
| Jobs and lifecycle (`lib/jobs.js`, `lib/lifecycle.js`, `server.js`) | timers, shutdown flag | start, stop, crash | all | order at start and stop | nothing runs after close |
| Authentication and devices (`middleware/auth.js`, `routes/auth.js`, `lib/webauthn.js`) | sessions, challenges | log in, register, verify | all routes | single use of a challenge | only authorised requests reach a handler |
| Storage and migrations (`server/db`) | the schema | migrate | all | start-up only | tables are as the handlers expect |
| Master data and reports | rows | validated CRUD, queries | - | none beyond a row | - |
| Realtime, caches | best-effort copies | publish, invalidate | all | staleness, by design | - |
| Till (`POS/src/stores/session.js`, `services/stock-reservations.js`, carts, pages, print spool) | local stock, reservations, invoices; cart, session | submit a sale, reserve, book, release, sweep, pull | client sync, other tabs | stock read before it is reserved, tabs that die, reservations that expire in a sale | but for those races, no unit is promised twice and an invoice is booked once; a sale keeps what it holds |

One server process runs JavaScript on one thread and `db.transaction` is
synchronous, so a handler body between two awaits is atomic. What interleaves
are handlers, async functions at their awaits (webhook batches, the answer of
an idempotent operation), timers, several processes that open one database
file, and crashes. On the till every await is a step boundary, an IndexedDB
transaction is atomic, and all tabs share one database.

## 2. Plan

Done, in the order of what a mistake costs: **InvoiceLedger** (money, stock,
numbering), **WebhookOutbox**, **SubscriptionBilling**, **Idempotency** under
stock reservations (**StockHolds**) with its abstract promise **OnceOnly**,
**ShiftLedger** over InvoiceLedger, **SyncQueue** and **OfflineSales** on the
till. All have proofs.

Left, in this order:

1. **InvoiceOutbox**: InvoiceLedger's commit and WebhookOutbox's emit as two
   steps with a crash in between; "at most once emitted" to be proved.
2. **Conflicts and pull**: what `applyRemoteChanges` keeps and drops, composed
   with SyncQueue and with a server that answers a batch in parts.
3. The invoice methods of **method.js**, as a second caller of the same rows.
4. **HashChain**, **Jobs** and the **PrintSpool**, as far as their properties
   repay it.

## 3. The modules

| Module | Models | Proofs |
|---|---|---|
| `InvoiceLedger` | `routes/invoices.js`, the account routes of `routes/customers.js`, `routes/fiscal.js`, `lib/stockPolicy.js` | `InvoiceLedgerProofs` |
| `WebhookOutbox` | `lib/webhooks.js`, `routes/webhooks.js`, the process life cycle of `server.js` | `WebhookOutboxProofs` |
| `SubscriptionBilling` | `lib/subscriptions.js`, `routes/subscriptions.js` | `SubscriptionBillingProofs` |
| `Idempotency` | `lib/idempotency.js` | in `StockHoldsProofs` |
| `OnceOnly` | what a key promises, with no code of its own | |
| `StockHolds` | the writing routes of `routes/stock.js` and the sale's `decrementStock`, with an instance of `Idempotency` | `StockHoldsProofs` |
| `ShiftLedger` | `routes/shifts.js` and the shift of a sale, extending `InvoiceLedger` | `ShiftLedgerProofs` |
| `SyncQueue` | the queue of `offline-store.js`, the push of `sync-core.js`, the polling of `sync-manager.js` | `SyncQueueProofs` |
| `OfflineSales` | `submitSale` of `session.js`, `stock-reservations.js`, `enqueueInvoiceSale` | `OfflineSalesProofs` |
| `SumTheorems` | no code: what the sum of a function over a finite set is, for the proofs about totals | all of it |
| `MC_*` | symmetry sets and values that a `.cfg` cannot write | |

An operator marked `mutant` beside a definition is what the definition would
be with a plausible mistake; the runs must detect it. It is used nowhere.

### InvoiceLedger

One customer, one product in one warehouse, one branch. `invoice` holds each
invoice row together with the sums of its items, payments, wallet transactions
and loyalty rows, which is all that the handlers read back. `stock`, `credit`,
`wallet`, `points` and `seq` are the columns they update; `years` and `now` are
the fiscal years and the clock. Every handler is one action because its body is
one transaction: `Sale`, `Pay`, `Void`, `FullReturn`, `PartialReturn`, the
account routes `WalletCredit`, `WalletDebit`, `Redeem`, `CreditPay`, and
`OpenYear`, `CloseYear`, `ReopenYear`. `RefusedSale` is there because the sale
gate provisions a missing year before the sale's own transaction. Requests that
are refused change nothing, nor does a sale whose idempotency key the handler's
lookup knows. `DuplicateSale` is the other way a sale is deduplicated: a second
process looked the key up before the first one inserted the invoice, meets the
unique index over tenant, branch and key, and answers from inside the
transaction, which commits with the number it took (`burnt`, a ghost). It is
the one place where another process acts between a handler's reads and its
transaction; such a race at the fiscal gate is left out.

A line is priced as `computeLineMinor` does it: quantity times price, the line
discount clamped to it, and the tax, each rounded on its own. `PartialReturn`
prices the line anew for what is left, with the pro-rated line discount rounded
first, so that a return may raise the total by rounding; `RoundingSlack` says
by how much.

Amounts are integers in the minor unit, as the code rounds to it after every
operation, and quantities in `1/Grain` of a unit; the code's 0.01 tolerances
stay. Time runs in half years so that a
July-June fiscal year can be told from a calendar one. `CreditReturns` says
which values `creditToWallet` takes: the REST route never sets it, the method
router may.

### WebhookOutbox

`dispatchBatch` is an async function. `Start` is its run up to the first
await: it reads the due rows and their attempts, marks rows nobody listens to
SKIPPED and posts the first other one. `Settle` is the run from the answers to
the next await: it writes the outcome over whatever the row holds *now*, counts
from the attempts read *then*, and goes on with the next row, or ends with the
janitor. `Tick` is the timer callback with `tryAcquireLeadership`; `Dispatch`
the administrator's route, which takes no lease. `Requeue`, `Configure` and
`Emit` are the routes and the event source. Faults are `Abort` (a write after
an answer fails), `MissTick` (the event loop stalls or the lease update fails),
`Crash` and `Restart`.

Time is counted in timer periods of 10 s: a live process ticks once per period,
the lease of 20 s is two periods, and a post of at most 8 s ends before the
second tick after it (`spare`). `next_attempt_at` is abstracted to whether it
has passed, the janitor's age to any set of finished rows. `acked` and `rounds`
are ghosts: what subscribers were seen to accept, and rounds really made.

### SubscriptionBilling

One customer. `runBilling` is synchronous, so within a process it is not
interrupted, but each subscription has its own transaction: another process may
commit in between and the run may end after any of them. `StartRun` is the
joined query (`run` keeps the rows and balance it read), `SettleRow` one pass of
the loop: skipped when its price is nil or the unique index refuses the period,
and otherwise billed for all periods that began, from the wallet if the balance
*as read* covers it. `Abort` ends a run early. `UpdatePlan`, `Subscribe`,
`Transition`, `Credit` and `Debit` are the routes. `funded` is a ghost: what
other movements put into the wallet.

### Idempotency, OnceOnly and StockHolds

`Idempotency` has the three places an answer can be: `inflight` (the promise),
`mem` (in memory, oldest evicted first) and `table` (with an expiry that only
the table has). A call `Replay`s, `Join`s or is the first one: `Run` commits the
operation and leaves the answer in flight until `Finish` stores and sends it,
because the route awaits a cache in between; `Refuse` is a function that throws.
Faults are `Crash`, `Expire` and a failed table write, counted in `faults`. An
answer is the number of the run it comes from.

`OnceOnly` is the promise: an operation runs again only after a fault, and every
answer is one that a run gave. `StockHolds` instantiates Idempotency for
`POST /release` and adds the level it works on: `Reserve`, `Sell`, `Adjust`,
`TransferOut`. `reserved_qty` is one number for all holds and a release names a
quantity, so whose hold it frees depends on each key running once: `ReleaseRun`
takes the units in the step in which the key's operation runs. `ReleasesOnce`
states that the calls implement `OnceOnly`, with runs, answers and failures as
the refinement mapping.

### ShiftLedger

Extends InvoiceLedger, whose actions are steps here: `ShiftSale` is a sale that
names an open shift (or none), `ShiftDuplicate` its duplicate from another
process, `LedgerStep` any later handler, none of which looks at shifts. `OpenShift`, `CloseShift` and `Handover` are the routes;
`ShiftCash` is `shiftCashTotal`, computed from the invoices as they are at that
moment, with cash beyond a total taken for change (`NetCash`).

### SyncQueue

The rows of one till's queue and the tabs that drain it. An edit is two steps
(`LookUp`, then `Write` into the row found, or a new one), a push is
`BeginPush` (which rows are in flight), `ResetRow` for each of them, `TakeList`
(rows with their payloads), then row by row `Skip`, `Reject` or `Post`, and
`Answered` or `Failed` when the post ends. `CloseTab` ends a push or an edit
anywhere. Attempts, backoff, death after the tenth failure and the manual retry
are kept; a payload is the number of its edit. `settled` and `overtaken` are
ghosts: what the server answered, and edits that joined a row some push had
read. `markRetry` and `markFailed` are single steps, counts stop at
`MaxAttempts`, whether the server accepts is a free choice, and rows are pushed
by age, not by document type. The boot's reset is the first half of a push.

### OfflineSales

Calls of `submitSale` in tabs over one IndexedDB. `ReadStock` (outside any
transaction), `Reserve` or `Unreserved` (a refused or failed reservation does
not stop the sale), then `Book` (invoice, reservations and stock in one
transaction), `Replayed` (the number is there already) or `NotBooked`, after
which `ReleaseHolds` writes back the rows that were read. `Die`, `Expire`, the
boot sweep (`BeginSweep`, `EndSweep`; one at a time) and `Pull` come in
between. Items without stock rows count as unlimited and are never committed.
Batches of an item are added up; payments and the queue row, written in the
same transaction, are left to SyncQueue. `raced` and `received` are ghosts: a
hold has come to miss some of its units, and what pulls added.

## 4. The runs

| Run | Instance | Checks |
|---|---|---|
| `invoice_one` | one invoice of three quarters of a unit at 43, with a line discount of 32 or none, 50% tax on top, a manual discount of 20, tenders of 20 and 49, a wallet of 20 that is spent and refilled, both kinds of return; three half years whose fiscal years open, close and reopen, one of them July-June if an administrator says so | `TypeOK`, `SettlementAgrees`, `RefundsCovered`, `ReturnRaisesDebtByRoundingOnly`, `ClosedYearImmutable` |
| `invoice_two` | two invoices of one customer and 2 units each, two processes, the account and fiscal routes, a credit limit of one invoice, a redeemed point that pays a wallet tender, stock below what can be sold | `StockAccounted`, `CreditBacked`, `CreditWithinLimit`, `PointsBacked`, `NumbersGapless`, `ReversalIsFinal` |
| `void_after_return` | one invoice | refutes `NoDoubleRestock` |
| `webhook_overlap` | one process, two overlapping batches, two rows, administrators' dispatches, a retry on demand, subscriptions that change | `TypeOK`, `OutcomeEarned`, `FinishedIsNotRetried` |
| `webhook_lease` | two processes, one fault (crash, failed write or missed tick) | `OneDispatcher`, `EventuallySettled` |
| `webhook_double_delivery` | one process, two rows | refutes `NeverDoubleDelivered` |
| `billing_race` | two processes, one subscription, intervals of 1 and 2 days, five dates, a ceiling of 2 periods | `TypeOK`, `PeriodsPartition`, `ReplayNeverCharges` |
| `billing_wallet` | one process, two subscriptions of one customer | refutes `DebitsAreFunded` |
| `stock_holds` | three holds, four releases of two of them of which three share a key, one answer in memory, two faults, strict stock control | `TypeOK`, `HoldsKept`, `OnlyByHandUncovered`, `ReleasesOnce` (refinement), `EventuallyAnswered` |
| `shift_ledger` | three shifts on two tills, one invoice with its tax in the price, a duplicate of its sale, tenders of 60 and 150 on 100, a wallet of 60 | `ShiftTypeOK`, `OneOpenPerTerminal`, `CashNetsToPaid`, `ClosedShiftIsFinal`, `ClosingMatchesBooks` |
| `sync_queue` | two tabs, a document edited twice, two attempts, one crash, one manual retry | `TypeOK`, `NoEditLost`, `EventuallySettled` |
| `offline_sales` | three submissions of two invoices, one item of two units and one without stock rows, one pull to 1 or 3 units | `TypeOK`, `HoldsCovered`, `StockExplained`, `HoldLasts` |

Why the bounds are enough:

- Invoices share only the account, stock and the sequence, and interact
  pairwise through them: two invoices exhibit every clamp and every release of
  another invoice's credit, and two processes leave at most one gap for each.
  Three quarters of a unit at 43 come to 32: a line discount of 32 takes all of
  it, and a part return with its roundings makes 2 of that nothing, the most
  that `RoundingSlack` allows with a tax on top. Without a line discount the
  total is 28, of which tenders of 20 and 49 pay a part, or all with change,
  and after a return leave what must go back. `WalletCap` only stops
  manual credits, so that the wallet stays finite.
- Three half years let an invoice be changed in its own year and the next, with
  the year closed, reopened or never provisioned. Nothing in `ClosedYearImmutable`
  relates two invoices; numbering does, so it is checked with two.
- Two slots are two overlapping batches; a third would hold the same row with
  the same kinds of stale reads. `MaxAttempts` 2 makes a first failure, a last
  one and a stale count between them all happen. A fault per behaviour is a
  crash or a missed tick at any moment; two processes are a holder of the lease
  and an heir.
- A ceiling of two periods with five dates is reached and passed; intervals 1
  and 2 let a plan change the grid of periods; each process may hold a row that
  the other has settled.
- Three holds are the owner of a release, one whose answer evicts the first's,
  and one that stands to lose its units; three attempts under one key are a
  run, one that joins it and one that comes later; an answer that is evicted,
  expired, lost or unwritten needs at most two faults.
- Three shifts are one closed, one handed over to and one on the other till.
- Two edits let the second join the first's row or get one of its own; two tabs
  overlap in every await; two attempts are a retry and a death.
- A double submission and a sale of another invoice are the two ways calls can
  meet; two units are enough for both or, after a pull, for one.
- `SYMMETRY` is used where no definition names an element, and never with a
  liveness property.

`OfflineSales.cfg` alone switches deadlock checking off: each call of a sale
ends. In every other model something can always happen.

**Fairness**. In WebhookOutbox (`FairSpec`, for `EventuallySettled` only) a timer of a live
process fires (`setInterval`, 10 s), a period ends, a post settles by its
8 s timeout (`AbortSignal.timeout`), a wait elapses, and a process that died is
started again (the shipped compose file has `restart: unless-stopped`; in
production an unhandled rejection ends the process, for the supervisor to start
it again). Nothing is assumed of administrators, of `emit` or of what
subscribers answer. In StockHolds a function that was called returns
(`ReleaseReturn`): it awaits a cache delete that gives up by itself; nobody has
to call. In SyncQueue automatic mode polls (`BeginPush`, `setInterval` in
`sync-manager.js`), a push under way goes on (`Work`: requests time out and
every await ends) and a backoff passes (`BackoffPasses`); nothing is assumed of
edits, of the cashier or of what the server answers. `EventuallySettled` there
is about a row whose predecessors stay settled, because two tabs may reopen an
earlier row for ever (section 6).

## 5. What is proved

All theorems hold for every value of the constants that the named assumptions
(`LedgerAssumption`, `OutboxAssumption`, `BillingAssumption`,
`HoldsAssumption`, `ShiftAssumption`, `SyncAssumption`, `SalesAssumption`)
admit; these give types, say that divisors and bounds are positive and that a
null is no value, no more. TLC evaluates them.

**SumTheorems.** Many invariants here are about totals. `SumFunctionOnSet` of
the community modules picks the elements in an order that `CHOOSE` decides, by a
recursion that is an operator's argument, which none of the provers can
instantiate. What they can use is the order of the subsets of a finite set by
inclusion: of the subsets a claim fails for there is a least one
(`LeastSubset`). From that it follows that the recursion is well defined
(`PartialExists`, `PartialUnique`), that any element may be taken first
(`SumRemove`), and how a sum changes when one term comes, goes or changes
(`SumOneTerm`), which is what one step does to it.

**InvoiceLedgerProofs.** `LedgerInvariant` proves the inductive `LedgerInv`:
each row is `Priced` (gross is what its line comes to, total is gross less a
discount that fits in it), `Settled`,
`Covered` and `Numbered`, and the account keeps its types. `SettlementAgrees`
alone is not inductive: a partial return recomputes the total from gross and
discount, so both must be known to fit; and `RefundsCovered` needs `Covered`,
which counts the paid amount together with what went back. `TypeCorrect`,
`SettlementCorrect` and `RefundsAreCovered` follow. The arithmetic is in lemmas
of its own: rounding is natural, pro-rating adds nothing of its own to a total
(`ProRatedTotal`, `ProRatedRises`), the line and its discount are rounded at
most one minor unit apart (`LineRounding`), and the tax passes that on with at
most one more (`TaxRounding`).

Action properties follow from the same invariant:
`ReversalStays`, `ReturnsChargeRoundingOnly` (never more than `RoundingSlack`),
`CreditStaysWithinLimit` (only a sale is checked against the limit, and only a
sale or that rounding adds to the credit in use) and `ClosedYearsStay`.
`NumbersStayGapless` is an induction of its own over `NumbersInv`: a sale or a
duplicate takes the sequence's successor, nothing else touches a number, and
each invoice burns fewer than there are processes. `ClosedYearsStay` speaks of steps
from states in which all fiscal years have calendar dates (`CalendarYears`),
whatever other years an administrator may open: from the first other year on
the statement is false (section 6). Its invariant `CalendarInv` says that, as
long as dates are the calendar's, every invoice's year is that of its creation.

`StockIsAccounted`, `CreditIsBacked` and `PointsAreBacked` are about sums over
all invoices. `SumsInv` adds to them that only finitely many invoices were
issued, and `RowsMarked`: a live row was not returned, a returned one is marked
so (which tells, at a later void, whose units are on the shelf already), and a
sale without a customer earned nothing. Each handler moves stock, credit and
points with what its one invoice contributes (`MovesWith`, a lemma per handler),
or lowers credit and points by more; and as no sum can be negative, neither
bound is lost where the code clamps at zero.

**WebhookOutboxProofs.** `OutboxInvariant` proves `OutboxInv`: an attempts count
that is or may yet be written never runs ahead of the rounds made (`CountsOK`,
over stale reads in running batches too), and a timer's batch lives within its
lease with a period to spare once its timer has fired (`LeaseHeld`).
`OutcomesAreEarned`, `LeaseExcludes` and `FinishedStaysFinished` follow, the
last of which says that no batch makes a finished row PENDING again, not that
none posts it once more;
`OutboxTypeCorrect` adds `AttemptsBounded`, since only PENDING rows are read by
a batch and each retry by an administrator adds one.

**SubscriptionBillingProofs.** `BillingInvariant` proves `BillingInv`.
`PeriodsPartition` is not inductive: a run holds rows read earlier. `RowsKnown`
says that such a row is up to date or its period is settled, in which case the
unique index refuses it; `BillsKnown` that a billing begins by the date of its
run and passes it, or stopped at the ceiling. `PeriodsAreBilledOnce`,
`ReplaysAreFree` and `BillingTypeCorrect` follow.

**StockHoldsProofs.** `OnceInvariant` proves `OnceInv`, the inductive invariant
of the keys: every copy of an answer is of the last run, a run in flight has no
copy beside it, and without a fault what is in memory is in the table, which is
what makes eviction harmless. A claim about runs alone is not inductive, since a
retry runs again exactly when all three places have forgotten. `ReleasesRunOnce` is the
refinement: each step of a release is a step of `OnceOnly` or leaves its state
alone. `HoldsTypeCorrect` and `UncoveredOnlyByHand` follow from the same
invariant; the latter needs strict mode, where a sale looks at what is reserved.
`HoldsAddUp` is about the sum of the outstanding holds while the server has had
no fault; after one, nothing is claimed of it. Its `HoldsInv` adds that
they are finitely many, that only what is held is released, and that without a
fault a release which ran is known, so that nothing runs it again.

**ShiftLedgerProofs.** `ShiftsKeepLedger`: every step of the shifts is a step of
the ledger or leaves it alone, so `LedgerInv` holds under shifts.
`ShiftInvariant` proves `ShiftInv`: `LedgerInv`, one open shift per till, the
shape of a shift's row and `TendersKept`, that an invoice of which nothing came
back has paid what was tendered, up to its total. `TillsAreExclusive`,
`NetCashIsPaidCash` (about invoices of which nothing came back in part) and
`ClosedShiftsStay` follow. With `SumsInv` from the ledger
a shift's invoices are finitely many, each with a natural number to add; that is
`ShiftTypeCorrect`, and `ClosingsMatchBooks` puts `CashNetsToPaid` into the sum
of a closing.

**SyncQueueProofs.** `SyncInvariant` proves `SyncInv`. `NoEditLost` is not
inductive: `markSynced` closes a row on the strength of a payload read earlier.
`HeldIsCurrent` says that what a push holds is what its row carries, or was
overtaken; `SyncedIsSettled` that a row marked synced is answered for.
`SyncTypeCorrect` and `EditsAreNotLost` follow.

**OfflineSalesProofs.** `SalesInvariant` proves `SalesInv`. `HoldLasts` is not
inductive, since a failed call and the boot sweep write back rows that they read
in an earlier step: `FreesItsOwn` and `SweepsLate` say whose they are.
`SalesTypeCorrect` and `SaleKeepsItsHold` follow. `CoverInv` is for the sums:
`HoldsCovered` and `StockExplained` need to know that a sale which comes to save
still has every unit it reserved (`SaveHolds`), or booking would take stock that
no hold gives back. `HoldsStayCovered` and `StockIsExplained` follow, both of
them only until one of the races happens that `raced` records (section 6).

**Checked by TLC only:** `EventuallySettled` twice and `EventuallyAnswered`
(liveness), and the refuted statements. Every invariant and action property of a
passing run is a theorem.

## 6. Where code and text disagree

Three are runs that TLC refutes; `PROJECT.json` quotes the lines.

- **Void after a full return** restores the units again: the comment on the
  restore says double counting is impossible, but only VOIDED is refused and a
  full return keeps the line quantities (`invoices.js:945`).
- **Double delivery in one process**: the timer does not wait for its last
  batch and renews its own lease (`webhooks.js:188`).
- **One balance for several subscriptions**: a billing run charges each due
  subscription against the balance it read at first (`subscriptions.js:375`).

Seen in the models; where a property would be refuted by one of these, its
comment names the exception.

Server:

- **Void after a partial return** refunds all of an invoice's wallet payments,
  the returned share a second time (`invoices.js:1003`, against 124-126).
- **Numbers burnt by duplicates**: the comment at `invoices.js:274-279` says
  that retried requests are deduplicated without consuming a number. When two
  processes share the database file, the duplicate may pass the lookup before
  the sale is stored; it then meets the unique index at 323-329 and commits
  the number it took at 286. `NumbersGapless` counts these.
- **A return can raise the total**: at 1.00 a kilogram, 1.244 kg with a line
  discount of 1.20 come to 0.04; after 0.008 kg came back they come to 0.05.
  The comment at `invoices.js:1161-1162` has the pro-rated discount already
  inside the clamp and rounded as the sale was: it is rounded once more, and
  may exceed the line it is taken from.
- **Fiscal years that are not calendar years**: sales are gated by the year
  whose dates cover the day, later changes by the calendar year of creation
  (`invoices.js:73`), so an invoice of a closed year still changes.
- **Partial fan-out**: a row is DELIVERED when one subscriber accepts; the
  others never get the event (`webhooks.js:113`, against `schema.js:153-154`).
- **Idempotency**: `schema.js:704` says that the primary key makes a double
  execution impossible even across restarts. The answer is stored after the
  operation committed, and a crash in between lets a retry run it again;
  `OnceOnly` admits a second run only after a fault, for this reason.
- **Cash after a return**: a cash refund lowers `paid` and the total, but the
  payment row stays, so `cash_net` still counts it. A sale of 200 in cash of
  which half comes back counts 200 while the drawer holds 100 (`shifts.js:30`);
  a refund to the wallet errs the other way. `CashNetsToPaid` excepts invoices
  with returns.
- A later cash payment of an old shift's invoice counts for the old shift, and
  the report of a closed shift is computed again from its invoices.
- `POST /:id/pay` caps only what the wallet pays, against
  `payment-invariants.js:3-12`.
- A batch with a stale count, or one that finds its subscribers gone, writes
  DEAD or SKIPPED over another batch's DELIVERED.
- `POST /api/webhooks/dispatch` takes no lease.
- After `credit/pay`, `credit_used` is below what live invoices have
  outstanding (the comment at `invoices.js:873-875` calls them equal); a later
  payment's release is clamped at zero.
- A billing run that races another process overwrites its wallet movements,
  and bills a subscription that was paused or cancelled after it read the row.
- After a billing stopped at the ceiling of 1,200 periods, running the same
  date again charges the rest.
- `POST /reserve` has no idempotency key: a retry after a lost answer reserves
  twice.
- The lease is owned by `process.pid`; containers that share the file may have
  the same one. Two tenants that share a branch id share its number sequence.

Till:

- An edit that joins a row which a running push has already read is marked
  synced without being sent (`sync-core.js:150,213`, `offline-store.js:84`).
- `LookUp` and `Write` of two edits can leave two rows of one document, sent in
  either order under one key; `resetStuckSyncing` of another tab reopens rows
  that were answered or died meanwhile, and two tabs can do so for ever, so
  that rows behind them starve.
- A switch of subscriber between the reading of the list and a post sends a row
  under the new one (`sync-core.js:150`).
- The Express `sync/push` reads a batch that the till's single operation does
  not fill; `sync/pull` reads `checkpoint` where the till sends `since`; and
  `pullChanges` falls back to the till's clock (line 130).
- `saleRepository.voidSale` queues its row without a tenant, which no push ever
  takes; no page calls it.
- A sale reads stock before the transaction that reserves it, so two tabs may
  reserve the same units if one books in between (`session.js:612`); and a
  reservation that expires in a sale, is freed by a failed double submission or
  is undercut by a pull leaves the same gap. These are `raced`.
- A sale whose reservation was refused is booked without taking any stock
  (`commitItems` is empty), as is a double submission when the refused call
  comes first.
- A pull overwrites local decrements: booking does not touch `updatedAt` of a
  stock row.
- `releaseReservation` and the boot sweep may mark a committed reservation
  released or expired; its stock is already taken.

## 7. Abstractions and what is not modelled

- **Invoices**: one line per invoice; one `tax_inclusive` setting and one tax
  rate for a behaviour; exact arithmetic where the code divides floating-point
  numbers before it rounds; coupons, offers, the fiscal QR and hash chain, audit rows, the
  sync log, tenants, branches and user roles are left out. Roles and tenant
  checks refuse a request and change nothing. A retried sale
  whose `idempotency_key` the lookup finds is a stuttering step. Sales are not emitted to the
  outbox: that composition is planned, and its gap (emission after commit) is
  listed as a hazard.
- **Outbox**: which subscription matches an event is a set; signatures, SSRF
  checks and response bodies are left out. Two processes with one pid are not
  modelled.
- **Billing**: creating plans and `is_active` only decide who may subscribe;
  currency, tenants, lists and the report change nothing the properties see.
  The index exists: a database whose migration found duplicated periods runs
  without it, which the migration reports.
- **Stock and idempotency**: one product in one warehouse; only releases go
  through keys in the model, as the other routes' operations commit and answer
  in the same way. Requests without a key run unconditionally.
- **Shifts**: one tenant; of a closing's figures the expected and counted cash
  are kept.
- **Till**: one tenant, one till; two sweeps at boot do not overlap; pull and
  conflict resolution only where they overwrite stock.
- **Not modelled**: everything listed as such in `PROJECT.json`, most of it in
  the plan. Authentication and cryptography are preconditions here. Migrations,
  master data and reports are sequential SQL without a protocol. The workers
  are stateless, the legacy client is kept for reference, vendored and
  generated code is not the program's own.
- **Out of the prover's reach**: liveness under fairness and ENABLED. Induction
  with an operator as its parameter is too; the sums go round it (section 5).
