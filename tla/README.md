# A TLA+ model of the werehouse back end

The program is a multi-tenant back end for factories (NestJS, Prisma, PostgreSQL, Redis and BullMQ,
`src/backend-nest`): warehouse stock, purchasing, sales, manufacturing, attendance, payroll and what goes with
them. This directory models the parts of it in which requests that run at the same time, fail half way or are
sent again decide whether the books still add up. Every definition is translated from the TypeScript source;
`PROJECT.json` maps each to its lines.

Code paths below are relative to `src/backend-nest/src`.

## 1. The system

All state is in PostgreSQL, at READ COMMITTED and with no CHECK constraints, and is changed by HTTP handlers of
a few Node processes and by queue workers. A handler typically reads a row with no lock, checks it, and then
opens an interactive transaction (`prisma.$transaction`) that writes; it seldom checks again inside. That
shape, *check, then act later*, is the source of most of the hazards listed in `PROJECT.json`.

| Component | State | Operations | Interacts with | What is hard, and what must hold |
|---|---|---|---|---|
| Stock, `inventory/` | `stock_levels` (quantity, reserved, available per SKU and location), `stock_movements` | `applyStockChangeWithin`, `reserveStockWithin`, `releaseReservationWithin` and their endpoints | called inside the transactions of sales, purchasing, invoices, counts | row locks and stale reads, deadlock, rollback; movements explain the rows, no unit is promised twice |
| Sales orders, `sales/` | `sales_orders`, items, payments | create, update, confirm, deliver, cancel, remove; payments | stock, in one transaction or one per line | overlapping handlers, interrupted cancellation; reservations and shipments agree with statuses |
| Purchasing, `purchasing/` | `purchase_orders`, items, `goods_receipts` | create, update, status, receive, remove | stock, costing | retries, partial failure; stock, received quantities and receipts agree |
| Payroll runs, `payroll/` | `payroll_runs`, `payroll_items`, the BullMQ queue | calculate, calculateAsync, worker, approve, reject, delete | queue, advisory lock, buses | computation without a transaction, retries, stalled jobs; a completed run is complete, nothing stays in processing |
| Short cache, `common/cache/` | in-process map, producers in flight, Redis | getOrSet, invalidate by key or prefix | every service | a producer that started before an invalidation; one producer per key |
| Production batches, `manufacturing/production-batch.service.ts` | stages, transfers, sub-warehouses, cost records | start, complete, return, transfer, cost, lock | production orders | stage checks outside the transaction; units counted once, locked costs kept |
| Production orders, `manufacturing/manufacturing.service.ts` | orders, material consumption | create, start, complete, cancel | writes `stock_levels` itself | material checked over all places, taken from one |
| Cycle counts, `cycle-counts/` | counts and their lines | create, start, record, approve, cancel | stock | stale variances |
| Batches, `batches/`, `quality/`, putaway in `locations/` | batches, their levels at places, inspections, putaway tasks | receive, consume by expiry, correct, hold, scan, put away | invoices, counts, stock | three ledgers of the same goods; holds lifted by stale writes |
| Picking and shipping, `fulfillment/` | pick lists, shipments | assign, record, cancel; label, status | | status machines checked on stale reads |
| Sales and purchase invoices | invoices, lines, delivery notes, landed costs, payments | create, edit, post, cancel, pay | stock, orders, batches, ledger | double posting, lost payments, credit limit |
| Ledger posting, `common/wms/ledger-posting.service.ts` | journal entries | `postWithin` | called by the invoices | one entry per source reference |
| Representatives, `representatives/` | van stock, sales, collections | load, unload, sell, return, collect | writes `stock_levels` itself | absolute writes of read quantities |
| Synchronisation, `sync/` | every table, checkpoints, tombstones | ticks of the factory's worker | a second database | pages, late commits, failures; newest version survives |
| Leaves, `leaves/` | leave requests, payroll inputs | create, in bulk, update, remove, restore | payroll, attendance | deltas from stale versions; overlaps |
| Attendance, `attendance/`, `biometric/` | punches, daily logs | add, edit, upload, remove, restore, biometric import | leaves, payroll | calculations nobody waits for; logs follow the punches |
| Employees, `employees/` | status, settlement flags, settlements | terminate, resign, settle, rehire, archive, restore | salaries, buses, payroll | checks before transactions; paid out once |
| Salaries, `salary/`, `bonuses/`, `trash/` | the salary record and its mirror column | enter, raise, increase, delete, restore | employees, payroll | two copies written apart |
| Payslips, `payroll/`, `advances/`, `penalties/`, `bonuses/`, `trash/` | `payroll_items`, `payroll_inputs`, `payroll_receipts`, advances, penalties, bonuses, `deleted_record_history` | the computation of a month's items; enter, edit, trash, restore; receipts | attendance, leaves, salaries | pay is the sum of its days, a claim is settled by one month |
| Transport, `transportation/` | buses, seats | add, remove, move riders, edit and delete buses | employees, payroll | capacity, approved months |
| Products, customers, accounting, costing, numbers, places, authentication, tenancy, entitlements, backup, webhooks, imports, dashboards | tables of their own | CRUD, computation, I/O | | not modelled, see Section 5 |

`PROJECT.json` lists every component with its status, and under `hazards` the lines at which each of these
things bites.

## 2. Modules

| Module | Models | Extends |
|---|---|---|
| `StockRow` | one `stock_levels` row with its movements, as functions | |
| `Inventory` | transactions over rows: locks, uncommitted versions, commit, rollback, deadlock | `StockRow` |
| `AtomicStock` | what `Inventory` promises: whole transactions, one at a time | `StockRow` |
| `SalesOrders`, `Purchasing` | `SalesService`; purchase orders and receipts | `Inventory` |
| `PayrollRuns` | the life of a period's payroll runs, inline and through the queue | |
| `ShortCache` | the read-through cache over Redis | |
| `ProductionBatches`, `ManufacturingOrders` | the two manufacturing services | |
| `CycleCounts`, `Batches`, `Fulfilment` | counts; lots, inspections and putaway; picking and shipping | |
| `LedgerPosting` | `postWithin`, as an operator on a document's entries | |
| `SalesInvoices`, `PurchaseInvoices` | the two invoice services | `LedgerPosting` |
| `Representatives`, `Synchronisation`, `Leaves` | one service each | |
| `DayLogs` | the computation of a day's logs from its punches | |
| `Attendance` | punches, leaves and the calculations they start | `DayLogs` |
| `Salaries` | the salary record and its mirror | |
| `Employment` | employees and their buses | `Salaries` |
| `Wages` | the arithmetic of an employee's month: days, leaves, rates, rounding | |
| `Payslips` | what a run computes and from what: claims, inputs, items, receipts, trash | `Wages` |
| `BackOffice` | the five of the office together: their joint specification and what they come to | those five |
| `Factory` | the six of the factory likewise | the manufacturing services, `CycleCounts`, `ShortCache`, `Batches`, `Fulfilment` |
| `Personnel` | the four of the personnel likewise | `PayrollRuns`, `Attendance`, `Employment`, `Payslips` |
| `Sums` | lemmas about sums over finite sets | `Functions`, `TLAPS` |
| `InventoryProofs`, `SalesProofs`, `PurchasingProofs` | theorems, for TLAPS | `Inventory`; `SalesOrders`, `Purchasing` and `InventoryProofs`; `Sums` |
| `FactoryProofs`, `BackOfficeProofs` | theorems | `Factory`; `BackOffice`; `Sums` |
| `PayslipsProofs`, `PersonnelProofs` | theorems | `Payslips` and `Sums`; `Personnel` and `PayslipsProofs` |
| `MCInventory`, `MCSalesOrders`, `MCPurchasing`, `MCPayrollRuns` | constants, bounds and symmetry of their runs | the module of that name |
| `MCFactory` | production, counts, cache, batches and fulfilment, a behaviour of one of them at a time | `Factory` |
| `MCBackOffice` | invoices, vans, synchronisation, leaves, likewise | `BackOffice` |
| `MCPersonnel` | payroll runs, attendance, salaries, employment, payslips, likewise | `Personnel` |

Most modules share a form. `Procs` (or `Clerks`, `Hands`, `Desks`, ...) are the requests in progress. A
`ReadFor...` action is what a handler reads and checks before it writes, and keeps the answers in a record of the
request; a later action is its transaction, which uses those answers whatever has changed meanwhile; a `Fail...`
action ends a request between the two. A transaction is one action where its first statement locks what it
decides on, and several where it does not; each module's comments say which. History variables record what has
happened, for properties only; what a step does to the modelled state depends on none, but that `Synchronisation.Write`
only creates rows that nobody has written before (`last`).

### Inventory

`stock[k]` is the committed row, `latest[k]` the newest version, which differs from it only while a transaction
`owner[k]` has the row locked; `script[p]` holds the calls that request `p`'s transaction has still to make and
`pc[p]` where it is in the first of them. A row carries, besides its columns, two history fields: `moved`, the
sum of the changes in its movements, and `held`, its RESERVE minus its RELEASE movements.

`applyStockChangeWithin` is two statements: `CheckOnHand` reads the row the transaction sees (its own
version or the committed one, without a lock), and `ApplyStockChange` waits for the row lock and then runs the
upsert on the newest version, with `GREATEST(0, ...)` in both columns. `ReserveStock` and
`ReleaseReservation` are single conditional UPDATEs, which PostgreSQL evaluates on the newest version after
waiting. A statement that fails rolls everything back. `DeadlockVictim` aborts one transaction of a cycle of
waits, `Interrupt` stands for timeout, lost connection and crash. `Scripts` are the transactions callers run;
the callers replace it by their own.

A row that does not exist is one with zeros: the upsert creates it, the UPDATEs match nothing on it either way.

### SalesOrders and Purchasing

A request is a process. `ConfirmSalesOrder`, `DeliverSalesOrder`, `CancelSalesOrder` and the `Read...` actions
are the read and the checks; the transaction's statements are `Inventory`'s, and `CommitConfirm`,
`CommitDeliver` write the status with the commit. `cancelSalesOrder` releases each line in a transaction of its
own (`BeginRelease`, `CommitRelease`) and writes the status at the end (`FinishCancel`). `Fail` may end any
handler at any step. The stock endpoints run beside the orders (`CallInventory`), so that rows are also moved by
others; `outside` records what they do. Two edits of one order may each miss the lines the other is
inserting (`Replaced`). A payment is of amount one, a price is one. `overlapped` (two stock-changing requests of
one order ran at once, which the code does nothing against) and `interrupted` (a cancellation stopped between
lines) name the conditions of properties.

`ReadForReceipt` and `RefuseReceipt` are `receiveGoods`' checks on the order it has read, `AnswerFromReceipt`
the idempotent answer, `BookReceipt` the start of its transaction, whose paperwork locks the order's rows and
the receipt number (`Locked`, `NumberTaken`), `StockStatement` its stock changes and `CommitReceipt` the
commit. Foreign keys decide what can be deleted: an order or a line that a receipt refers to cannot
(`RefersTo`). Lines keep their place in `items` when they are deleted, so that a receipt names a line for good.

### PayrollRuns

All runs of one period. A calculation commits its run (`CreateRun`), takes the advisory lock and looks for
another run (`FindOld`), deletes it (`CheckOld`, `DeleteOld`) and computes, inline or as a job. The
computation (`Check`, `Begin`, `Clear`, `Insert`, `Finish`) is one action per statement, since no transaction
surrounds it, and any of them may throw. So may what follows a throw: `markPayrollRunFailed` only logs an update that
fails, and then nobody has the run, which is one of the ways in which it is `abandoned` (`Mark`; the others are a crash
and a job that has stalled too often). The queue is external: it hands out a waiting job, hands it on when it
has not heard of the worker (`Stall`), whether that is dead or only slow, and gives up after `MaxStalls`.

### ShortCache

`db[k]` is the version a producer of `k` would read; `memory` and `redis` are the two levels with their expiry,
`call[c]` a call of `getOrSetJson` or `setJson`, and `writer` a service that has written and is invalidating.
JavaScript runs from one `await` to the next without interruption, so each action ends at one: the look into
memory and the question to Redis, its answer, the producer's read, its return, the copy to Redis, each page of an
invalidation's scan. The map of producers in flight is the set of calls in `reading` and `read`. Redis fails at
any statement (`RedisFails`, `ScanFails`) and is then not used; a restart loses memory and calls. An entry's
`missed` says that it was on its way while its key was invalidated, or lay in a Redis that could not be reached.

### ProductionBatches and ManufacturingOrders

`stage[b][s]` is a stage row, `level[w]` a sub-warehouse's balance, `moves[w]` the sum of its transfers.
`startStage`, `completeStage` and `returnToStage` read and check, then run a transaction of one step whose first
statement locks the rows it changes; `completeStage` checks its quantities again on the locked row. A transfer
locks its source row (`locked`) in one step and the target in the next. `redone` are the batches of which a
stage was returned or reopened, since the code takes back neither counters nor finished goods. `opened` are the
sub-warehouses that exist: what has to go to one that does not is lost without an error (`moveToWarehouse` returns null),
and a batch that comes to its end before there is a warehouse for finished goods is `unplaced`. `cost[b]` is the
cost record with its lock; `raced` marks a calculation that had looked at the record before it was locked.

`ManufacturingOrders` moves the material's rows itself, as the code does past `InventoryService`: reservation at
the start, difference and consumption at the end, each in one commit. `ProductionBatchService` sets the status of
the same orders, which is an action here. `odd` and `twice` name what the two properties except.

### CycleCounts, Batches, Fulfilment

`CycleCounts` has a book and a shelf. Goods leave with a document (`Ship`) or without (`Lose`); a count freezes
the book's quantity, `ReadForRecord` takes what lies on the shelf, `ApproveCount` posts the variance it read.

`Batches` keeps the goods of one product in three ledgers, as rows that a transaction locks until it ends:
the batch, the batch at a place, the place's stock level. A request reads its document and runs a *script*, the
statements of the code in their order, grouped into *parts* of which each moves some goods: a posting of a purchase invoice, a sales invoice that consumes what it
allocated by expiry outside its transaction, returns, corrections, the approval of a count, putaway,
inspections. `Hold` and `ScanBatch` change statuses. A putaway task names a lot or none, at whatever place, as nothing
compares it with what is booked there: its deduction from the source may match no row (`Misses`) while the target still
gains. `forced` are the lots and places whose ledgers such a task, or another document that nobody checks, has parted;
`overruled` are inspections whose hold another request has lifted.

`Fulfilment` is pick lists with their lines and shipments: every handler writes a status on what it has read.
`recordPicks` writes lines, counts those that are done as its transaction sees them and writes the list.

### SalesInvoices, PurchaseInvoices, LedgerPosting

A document's entries are a function from source references to values, so that `Booked` is idempotent as
`postWithin` is; entries are skipped while an account is not mapped. A sales invoice's transaction is one step,
since two of an invoice wait for each other at the first row both write, and its stock calls are whole (that is
what `AtomicStock` is for). `recalculate` of purchase invoices is one step where the row was locked before, and
two (`Recalculate`, `CommitRecalculated`) where it was not.

### Representatives, Synchronisation, Leaves

One van, one SKU, one place: a load increments the van's row, all other handlers write what they have computed
from a plain read; `holder` has the row locks. `raced` is what was overwritten though it had changed.

`Synchronisation` is the tick of the factory's worker over one table with `updatedAt`: push, pull, and both
directions of tombstones, page by page, each `await` ending an action, with failing rows, aborted ticks and
writes that commit after their `updatedAt`. Both sides are in use meanwhile. A stamp is taken before the write waits
for its row (`NOW()` is when the transaction began, Prisma's is the client's clock), so a later version may carry an
older stamp than the one it replaces, or the same; such rows are `misstamped`.

`Leaves` has the requests and the payroll inputs they add days to. A change takes back the effect of the version
it read and adds the new one; removal archives a leave, a restore brings it back without looking for others.

### DayLogs and Attendance

`DayLogs` is `aggregateEmployeeDay` without its statements: punches paired into intervals, split at the shift's
end, lateness, grace, hourly leave, and the delay taken out of the missing time; slots instead of minutes, shifts
over midnight included. `Attendance` has the punches, their trash and leaves. A request checks and writes later;
the calculation it starts (`calcs`) is a process that nobody waits for, reads the day's punches and replaces the
calculated logs. `off[k][x]` is row `x` of the leaves of a day: a decision writes it, a removal takes it away, and a
restore brings it back as it was, without a look at the punches or the other row (`rushed`, as are days on which two
requests crossed).

### Salaries and Employment

`pay` is the record and `mirror` the employee's column, which payroll reads where there is no record; `bin` the
deleted ones. Each path that writes them is there in its statements: an upsert writes the record and then the
mirror, a raise writes all records it has read.

`Employment` adds leaving, settlement, rehiring, archiving and the buses' seats. `ContinueOffice` is the second
half of every request. A rider is added under the bus's lock, after a count of the seats taken. `approved` is
the month's payroll run, whose approval freezes the subscriptions (`sealed`).

### Wages and Payslips

`Wages` is the computation of an employee's pay from punches, leaves and inputs, in halves of a minute's wage
and with the divisors multiplied out (`Scale`), so that nothing is rounded before the code rounds. `Payslips`
has the tables around it: `claim` (advances, penalties, bonuses), `trashed`, `input`, `run` and `receipt`.
`work` is the calculation in progress: `ReadBooks` reads every table once, `PayWorker` inserts the item of one
employee, who may be skipped when his data throw, and a calculation may fail at any point and be retried. When the
computation of the bus fares fails, the run goes on without any (`fares`, `Riding`), and so does a settlement.
`letter` is a request that trashes or restores a claim, which reads before its transaction. `unread` are the
months whose books changed after their run read them, `edited` the claims that were moved to another month.
Which runs of a month there are, and which calculations overlap, is `PayrollRuns`.

## 3. What is checked

`CHECK_DEADLOCK FALSE` is set in every configuration: the number of requests is bounded, and a system with none
left has nothing to do.

| Run | Instance | Question and answer |
|---|---|---|
| `inventory` | 2 requests, 2 rows, 3 transactions each; one or two calls that lock the rows in both orders | `reserved` equals the movements, on-hand and available cover theirs, every transaction ends, and `Inventory` implements `AtomicStock`: **holds** |
| `inventory_snapshot` | the same | is the check made on "the same snapshot as the write", so that quantity equals the sum of the movements? **No**: two deductions pass it on the same units |
| `sales_orders` | 2 orders of one or two lines, 2 requests at a time, 4 in all | stock follows the orders, payments, totals and statuses add up: **holds** under the stated conditions, and stock is only moved through `Inventory` |
| `sales_delivery` | the same | does a delivery leave `available` unchanged? **No**, after stock was taken below what is reserved |
| `sales_cancel_retry` | the same | is a confirmed order always backed by reserved stock? **No**, after a cancellation of another one was interrupted and tried again |
| `purchasing` | 2 orders of two lines, 2 requests at a time, 4 in all, one receipt number | stock, lines, receipts and statuses agree, numbers are used once, receipts keep their order: **holds** |
| `purchase_retry` | the same | does a repeated receipt get its original answer? **No**, the remaining quantity is checked first |
| `factory` | see below | units, reservations, balances, batches, shipments and cached versions agree with what was recorded: **holds** |
| `back_office` | see below | goods, books, payments, versions and payroll inputs agree: **holds** |
| `payroll` | see below | completed runs are complete and none is left behind; a day's logs are its punches'; what employees are paid, charged and given adds up: **holds** |
| `payroll_queue` | 1 run, 3 attempts, 1 stall, 2 decisions or crashes | every job that waits is completed, fails for good or is dropped: **holds**. Its run is then completed or marked as failed, unless marking it failed too or the job stalled too often |
| `payroll_overlap` | 2 calculations, both queued | do overlapping calculations leave a run? **No**, each deletes the other's |

The properties of the three composed runs, with the module that states each:

| Run | Property | Says |
|---|---|---|
| `factory` | `StagesAccountForUnits` (`ProductionBatches`) | no stage puts out more than it received, and output is counted once and lies in the finished-goods warehouse, if there was one |
| | `BalancesMatchTransfers` | a sub-warehouse has what its transfers say, never less than nothing |
| | `LockedCostIsKept` | no step but a calculation already under way changes a locked cost record |
| | `MaterialAddsUp` (`ManufacturingOrders`) | an order holds material exactly while in progress; available is what is not reserved |
| | `NothingOnTheShelfIsWrittenOff` (`CycleCounts`) | an approved variance does not write off what lies on the shelf |
| | `OnlyMissedEntriesAreStale`, `SingleFlight` (`ShortCache`) | an invalidation leaves nothing older behind but what was on its way; one producer per key |
| | `BatchesAddUp` (`Batches`) | the three ledgers agree but where an unchecked document parted them; goods under inspection are not for sale |
| | `FulfilmentIsTraced` (`Fulfilment`) | completed lists are picked, shipments under way have left |
| `back_office` | `GoodsMatchNotesAndBooks` (`SalesInvoices`) | stock, delivery notes and entries agree |
| | `PurchasesMoveGoodsOnce` (`PurchaseInvoices`) | a bill's goods come in once, with its entries |
| | `MoneyIsKept` (`BackOffice`, of both) | what is shown as paid was recorded and is no more than the document is worth; the credit limit is kept |
| | `GoodsAndCashAreTraced` (`Representatives`) | van, shelf and collections are what their movements say |
| | `VersionsAreKept` (`Synchronisation`) | no newest version is lost whose stamp is newer than the others; a quiet tick leaves both sites alike |
| | `LeavesAddUp` (`Leaves`) | payroll inputs count the approved days; nobody has two leaves on a day |
| `payroll` | `RunsEndComplete`, `PeriodKeepsARun` (`PayrollRuns`) | as above |
| | `AttendanceAddsUp` (`Attendance`) | logs follow punches and leave, nobody punches on a hard leave unless it was restored, and what is charged of a day or forgiven is no more than the lateness or what was not worked, whichever is more |
| | `StaffAddsUp` (`Employment`, `Salaries`) | pay is what was entered and raised, one payout per employment, seats within capacity, charged while employed |
| | `ClaimsSettleOnce` (`Payslips`) | an advance, penalty or bonus is in one month's slips; what was trashed can be restored; receipts name the month's run |
| | `PayAddsUp` (`Payslips`) | items are what the books say unless they changed since, without the fares where these could not be computed, totals those of the items, pay the sum of its days, and a settlement at the month's end what the slip pays |

The comment at each property names what it excepts, always as something that has happened, which a history
variable records; the hazards in `PROJECT.json` say which line of the code needs the exception. Five properties state what a comment or test promises without exception, and their runs fail: `PROJECT.json`
quotes the line each contradicts. For the properties that hold, `mutants` names a change to a modelled definition
that breaks each.

### Bounds, and why they are enough

The composed runs take components that share no row a property is about, so a behaviour runs one of them
(`part`), and the number of states is the sum of the components' and not the product. `left` is how many
requests may still begin.

The stock hazards need two transactions that touch the same one or two rows: two requests and two rows, with
calls in either order, give every lock order, every deadlock and every interleaving of check and write; the
three transactions of `inventory` allow a race to be set up and followed up. The sales and purchasing hazards
need two overlapping requests and one or two to set them up (confirm, adjust, deliver; receive, receive,
retry), hence four. A third concurrent request adds waiting but no new pair of statements. A second order is
there because one order's damage shows in the other's reservation.

- `factory`: a batch of two stages, quantities 0 to 2, six requests (start and complete both stages, and two
  that overlap or return one), from all sub-warehouses or all but that of finished goods, which may be set up at any
  time; two orders, five requests, for two units of material more than either place has;
  two counts of three units, five requests; two keys under one prefix, one write, two seconds, which are two
  lifetimes; two lots on two places, two documents, three requests beyond the arrival, and of putaway tasks one at
  most, of the first lot or of none, out of the dock; a pick list of two lines and a shipment, four requests.
- `back_office`: two invoices of a customer with a limit of three, five requests; one bill, six requests; one
  van and two sales, four requests; two rows on pages of one, an overlap of two, a delay of one, five writes,
  failures or ticks and three units of time; two leaves, two employees, days in two months, three requests.
- `payroll`: two calculations, one of them possibly a job of two attempts, and two batches cover
  every pair of actors the code has; one decision, deletion or crash; no stall, which `payroll_queue` has
  (`PersonnelProofs` has no bound on these). For attendance, a night shift from slot 3 to slot 1 of six, instants before, in and after it, three
  punches of two days and two requests with their calculations, from no punch or one, and with no leave or a removed sick
leave; two rows of leaves on a day, which is what it takes to restore one over the other. For salaries, two
  employees, two amounts, three requests. For employment and buses, two employees of whom one may have left and
  one rides, two buses, two months, three requests.
  For payslips, two months of four days with a rest day, two employees, one claim of one amount, three inputs
  (nothing, money, attendance and the fare), receipts signed for the first month, three requests; and as initial states alone, 19,456
  months of punches and leaves of one employee (a leave that began in the month before or ends after it, by the hour or not, days off,
  early and late departures), on which the arithmetic is compared with the sum over days.
- `payroll_queue`: two crashes in one job, so that a retry is itself cut short.

Two requests overlap in every run; where the code has sequences of three requests that matter (record, approve,
approve again; leave, settle, return), the requests suffice for them and one that interferes.

### Fairness

`TransactionsEnd` assumes strong fairness of each transaction's statements, and weak fairness of its commit and of the
deadlock detector (`StockFairness`). Strong, since a row may be locked again and again while a statement waits for it:
PostgreSQL queues those who wait for a row and gives it to each in turn. Node runs a handler whose query has been answered,
and PostgreSQL ends deadlocks after `deadlock_timeout`. Nothing is assumed of `Interrupt`.
`JobsGetDone` assumes that a process that is alive goes on, that the queue's checker notices the job of a dead
worker (BullMQ's stalled check), and, as strong fairness, that a waiting job is taken when a worker is
free again and again: the worker is a process of its own (`payroll-worker.ts`), which in the model is one
of the processes that also run requests. Nothing is assumed of crashes, exceptions or users. The other modules
state no liveness: their handlers end by answering or throwing, and nothing waits for them.

### Refinement

`TransactionsAreAtomic` is `AtomicStock`'s specification under the mapping that hides uncommitted versions:
whatever happens between a transaction's statements, the committed rows change as if it ran alone at its commit.
The on-hand check of a deduction is no part of it, since it may have seen older rows. `UsesInventory` says that the steps of `SalesOrders` are
steps of `Inventory` or leave stock alone.

## 4. What is proved

Each theorem holds for every value of the constants; what it assumes of them are the `ASSUME`s of the module it
is about. None of the properties is inductive: each proof has an invariant that is, shows that the initial
states have it and that every action keeps it, and concludes with `PTL`.

**`InventoryProofs`**, for any rows, requests, opening stock and scripts:
`InventoryTypeOK` (no column of a stock row is ever negative), `ReservationsReconcile` (`reserved` is what RESERVE
and RELEASE movements add up to), `OnHandReconciles` (quantity never falls below what the movements account for;
it may exceed it, which `inventory_snapshot` shows), `AvailabilityIsKept` (available is never below quantity -
reserved). The properties speak of committed rows, but a commit copies uncommitted ones, so `Inv` adds that
every version is *sound* (its columns are naturals and the three relations hold of it). The lemmas say of each
function of `StockRow` that it keeps a row sound, whatever the amounts; each action leaves a row, copies a sound
one or applies one of these.

`InventoryIsAtomic`: `StockSpec => TransactionsAreAtomic`, the refinement. `Executed` says of a transaction under
way that the calls it has still to make are the rest of its script, and that the rows it has locked differ from the
committed ones by what the calls made so far have moved and held; `SalesProofs` and `PurchasingProofs` rest on
it. `Replayed` says more: the locked rows *are* what those calls make of the committed rows, each call having
been possible when it was replayed, so that the commit is one step of `AtomicStock` and every other step a stutter.
It needs that a check past its first statement is of a deduction (`ChecksDeduct`), and that only the owner of a
lock may change the committed row.

**`Sums`**: what a sum over a finite set does when a term is added, changes, moves, cancels another, when
only some of the terms count, when all are multiplied or alike, and when the set falls into groups. The induction is over the smallest counterexample, since the library's induction
theorems cannot be used: a sum is unfolded along a chain of subsets (`SmallestSubset`, `SumUnfolds`).

**`SalesProofs`**, for any orders, rows, item lists, payments and requests: `SalesTypesHold`,
`StockHasFollowedOrders`, `OrdersHaveAddedUp`, `OrdersLiveInOrder` and `SalesDriveInventory`. `StockFollowsOrders`
sums over all orders and is not inductive. `SalesInv` says for each request what its transaction has done so far
(`RequestsAreSane`, with `Executed`) and that what it has read still holds unless a second one has overlapped on its
order (`UpToDate`); and for each order what is reserved for it (`Backing`, which chooses a share for every order so that
a cancellation stopped midway may keep any part) and what has left for it (`Shipping`). A commit then changes
one term of each sum. `SalesDriveInventory` assumes `SalesScripts \subseteq Scripts`: that the transactions
`Inventory` is given are those the orders run, among others.

**`PurchasingProofs`**, for any orders, deliveries, receipt numbers and requests: `PurchaseTypesHold`,
`ReceiptsHaveBeenKept`, `StockAndLinesHaveMatched`, `OrdersHaveFollowedReceipts` and `PurchasesDriveInventory`. The
invariant has again what each receipt's transaction has done so far (`RequestsAreSane`), the locks on orders and
numbers that keep receipts apart (`ReceiptsExclude`), what a request has read (`UpToDate`), and the `Books`:
received quantities and stock are what the committed receipts brought. An edit that inserts and deletes lines
keeps them because a line that a receipt names stays in its place. `PurchasesDriveInventory` assumes
`PurchaseScripts \subseteq Scripts` likewise.

**`FactoryProofs`**. *ShortCache*, for any keys, prefixes, calls and lifetime: `OneProducerPerKey` and
`InvalidationsAreThorough`. A stored entry comes from a call and a call from what it read, so `CacheInvariant`
says of both levels and of every call what it shows or will store (`StoredIsShown`), and, while an invalidation
scans, that memory and the pages that are done hold nothing of its keys but what is known to be missed
(`ScanIsThorough`); versions that are cleared are versions that were written (`ClearedIsPast`).

*ProductionBatches*, for any batches, stages, warehouses, requests and quantities: `UnitsAreAccountedFor`,
`BalancesReconcile`, `LockedCostsKeepTheirFigures`. The invariant adds that a stage that is not completed has no
output (`OpenStagesHaveNoOutput`), that only batches that were finished without a warehouse for their goods are `unplaced`, and that a transfer holds the lock of its source, which still has what it
takes (`TransfersHoldTheirSource`); for the cost record, that a calculation under way while it is locked is known
to be (`CalculationsKnowLocks`).

*CycleCounts*, for any counts, requests and stock: `CountsWriteOffNoMore`. The approval posts an old
variance, so the invariant (`DifferencesCoverTheShelf`) says of each variance that may be trusted, recorded or in
a request's hands, that the shelf has no more than the book would show with it; goods that leave both, or the
shelf alone, keep that.

*ManufacturingOrders*, for any orders, finite set of locations, quantities and requests: `ManufacturingTypes`,
`MaterialAlwaysAddsUp`. What a request has read of an order holds unless a second reader has made the order `odd`
(`RequestsInvariant`), so that an order enters a status once and what it holds is what its status and its
consumption rows say (`OrdersStand`).

*Fulfilment*, for any lists, finite set of lines, shipments and requests: `FulfilmentTypes`,
`FulfilmentIsTracedAlways`. Transactions on one list hold no line between them (`LinesAreLocked`); of a list from which
nothing was taken back, none writes less of a line than is there or has counted more as done than will be
(`PicksGrow`); and a request alone on a list knows how it stands (`OneAtATime`). No request is about to write a status
that it must not (`JobsAreSane`), so a shipment that has left has its date (`ShipmentsHaveLeft`).

*Batches*, for any finite sets of lots and places, any documents and transactions: `BatchTypes`, `BatchesAlwaysAddUp`.
The ledgers disagree *within* a transaction, and two transactions interleave statement by statement. Each part of a
script, taken as a whole, changes a lot, its balances and the stock alike (`ScriptsAreSane`: the changes `Ahead` in a
part agree). `LedgersMove`: the committed amounts agree, and of every open transaction what it has changed together with
what is ahead in its current part does, except of lots and places that are `forced` (`AgreesBut`). A statement moves a change from the second of these to the first; a commit comes
when nothing is ahead, and a sum of amounts that agree agrees. `OwnersAreAtWork` says who may have changed a row,
`LevelsArePositive` that a conditional deduction has found what it takes, and `HoldsStand` that goods are held while an
inspection is open, also in the rows that are not committed.

*The factory*: `FactoryTypes`, for the joint specification `FactorySpec`.

**`PersonnelProofs`**. *PayrollRuns*, for any numbers of runs, processes, batches, attempts, stalls, crashes and
decisions: `RunsEnd` and `PeriodsKeepARun`. They rest on who may hold a run: the process that created it is alone
with it until it hands it on (`CreatorIsAlone`), one process at most computes it (`OneComputes`), as the owner of
its job or for a job that still waits (`WorkersOwnTheirJobs`, `InlineBeforeTheJob`), unless the run was doubled. Then
what is there is what that process has inserted (`ItemsAreWhatWasInserted`), a run that waits has somebody to end
it unless it is `abandoned` (`UnfinishedRunsWillBeEnded`), and cleanups that do not overlap are single
(`CleanupsAreSingle`).

*Salaries*, for any employees, amounts and requests: `SalariesAlwaysAddUp`, the part of `StaffAddsUp`
that is about salaries. The invariant adds that what a request has read is what there is, but for the employees
others have written about since (`SheetsAreSane`).

*Employment*, for any finite staff, any buses, capacities, months and requests: `StaffAlwaysAddsUp`, the
whole of `StaffAddsUp`. The steps of `Employment` keep the invariant of the salaries, a fresh start included.
Its own adds that what a request has read of an employee, a bus or the month is still so, unless another request
has marked it (`ErrandsAreSane`); that nobody is paid out while employed (`EmployedAreNotPaidOut`); that dates
are past ones (`DatesArePast`), and that a leaver's seat that ended this month ended with his employment
(`SeatsEndWithEmployment`). `OneBusEach` says `OneSeatEach` without counting. The riders of a bus are counted by
the library's theorems on finite sets, which is why `EmployeesAssumption` asks for a finite staff.

*Attendance*, for any employees, shift, instants, finite set of punches and requests: `AttendanceTypes`,
`AttendanceAlwaysAddsUp`. `LooksHold`: the leave or punches a request has looked for still are as it found them on days
that nobody `rushed`, as a restored leave does. `DayIsRight`: the calculation of a day that is not in doubt is alone and what it has read is so, and
with none under way the logs are due. Whatever touches a day's punches starts a calculation or puts the day in doubt;
rows of the trash keep their employee (`RowsKeepTheirOwner`), so a restored punch is of the day it is looked for. That
nothing is charged twice holds for any set of punches, whatever `Pairs` makes of them, and needs no induction over them.

*The personnel*: `PersonnelTypes`, for the joint specification `PersonnelSpec`.

**`PayslipsProofs`**, for any finite sets of employees and claims, any days, leaves, rates, inputs, months and requests.
`ClaimsAreSettledOnce`: a claim is *seen* in a month if its row, an entry of the trash, a request's letter, the books
a calculation has read or an item counts it there. `SlipsInvariant` says that a claim nobody moved is seen in one month
(`SeenOnce`) and that one that is seen is in its table or in the trash (`SeenIsKept`); no step shows it in another.

`PayAlwaysAddsUp` has two halves. `SlipsAreCurrent` and `TotalsMatchSlips` are about steps: `PayInvariant` says that the
items of the calculation in progress are those of the books it read, its totals their sums (`WorkIsCounted`), that these
books are the present ones unless the month is `unread` (`WorkIsCurrent`), and that no calculation is of a completed
run (`WorkIsOpen`), so that a retry starts from nothing. `PayIsOfTheDays`, `MoneyLeavesAttendance` and
`SettlementIsTheSlip` hold of any tables: each part of the calculation is a sum over the days that have it, hence over all
days of the month; leaves that are clear split their days among them (`SumByGroups`), and the sum of the parts is the
sum over days of `DayHalves`. The proof needed `LeavesAreClear` to say that an hourly sick leave is of one day, see
Section 5.

**`BackOfficeProofs`**. *Both invoices*: for any finite set of invoices, any bills, lines, amounts, limit and requests.
*Purchase invoices*: `GoodsHaveComeInOnce`, `PaymentsWereRecorded`. `PurchaseInvoicesInv` says of each bill what
its goods, books, costs and payments show, and more where nobody has disturbed it (`UndisturbedBill`, `BillOK`);
of each request that what it has read still holds then (`ReadByBuyer`), and that two requests past their checks
are not on one undisturbed bill (`BuyersApart`). *Sales invoices*: `GoodsFollowInvoices`, `InvoicesAreNotOverpaid`,
by `InvoiceOK`, `ReadByClerk` and `ClerksApart` in the same way, with sums over an invoice's delivery notes. That
the customer stays within the limit is a sum over all invoices: a posting that was granted fits beside what the
others owe, and every other step leaves each debt or lessens it, unless two postings checked at once (`rushed`) or
requests on one invoice overlapped.

*Representatives*, for any requests, items and opening stock: `VanAndSalesAreTraced`.
`RepInv` says that an open transaction's version of the van's and of the shelf's row differs from the committed one by
what the transaction has moved (`VanPending`, `ShelfPending`), that whoever has changed a row holds its lock, and that
a sale being written holds the lock of the numbers. `BasketsAssumption` leaves out the request without items, which
changes nothing.

*Synchronisation*, for any rows, page size, delays and numbers of ticks, failures and late commits:
`NewestVersionsReachBoth`. `SyncInv` says that a version committed late lies in the window of the next tick
(`PendingInv`, of rows that are not `misstamped`; this is where `OverlapAssumption` is needed: the overlap exceeds the longest write and tick
together), that a version a tick has not copied yet is on its page or comes after it (`PageInv`, `TickInv`), and
that in a calm tick the phases that are done have copied everything (`CalmInv`).

*Leaves*, for any finite set of leaves, any employees, months, spans and requests: `LeavesCountOnce`. `LeavesInv` says
that a month's input is the total over all rows of what each counts for there (`InputsAreTotals`), so that a
request that takes an old effect back and adds a new one changes one term; that approved rows of an employee are
apart (`LeavesApart`); and of each request in progress that the row it changes has not vanished, that the
rows it creates are new and nobody else's (`NewsApart`), and that whoever it has looked for is still free on those days
unless he is `overlaid` (`DeskOK`).

*The office*: `MoneyIsKeptByBoth` and `OfficeTypes` combine these for the joint specification `OfficeSpec`: the
components share no row that a property is about, so that it is their conjunction, in which they may also move at once.

Every invariant and every safety property of a step that a passing run checks is a theorem. Only model-checked:
liveness (`TransactionsEnd`, `JobsGetDone`), which is outside what the prover does; and what recursive functions
compute beyond what the proofs need of them (how `Pairs` pairs punches), on the instances of the runs.

## 5. Limits

What the modelled components leave out:

- `deleteProduct` removes stock rows; the theorems of `InventoryProofs` concern rows that only
  `InventoryService` moves, which production orders and representatives do not respect (they have their models).
- Prices, costs and order numbers, except where a property is about a total; CRUD of suppliers, customers,
  representatives, places; settlements of representatives; waves and packages; statuses of variants; the
  status a sales invoice sets on its order.
- `Batches`: corrections and counts are of lots at places where they are booked, and the product is moved only by
  documents that name batches, and by putaway tasks. `reserveWithin` and `releaseWithin` of batches are never called.
- `Purchasing`: a posted bill raises the received quantities of the purchase order it belongs to and may set its status
  (`purchase-invoices/purchase-invoices.service.ts:505-523`). `PurchaseInvoices` counts that in `credited`; that an order
  is received by a bill and by receipts is not covered.
- `Synchronisation`: one clock, of which a stamp may lag behind by the longest write; and a write commits and a tick ends within the overlap (`OverlapAssumption`);
  the code measures neither. Tables without `updatedAt` are copied whole and left out.
- `Leaves`: payroll's own `upsertInput`, which overwrites the day counts with what a client sends, is an action
  of `Payslips` and not of `Leaves`.
- `Payslips`: one calculation at a time; approval and deletion of runs (`PayrollRuns`); the bus share is a
  constant of the employee; cents; anomalies, summaries, exports. The equation of pay and days is about employees
  with one leave a day.
- `Attendance`: manual daily logs, moving a punch to another employee, the time zone of device readings.
- `Employment`: creation and fields other than status, settlement and salary; the check for managed departments;
  dates other than the current day's; the history rows of terminations; bonuses deleted with a bus's plate
  number; daily bus attendance; the amounts of the shares.
- One tenant; access control is out of scope. Amounts are unbounded integers; the columns are 32-bit integers
  or decimals, which a factory's stock does not reach. Lock waits and timeouts are untimed: a transaction may be
  aborted at any point.

Not modelled, with the reason in `PROJECT.json`: products, categories and warehouses; customers; accounting's
own entries; the average cost; document numbers; places; authentication and tenancy;
entitlements; backup; webhooks; imports, files, dashboards, pricing. They are CRUD of single rows, I/O or
conversion, and no property of more than one step is about them.

Where the code and its comments disagree besides the five runs, or an error is passed over, met while modelling; the
properties name each as an exception or the model follows the code:

- `payroll/payroll.service.ts:1734-1746`: `markPayrollRunFailed` logs an update that fails, and the run stays in processing.
  2264 and 979 log a failing computation of bus fares, and the run or settlement goes on without any.
- `manufacturing/production-batch.service.ts:1195`: no warehouse of that code, no transfer, and no error.
- `locations/locations.service.ts:531`: the `updateMany` at the source of a putaway may match no row; 540 adds to the target
  all the same.
- `cycle-counts/cycle-counts.service.ts:123-131`: a variance is measured against the book of when counting began; goods
  that a document takes out before their line is counted are missing on the shelf too, and are written off again.
- `sync/sync.service.ts:427`: the newer `updatedAt` wins, but stamps are taken before a row is locked
  (`inventory/inventory.service.ts:486`, Prisma's `@updatedAt`).
- `leaves/leaves.service.ts:650`: an update takes the old effect back from the employee of the *new* row.
  `restore` (685) looks neither for overlapping leaves nor for punches (excepted in `LeavesAddUp` and `AttendanceAddsUp`).
- `attendance/attendance-aggregation.service.ts:767`: the logs of a day are replaced for "idempotent re-run
  support", but overtime that a recalculation no longer finds stays (668-687).
- Attendance: punches typed `check-in`/`check-out` by devices count neither as IN nor as OUT; uploads, removals,
  restorations and leave decisions start no calculation; a delay may exceed the shift for whoever arrives after
  its end.
- `transportation/transportation.service.ts:886-904`: a stale subscription of a leaver is to be "excluded
  ENTIRELY"; ending it this month charges him (969, 978). Line 1055 says that who resigns in mid-month pays the
  full share; `terminateEmployee` deletes the seat that says so, `bulkTerminateDepartment` leaves it.
- `payroll/payroll.service.ts:2285-2302`: the base of who came or left during the month is prorated, and
  divided by equally prorated days: a day of his is worth what everyone's is. `OVERTIME_MULTIPLIER` is 1.5 where
  a comment near line 801 says 1.0. Line 634 says that present days leave out Fridays; the code leaves out
  Saturdays too, while absences leave out Fridays alone. An hourly sick leave takes the whole day from the present
  days, and one of several days, which nothing forbids (`leaves/leaves.service.ts:143`), is paid the hours of one
  (`payroll/payroll.service.ts:107`), and other hourly leaves pay a whole day. A public holiday that nobody works (`OTHER`) is paid nothing,
  although line 731 says that the normal day is covered. The fallback for an hourly `OTHER` without an end is
  never taken, since `endTime` is not selected.
- The settlement of a leaver reads a day more at both ends, charges lateness on Fridays and every earlier
  advance and penalty, does not prorate, and ignores inputs; `PayAddsUp` states when it equals the slip all the
  same. No calculation lowers an advance's `remainingAmount`. A restored bonus that has no period becomes
  one of the current month. Receipts stay received when their run is recalculated, and name none then.
- `employees/employees.service.ts:1433`: a rehire "starts FRESH", but the mirror column keeps the old salary, to
  which `resolveSalary` falls back.
- `bonuses/bonuses.service.ts`: a salary increase moves the mirror alone, and the record wins;
  `trash/trash.service.ts`: a permanent deletion deletes the record of the employee even if it was entered again
  since, and a restored record leaves the mirror.

## 6. Plan

What is left is to model more; each of these has its theorems to extend, in the module named.

1. Manual daily logs and the move of a punch to another employee, in `Attendance`.
2. Payroll's `upsertInput` in `Leaves`, and the leaves of `Leaves` as those of `Payslips` (`LeavesApart` is the
   condition of one leave a day).
3. The average cost in `PurchaseInvoices`, with quantities as the weights.
