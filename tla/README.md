# LCA ERP: a verification of its concurrent core

The repository is the ERP of a car dealership group: a Node/Express server
(`src/backend-node`) over MySQL/InnoDB, and a React client (`src/frontend`).
The server keeps nothing in memory that matters: every operation is an HTTP
handler that runs one database transaction, beside other handlers of the same
process and of others. What can go wrong is therefore what happens *between the
statements* of a transaction, or between the row a handler reads first and the
transaction in which it writes; in the client, what happens between a request
and its answer; and at the start of a server, what a crash leaves behind. This
directory models that in TLA+, checks it with TLC on small instances and proves
the main results with TLAPS.

| Section | Modules | Part of the program |
|---|---|---|
| 3 | `Treasury`, `CashLedger`, `MCTreasury`, `TreasuryProofs` | cash, reservations, disbursements, refunds |
| 4 | `Budgets`, `Envelope`, `MCBudgets`, `BudgetsProofs` | budgets, extra funds, expenses |
| 5 | `Migrations`, `Upgrade`, `MCMigrations`, `MigrationsProofs` | the start of a server and the upgrade of the schema |
| 6 | `Sessions`, `MCSessions`, `SessionsProofs` | sessions, from the server to the tabs of a browser |
| 7 | `Sales`, `Handover`, `MCSales`, `SalesProofs`, and `SumTheorems` for the proofs of sections 3, 4, 7, 8 and 9 | sale, invoices, delivery and return of a car |
| 8 | `Workshop`, `MCWorkshop`, `WorkshopProofs` | repair orders, parts, working sessions, warranty |
| 9 | `Purchasing`, `Payables`, `MCPayables`, `PayablesProofs` | parts stock, purchase orders, receipts, supplier invoices, credit notes and payments |

## 1. Inventory

| Component | State it keeps | Operations | What is hard | What makes it correct | Status |
|---|---|---|---|---|---|
| Treasury accounts and movements (`modules/treasury/treasury.service.ts`, `treasury-flow.service.ts`) | `treasury_accounts.is_active`, append-only `treasury_movements`, `treasury_transfers` | manual operation, movement of a payment, refund, disbursement, transfer, reversal, closing and opening an account | sums read by plain SELECT under REPEATABLE READ; two accounts locked in id order; retries with a request id | cash is never spent twice nor reserved cash spent; each request counts once; both legs of a transfer | `Treasury`, partly |
| Reservations and coverage (`treasury-coverage.service.ts`) | `treasury_reservations` (8 states) | create, submit, approve, reject, withdraw, expire, adjust, release, consume | four-eyes rule, capacity of an account *and* of an expense, two lock orders | no over-reservation; ended reservations stay ended | `Treasury` |
| Budgets, extra funds, expenses (`modules/hr/hr.routes.ts`) | `budgets`, `budget_fund_requests`, `budget_fund_movements`, `budget_expenses` | create, correct, submit, approve, reject, reopen, cancel, close; ask for and decide extra funds; draft, submit, approve, reject, cancel, disburse an expense | approvals race each other, closure and cancellation; rows locked in two orders | no budget is overspent; closing leaves nothing to decide or to pay | `Budgets`, partly |
| Billing (`modules/billing`) | invoices, payments, refunds, credit notes, `document_sequences` | issue, pay, refund, credit, cancel | balances partly recomputed, partly updated in place; archive after commit | what is due is what the payments, refunds and credit notes add up to | `Sales`, `Treasury`, partly |
| Supplier invoices and payments (`modules/parts/supplier-finance.routes.ts`) | supplier invoices, credit notes, payments of the linked expense | capture, edit, submit, validate, reject, cancel, engage on a budget, pay by two routes, reverse, credit | compared once with receipts that go on; credits decided on a balance read before the locks | what is billed was delivered; no invoice is paid and credited beyond its total | `Payables`, with `Budgets`, `Treasury` |
| Remunerations (`modules/hr/hr.routes.ts`) | documents tied to expenses by `budget_expense_id` | prepare, validate, engage on a budget | two requests engage one document | one expense per document | `Budgets`, partly |
| Sales (`modules/sales`) | sales, warranty contracts, vehicle status | create, advance, cancel, edit the warranty | status checks outside the transaction, vehicle shared with showroom and deliveries | one live sale per car | `Sales` |
| Deliveries (`modules/deliveries`) | delivery status, checklist, documents, signature, authorizations | plan, prepare, reschedule, sign, cancel, authorize an unpaid delivery | signature races rescheduling, services and withdrawn invoices | one handover per sale, and it is covered | `Sales` |
| Vehicle returns (`modules/vehicle-returns`) | return rows, deductions | request, inspect, approve, settle, receive, decide on the stock, close | the settlement spreads over invoices already credited in part | what the firm keeps is what was deducted | `Sales` |
| Vehicles and showroom | vehicle status, test drives | receive, reserve, change by hand | status written from an old view | one holder per vehicle | `Sales`, partly |
| Workshop and warranty (`modules/workshop`) | repair orders, estimates, interventions, sessions, lines, controls, claims | receive, inspect, diagnose, estimate, approve, reserve, consume, plan, work, control, invoice, hand over, cancel, abandon; warranty decision, shares, confirmation | most handlers read the order before their transaction; technicians, bays and stock are shared by the orders | nothing is left on an order given up; a claim is what the lines share out | `Workshop`, partly |
| Parts stock (`modules/parts`) | `part_stocks`, `part_movements`, purchase orders, receipts | count, adjust, return, transfer, order, send, receive, cancel; the workshop reserves, consumes, returns | one row, many writers; requests look for their key before they lock | stock is what its movements say and covers what was promised; no line receives more than ordered | `Purchasing`, `Workshop` |
| Authentication (`modules/auth`, `middleware/authenticate.ts`) | `refresh_tokens`, `users.is_active` | log in, rotate, log out, deactivate | racing rotations, answers lost | a token is exchanged once | `Sessions`, partly |
| Frontend (`services/apiClient.ts`, `stores/authStore.ts`, `AppBootstrap.tsx`) | tokens in `localStorage`, generation and refresh in flight of each tab | call, refresh, log in and out, change agency, reload | answers that come after what they were for is gone | no session comes back; no call is forgotten | `Sessions`, partly |
| Migration runner (`scripts/mysql-migration-runner.ts`, `database-bootstrap.ts`) | `schema_migrations`, `schema_migration_steps`, the schema | classify, baseline, pending files under `GET_LOCK`, recover | DDL commits by itself; crash between a statement and its journal entry | each statement once; a server serves only a complete schema | `Migrations` |
| Database access (`config/database.ts`) | bounded pool | transaction, retry on deadlock | locks, snapshots, deadlocks; nested pool requests | every request ends | in all, but the pool |
| Bank reconciliation, quotations, customers, CRM, users and scopes, documents and archives, marks, settings, notifications, reports | mostly single rows | CRUD, best effort, read only | little | – | not modelled (section 12) |

How they interact: handlers call services in the same transaction (billing and
supplier payments call the treasury; deliveries read invoices and sales); all of
them share rows of one database, and the shared rows (a treasury account, a
budget expense, a reservation, an invoice, a vehicle, a sale, a stock row) are
where they meet. Notifications and archives come after the commit. `PROJECT.json`
lists every component with its files and, under `hazards`, every hazard with its
line and the property that covers it.

## 2. Plan

Written, in this order: the cash core and the database it runs on (`Treasury`,
against `CashLedger`); budgets (`Budgets`, against `Envelope`); the start of a
server (`Migrations`, against `Upgrade`); sessions (`Sessions`); the life of a
sale, across five modules of the server (`Sales`, against `Handover`); the
workshop (`Workshop`); parts from their order to the payment of their invoice
(`Payables`, which extends `Purchasing`). All seven are proved about, each in
a module of its own; `SumTheorems` holds what the proofs need of sums over rows.

Two ways of modelling a transaction are used. `Treasury` and `Budgets` model the
statements of each transaction, its locks and its snapshot, because their
handlers decide on sums that no single row carries. In `Sales`, `Workshop`,
`Purchasing` and `Payables` a handler that locks the rows it decides on is one action, and a handler that
decides on a row read before its transaction is two, the read and the write,
with anything in between: which handler is which was read off its SELECTs.

Left for later: document numbers and archives; the bounded connection pool;
two-factor challenges; bank reconciliation.

In this directory 12 runs are listed in `PROJECT.json`; the configurations of
section 10 that are not listed there are run by hand and end with the
counterexample described.

## 3. Treasury

### State and actions

| Module | Code |
|---|---|
| `isActive`, `approval` | `treasury_accounts.is_active`, `budget_expenses.approval_status` |
| `ledger` | `treasury_movements`; a movement's id is the unique key the schema gives it (client request, payment, refund, leg of a transfer, reversed movement), so "already posted" is "in the domain" |
| `reservation` | `treasury_reservations`, named by (creator, client request) |
| `balance`, `reserved`, `engaged`, `paid` | the sums the code computes with `SUM(...)`: posted movements per account, ACTIVE reservations per account and per expense, standing disbursements per expense. `OnceOnly` ties them to the rows |
| `lock` | InnoDB row locks, held to COMMIT or ROLLBACK |
| `sharing` | the workers that hold the concession row in shared mode, as the parent of a row they inserted |
| `work` | one record per connection: its call, the statement it is at, its snapshot |

An operation is its *plan* (`Plan(c)`): the rows its statements lock, in the
order of the code, and the place of its first plain SELECT. InnoDB takes a
transaction's snapshot at that first plain SELECT, and every later plain SELECT
reads it; `SELECT ... FOR UPDATE` reads committed rows. `Begin`, `LockRow` and
`OpenView` walk the plan. After it come the rows found by scanning (`Scanned`:
the ACTIVE reservations `postMovement` locks). A disbursement asked with the scope
`CONCESSION` begins with a sub-select in its first locking statement
(`treasury.service.ts:811-826`, at `:871`), which opens the snapshot once the
expense is locked, before the concession and the account are
(`ReadsScopeFirst`). A guard is evaluated as soon as
what it reads is known; `Refuse` is the `HttpError` and its rollback, `Replay`
the answer to a request already served. Then one action per operation
(`ManualOperation`, `BudgetExpenseDisburse`, `MakeTransfer`, `Reverse`,
`ReverseTransfer`, ...) does all its writes and commits. `Crash` is the loss of
process or connection, `DeadlockVictim` InnoDB's rollback of one transaction of
a cycle (`treasury` never retries it).

An INSERT takes a shared lock on the parent rows its foreign keys name.
`ShareConcession` is that lock where it matters, on the one concession row that
collections, disbursements and new reservations lock exclusively: a manual
operation takes it with the INSERT of its document (`treasury.service.ts:728`,
`migrations/mysql/057`), before it looks for reservations; refunds, transfers,
reversals and changes of status take it last, with their audit line, the account
still held.

Sending a call again, at any time, by any worker, is always possible: a retry is
a second `Begin` of the same call.

`CashLedger` is what all this should amount to: a ledger where each deposit,
withdrawal, transfer, setting aside and spending happens at once, on the sums of
that moment; but a client that has looked at the balances before (`Look`) may
take, once, what they left then (`WithdrawLate`, `MoveLate`, `SpendLate`). Those
are the requests of the code that read before they lock, `StaleReader`: a refund
(its invoice is read first), a reversal asked on the debit leg of a transfer
(`treasury.service.ts:1500`) and a disbursement with the scope `CONCESSION`.

### Properties

| Property | What it says |
|---|---|
| `TypeOK` | types |
| `FreshView` | while an operation decides, the balance and reservations of the account it debits are those its snapshot shows (a `StaleReader` excepted); part of the inductive invariant |
| `FreshPaid` | a disbursement in progress never underestimates what is already paid |
| `OverspentOnlyLate` | the cash of an account, less its ACTIVE reservations, falls below zero, or further below, only in the commit of a `StaleReader` that debits this account: no other interleaving of outflows, reservations, consumptions and reversals overspends |
| `OnceOnly` | every request, payment, leg and reversal is counted once |
| `PaidWithinCost`, `RefundsWithinPayment` | an expense is not overpaid; refunds do not exceed the payment |
| `LedgerShape` | both legs of a transfer, and of its reversal |
| `ReservationShape`, `NeverRevived` | life of a reservation |
| `ImplementsCashLedger` | refinement of `CashLedger` |
| `DeadlocksAgainstOrder` | every cycle of waiting transactions has in it a call that locks against the order of the others (`AgainstOrder`: one about a reservation that exists, the cancellation of an expense, a disbursement that names a reservation of another account, a reversal that takes the higher of two account ids first), or both a call that locks the concession before its account (`ConcessionFirst`: collect, disburse, reserve) and one that shares it after (`ConcessionLast`: manual operation, refund, transfer, reversal, change of status) |
| `EveryRequestEnds` | liveness |
| `Solvent`, `OnlyApprovedPaid`, `EngagedWithinCost`, `NoReservationOnCancelled` | promised by messages or documents, broken by the code (section 10) |

### Runs

Two workers in every run: the code has no rule that involves three
transactions, and a lock cycle needs two. Accounts {1, 2} (ids are numbers
because transfers lock in id order) open with 2 and 1; the one expense costs 2.
Amounts of 1 and 2 make "enough", "exactly enough" and "not enough" all happen.
`TransferId` bounds the transfers to one; `Call`, the set of calls clients may
send and repeat without limit, differs per run and bounds everything else, since
a request id can be posted once. Deadlock checking is on in every run.
`reservations` and `outflows` are checked up to a permutation of the workers
(`SYMMETRY`): nothing tells one database connection from another, and they check
safety only. `TypeOK`, `FreshView`, `FreshPaid`, `LedgerShape` and
`ReservationShape` are not run: they are conjuncts of the invariant proved below.
(The same goes for `TypeOK` of every module: a proof shows it, and no run
repeats it.)

| Run | Calls | Shows |
|---|---|---|
| `reservations` | one reservation of 2, which an adjustment may lower to 1, all its operations, a disbursement with the scope `CONCESSION` that consumes it in part or whole, an outflow, a payment collected on the same account and its refund, cancellation of the expense | `OverspentOnlyLate NeverRevived DeadlocksAgainstOrder` |
| `outflows` | manual operations on both accounts (one request id used with two contents), disbursements by both routes, one of each scope, a transfer, reversals, of the transfer from both legs | `OnceOnly PaidWithinCost ImplementsCashLedger` |
| `locks` | a payment, two refunds of it under two keys and an outflow they can be short of; a transfer and the closing and opening of an account; the reversals of the transfer asked on its debit leg and on its credit leg, which take the two accounts in opposite orders and can deadlock | `RefundsWithinPayment EveryRequestEnds`, under fairness |
| `late_disbursement` | the few calls the counterexample needs | `OnlyApprovedPaid`, section 10 |

Fairness (`FairSpec`, used by `locks` and, with the same meaning, by
`budget_life`): strong fairness of a worker's own
steps, because InnoDB grants a lock to its waiters in turn, so a worker whose
lock is free again and again gets it; weak fairness of `DeadlockVictim`, because
InnoDB detects every cycle. The handlers never wait for their client inside the
transaction. There is no fairness on `Begin`: nobody has to send anything, and
none on `Crash`.

### Proofs (`TreasuryProofs`)

For every set of workers, accounts, expenses, reservations and calls that
satisfies `TreasuryAssumption` (well-formed calls, natural opening balances and
costs):

| Theorem | Statement |
|---|---|
| `Invariance` | `Spec => []IInv` |
| `TypeCorrect`, `ViewsStayFresh`, `ReservationsKeepShape` | `TypeOK`, `FreshView`, `ReservationShape` |
| `ReservationsNotRevived` | `Spec => NeverRevived` |
| `ExpensesNotOverpaid` | `Spec => []PaidWithinCost` |
| `CashLedgerImplemented` | `Spec => ImplementsCashLedger` |
| `OnlyLateOverspends` | `Spec => OverspentOnlyLate` |
| `SumsTied` | `Spec => []Tied` |
| `CountedOnce`, `RefundsBounded` | `OnceOnly`, `RefundsWithinPayment` |
| `LocksAsked` | `Spec => []LocksExplained` |
| `DeadlocksExplained` | `Spec => []DeadlocksAgainstOrder` |

The argument. `FreshView` is not inductive: that a sum has not moved needs to
know that whoever moves it holds the account's row, so

    IInv == TypeOK /\ PlanFollowed /\ LedgerShape /\ ReservationShape
            /\ FreshView /\ FreshPaid

`PlanFollowed` says which rows a transaction holds at each statement. When
operation `w` commits, it changes the balance, the reservations or the payments
only of accounts and expenses whose row it holds (`Frame`); another worker that
has read a sum holds that row itself, and a row has one holder. Reversals of
disbursements are the exception: they lower `paid` without the expense's lock,
which is why `FreshPaid` is an inequality. `LedgerShape` and `ReservationShape`
keep plans stable: the account that a reversal or a reservation operation will
lock does not change under it. With fresh views the guard evaluated on the
snapshot is the guard of `CashLedger` on the current sums, and the decision one of
its `Prompt` steps; a `StaleReader`'s decision is one of its `Late` steps, `seen`
being mapped to the balances of its snapshot (`CashStep`). `OverspentOnlyLate`
follows on `CashLedger`'s few actions: a prompt step takes no account's free cash below zero
(`PromptInFunds`) and a late one touches only the account it debits
(`LateElsewhere`). The exception is not empty: `RefundOverdraft.cfg` and
`ScopedOverdraft.cfg` (section 10) each make one of them overspend.

`OnceOnly` says that the sums the code computes are those of the rows. `Tied` is
its inductive form: the tables are finite, and `balance`, `reserved`, `engaged`
and `paid` are sums over the rows that stand. A step writes one row, one and its
reversal, or the two legs of a transfer (`PostTwoTied`), each under an id that was
free; a row that a reversal takes out leaves the sum of its account and of its
expense at once. What is left to refund is not a sum any variable keeps:
`RefundsTied` compares, payment by payment, the sum of the refunds that stand
with the payment, and a refund adds to it only what the guard, evaluated on the
committed rows under the lock of the invoice, has found left (`RefundTied`).

`EngagedWithinCost`, that what is paid and set aside for an expense fits in it, is
false of the code (`TwoApprovals.cfg`, section 10), and nothing is proved of it.

`DeadlocksAgainstOrder` is the lock order of `docs/FIN-03-REPORT.md:23`, with what
the code takes away from it. Its proof has a third invariant. `LocksExplained`
says that a transaction holds nothing but what its plan asked for at a statement
it has passed or is at, and reservations it found by scanning an account it
holds, and that only a `ConcessionLast` call shares the concession
(`SharesExplained`); it stays true because a plan does not change under its transaction
(`PlanFollowed` again). If both groups of the property are present there is
nothing to show. If not, nobody waits for a shared concession: without
`ConcessionLast` calls it is never shared, and without `ConcessionFirst` ones no
plan asks for it (`ConcessionInPlan`), so that waits are for rows of `lock` only
(`RowsOnly`). Those are ranked: expenses and invoices, the concession, the
accounts by their ids. A call that is not `AgainstOrder`
asks for its rows in rising order and locks no reservation on the way (`InOrder`).
After its plan it may scan reservations, in any order; but then it holds their
account (`ScannerHoldsAccount`), so an account has one scanner, who could wait
for nobody but another scanner of the same account. What is left are
transactions inside their plans: along a cycle of waits the ranks of the wanted
rows would rise and come back to where they started, which the highest of them
forbids (`SumTheorems!Highest`: a finite set of workers has one).

Each exclusion is what the code does, and TLC shows four of them necessary by a
deadlock without the others: the cancellation of an expense, the operations on a
reservation, the two reversals of one transfer (`locks`), and the two groups of the
concession (a manual operation, which shares it holding its account, against a
disbursement, which waits for the account holding it). The fifth, a
disbursement that names a reservation of another account, is refused once its
rows are read, but locks them first; every disbursement takes the one concession
row on its way, so that two of them never meet at the reservations, and it is
the proof that needs this exclusion, not a deadlock TLC finds. Deadlocked
requests wait only until `DeadlockVictim` breaks their cycle: `locks` checks that
as `EveryRequestEnds`.

Only model-checked: `EveryRequestEnds`, because liveness under fairness is out of
the prover's reach.

## 4. Budgets

### State and actions

| Module | Code |
|---|---|
| `budget`, `request`, `expense` | the rows of `budgets`, `budget_fund_requests`, `budget_expenses`: creator, amount, status, and the document an expense was made from |
| `engagement` | `budget_expense_id` of a validated remuneration or supplier invoice |
| `funds`, `committed` | `SUM(amount)` of `budget_fund_movements` and of approved expenses; `TotalsMatchRows` ties them to the rows |
| `paid`, `reversed`, `reservation` | what the treasury does to an expense: standing disbursements, whether one was reversed, its reservation (none, DRAFT, SUBMITTED, ACTIVE) |
| `lock`, `work` | as in `Treasury`; `work` also keeps `spent`, the sum a locking SELECT returned |

The transactions are those of section 3, with one difference: a statement may
lock several rows, so a step of `Plan(c)` is a *set* of rows, taken in any order
(`LockRow`), and the statement returns when it has them all (`Return`). The
budget's row comes first or second in every plan, because every operation
on an existing budget reads it `FOR UPDATE`, directly (`budget()`) or through
`budget_expenses e JOIN budgets b ... FOR UPDATE`. One action per route decides
and commits: `SubmitBudget`, `CloseBudget`, `ApproveExpense`, `CancelExpense`,
`ApproveFunds`, `Engage`, `Link`, ...; `Refuse`, `Replay` (an invoice already
linked answers with its expense), `DeadlockVictim` and `Crash` are as in
`Treasury`. The treasury acts on an expense on its own: `ReverseDisbursement`
and the life of a reservation. `Disburse` is the disbursement route as far as
budgets see it: its request ids, accounts and cash are in `Treasury`.

`Envelope` is what a budget should be: a limit, set while nothing is spent, then
only raised, and commitments that stay within it.

### Properties

| Property | What it says |
|---|---|
| `TypeOK` | types |
| `WithinEnvelope` | approved expenses never exceed initial amount plus approved extra funds |
| `TotalsMatchRows` | each decision counts once in those sums |
| `ImplementsEnvelope` | refinement of `Envelope` |
| `NothingStranded` | a budget not yet approved has no expense; one no longer active has no draft expense and no pending request of funds |
| `ClosedOwesNothing` | the approved expenses of a closed budget are paid in full, unless a disbursement was reversed |
| `PaidWithinAmount` | an expense is never overpaid; not run, part of the inductive invariant (`Treasury` runs the same of its own disbursements) |
| `EngagedOnce` | a document has one expense at most |
| `DeadlocksAgainstOrder` | every cycle of waiting transactions has in it a closure, an approval or an engagement that holds its budget and asks for what belongs to it, and all its members wait for rows of that one budget |
| `EveryRequestEnds` | liveness |
| `NoneSubmittedAfterClosure`, `ConsistentLockOrder` | promised by a comment and a report, broken by the code (section 10) |

### Runs

Two workers and two users (a creator and somebody else: the four-eyes rules
compare two people). The founded budget (none in `budget_life`) has 2 to spend, documents are worth 2,
expenses 1 or 2, extra funds 1, so that "fits", "fits exactly", "fits with the
extra funds" and "does not fit" all happen. The ids left to insert bound the
creations, `Reversible` the reversals (one per expense of the set); every call
may be sent again without limit. Deadlock checking is on in every run;
`budget_envelope` and `budget_closure` are checked up to a permutation of the
workers, as in section 3.

| Run | Calls | Shows |
|---|---|---|
| `budget_life` | all operations of one budget, from nothing to its closure, by its creator and by somebody else; one document engaged on it and linked to it at once, its expense decided and cancelled | `EngagedOnce EveryRequestEnds`, under the fairness of section 3 |
| `budget_envelope` | two expenses of 2 and 1 on a budget of 2, decided and cancelled; extra funds of 1, decided twice | `WithinEnvelope TotalsMatchRows ImplementsEnvelope` |
| `budget_closure` | closure against an expense decided, paid by parts, unpaid, reserved for, and funds asked for | `NothingStranded ClosedOwesNothing DeadlocksAgainstOrder` |

### Proofs (`BudgetsProofs`)

For every set of workers, users, budgets, expenses, documents and calls that
satisfies `BudgetsAssumption` (well-formed calls, positive dues, active founded
budgets):

| Theorem | Statement |
|---|---|
| `Invariance` | `Spec => []IInv` |
| `TypeCorrect`, `EnvelopeRespected`, `DocumentsEngagedOnce`, `NeverOverpaid` | `TypeOK`, `WithinEnvelope`, `EngagedOnce`, `PaidWithinAmount` |
| `EnvelopeImplemented` | `Spec => ImplementsEnvelope` |
| `BooksSettled` | `Spec => []Settled` |
| `TotalsTrue`, `NoneStranded`, `ClosedBudgetsPaid` | `TotalsMatchRows`, `NothingStranded`, `ClosedOwesNothing` |
| `LocksAsked` | `Spec => []LocksExplained` |
| `DeadlocksExplained` | `Spec => []DeadlocksAgainstOrder` |

The argument. `WithinEnvelope` is not inductive: an approval compares its amount
with sums it read one and two statements earlier. So

    IInv == TypeOK /\ Sound /\ OneInserter /\ Shape
            /\ WithinEnvelope /\ EngagedOnce /\ PaidWithinAmount

`Sound` says, for each worker, which rows it holds at each statement
(`BudgetHeld`, `RowHeld`), and that what it has read is still so
(`SeesApproved` for the sums of a budget, `SeesPaid` for the payments of an
expense). `OneInserter` is AUTO_INCREMENT: no two transactions insert one id.
`Shape` keeps plans stable: an expense stays on its budget. When a worker
commits, it changes the sums of a budget or the payments of an expense only
while it holds their row (`Frame`), and so disturbs nobody who has read them; a
reversal, which holds neither, only lowers `paid`, and `SeesPaid` is an
inequality for that reason. Each step keeps `IInv` and is a step of `Envelope`
or none of its business (`Kept`), from which the refinement follows.

A closure locks the expenses of its budget, then rows of two more tables, and
reads what is paid before it writes. So `ClosedOwesNothing` needs to know what a
closure under way can still rely on:

    Settled == Tallied /\ (\A w \in Worker : Closing(w))
               /\ NothingStranded /\ ClosedOwesNothing

`Closing` says that a worker closing a budget holds the row of every expense the
budget has, since inserting one takes the budget's row, which it also holds; and
that what it has seen of their payments is still true, unless a disbursement was
reversed, which asks for no row of the budget. Whatever the others do is
`Undisturbed`. After the closure nothing can become owed: approving, correcting
or creating an expense asks for an active budget. `Tallied` is `TotalsMatchRows`
with the tables finite: a decision changes the status of one row and adds its
amount to one total (`SumOneMore`, `SumOneLess`).

The order of locks is not the one the correction report claims
(`ClosureOrder`, section 10), and `DeadlocksAgainstOrder` says how far from it the
code is. `LocksExplained` is its invariant: a transaction holds the row it decides
on, its budget once it is at that statement, and, past it, a reservation of the
expense it cancels or rows that belong to the budget; this stays true since no
step moves an expense or a request to another budget (`RowsStay`). With ranks 0
for expenses, requests and documents, 1 for budgets and 2 for reservations, every
statement of a transaction that does not look for rows of a budget it holds asks
for a row that ranks above those it has (`Rising`), and three waits in a row
exhaust the ranks. That a cycle stays within one budget follows from the rows
themselves: what a transaction holds and what it waits for belong to its own
budget (`OwnerIs`), and one that still waits for its first row holds nothing
anybody waits for. TLC shows by a deadlock that none of the three operations can
be left out: closure against a decision, approval against the cancellation of
another approved expense, engagement against the same.

Only model-checked: `EveryRequestEnds` (liveness).

## 5. Migrations

### State and actions

| Module | Code |
|---|---|
| `times` | the database itself: how often each statement of the baseline and of the files took effect |
| `journal`, `hasJournal` | the rows of `schema_migration_steps`, and whether the table exists |
| `recorded` | `schema_migrations` |
| `foreign` | tables of somebody else in the database |
| `lock` | `GET_LOCK('lca:migrations:...')`, freed when its connection dies |
| `runner` | where each server container is: off, in a phase of `bootstrapDatabase`, or serving |

A container starts, takes the lock (`Start`), classifies the database
(`Classify`: empty, versioned, an interrupted baseline, or a foreign one that is
refused), creates the journal (`EnsureJournal`), decides whether the baseline is
to be run or resumed (`CheckBaseline`), and takes the files in order
(`ReadVersions`, `PickFile`). In a file, a DDL statement is three steps
(`BeginDdl`, `ExecuteDdl`, `JournalDdl`), because it commits by itself; a DML
statement is two, the second of which commits it with its journal row
(`BeginDml`, `CommitDml`). What the schema tells of a DDL is `ddlState`. A
statement not journalled, or left RUNNING by a dead runner, is adopted if the
schema shows its effect (`Adopt`), executed if it is missing, and, when the schema
cannot tell, executed the first time and refused after an interruption; one
journalled APPLIED is skipped if the schema still shows it, and refused
otherwise (`Refuse`, `MIGRATION_SCHEMA_DIVERGED`). `Record` verifies every DDL of
the file again and stops with `MIGRATION_POSTCONDITION_FAILED` when one does not
show. `FailDdl`, `FailDml` and `Crash` may strike at every step, `MaxFaults` times.

`ddlState` parses the statement and looks in `information_schema`
(`mysql-migration-runner.ts:47-92`), and what it concludes is not always what
happened. The constants carry the three ways in which the shipped files show it:

| Constant | File | What the runner makes of it |
|---|---|---|
| `Like` | 056, 058: `DROP INDEX x, ADD UNIQUE KEY x` | an index of that name is there, so the statement is SATISFIED before it is executed, and adopted without being |
| `Undone` | 064: a column added `NULL`, then made `NOT NULL` | the first statement does not show any more once the second is executed: the file is never recorded, and every restart is refused |
| kind `"OPAQUE"` | 049: the type it parses is no type | never SATISFIED: the same end |

A database starts empty, foreign, at a version to which the old files brought it
one by one, or at one it reached from a baseline. A baseline stands for the files
up to `Base` (`Represented`), which is why no shipped file of the three kinds is
met on a database made from one; a database made by the old files meets them, and
what it adopts or is stopped at depends on the version it comes from.

`Upgrade` is what it should amount to: every statement once, in order, and a
version recorded once its file and all earlier ones are complete, where a
statement may be left out that an earlier one is taken for (`Like`) or whose file
the origin of the database represents.

### Properties and run

| Property | What it says |
|---|---|
| `ServesComplete` | a server listens only if every version is recorded or represented, and every statement executed once, represented, or taken for an earlier one that was |
| `ServesExecuted` | the same without the last exception, as the comment at `mysql-migration-runner.ts:130` has it: broken (section 10) |
| `ImplementsUpgrade` | refinement of `Upgrade`, for all runners, crashes and failures together |
| `EventuallyServes` | all containers finally serve, unless an operator is needed (`Stuck`: a foreign database, a DDL that failed, or one begun of a file not recorded of which the schema does not tell whether it was executed: a MODIFY interrupted before its effect, and, without any fault, the files of the last two lines above) |

`upgrades`: two containers (a third one would only wait for the lock), thirteen
statements in seven files: a baseline of three statements; four old files it
stands for, with, in their order, a plain DDL, one the runner cannot recognise
(049), one it takes the first for (056) and a column added and changed (064); and
two files after the baseline, with a `MODIFY` that proves nothing, DML, and an
index replaced under its name, as a future file may do. Five faults, enough to
interrupt the recovery of a recovery.

Fairness: `FairSpec` is strong fairness of each container's steps. The compose
file restarts a container that stops, and a waiter of `GET_LOCK` that times out
is restarted and asks again. Faults have no fairness.

### Proofs (`MigrationsProofs`)

For every number of containers, statements, files and faults: `Invariance`,
`TypeCorrect`, `Serving` (`ServesComplete`), `UpgradeImplemented`
(`ImplementsUpgrade`).

The argument. Whoever is past `GET_LOCK` has it (`Mutex`), so that the others
are off or serve and a step has only one container to answer for (`Solo`). The
journal proves something of the database (`JournalSound`): APPLIED means in
effect or taken for what is, a data statement is never RUNNING outside a transaction, and a statement
in effect without a journal row was applied by hand, with its whole file. A
recorded version is complete (`RecordSound`). In the middle of a file
(`FileSound`) everything before the current statement is in effect, the journal
rows read at its start are still those of the statements to come, and no
statement of the file was applied by hand: that is why a data statement found
without a row can be executed, and why it happens once. `OldSound` says that the baseline of
a database made by the old files is never run. `BaselineDone`,
`Picked` and `NothingPending` draw the conclusions at the points where the
runner decides; `FileComplete` shows that a version is recorded only when its
file and all earlier ones are complete (every statement `InPlace`), which with `Serving` is the refinement.
None of this is inductive without what the runner remembers, which is why
`RunnerSound` speaks of each phase.

Assumed: `MigrationsAssumption` (files in order, the first statement creates
`schema_migrations`, the marker is a data statement of the baseline, `Like` and
`Undone` point within the old files or within the later ones, and the baseline,
which only creates and inserts, has neither).

Only model-checked: `EventuallyServes` (liveness).

## 6. Sessions

### State and actions

| Module | Code |
|---|---|
| `active`, `row`, `expired` | `users.is_active`; each session of `refresh_tokens` with the token it accepts; the access tokens that have expired |
| `storage` | the pair of tokens in `localStorage`, shared by the tabs |
| `tab` | per tab: `generation` (moved by `beginSessionBoundary` and the like), the refresh in flight, `isAuthenticated`, where `AppBootstrap` is |
| `req` | each API call: sent, answered, waiting for a refresh, ended |
| `flight` | the refresh a call leads: where the server is with it (`ReadUser`, `Rotate`), and whether the client is still waiting |
| `login`, `logouts` | logins and logouts under way |
| `signedIn`, `dropped` | history: the session the user signed in to last; refreshes whose answer nobody saw |

A pair is `[sid, n]`, the n-th of its session. `Send`, `Serve`, `LeadRefresh`,
`JoinRefresh`, `Resume`, `Receive` and their likes are `apiRequest` and
`sendWithRefresh`; `ReadUser` and `Rotate` the two halves of the server's
refresh, of which the second is one conditional UPDATE; `Store` and `Terminate`
the end of `performRefresh`; `StartSync` to `EndSync` the start of a page;
`StartLogin`, `IssueTokens`, `EndLogin`, `Logout`, `ServeLogout`,
`SwitchAgency`, `Reload` what the user does; `LoseCall`, `LoseRefresh`,
`ExpireAccess`, `EndSession`, `Deactivate`, `Reactivate` what happens to him.

Simplified: the two tokens of a pair are stored and removed together (the code
does both in one turn of the event loop); access tokens expire in the order they
were issued; the server's first read of a login is part of `StartLogin`; every
outcome that is neither an answer nor a 401 is "failed".

### Properties and run

| Property | What it says |
|---|---|
| `StorageOfCurrentLogin` | the browser holds tokens of the session the user signed in to last, or none, whatever answer comes late |
| `LossExplained` | a token the server has replaced stays in the browser only while its answer is on the way, was lost, or came after a change of agency |
| `RotatedOnce` | no refresh token is exchanged twice, from one tab or two |
| `EveryCallEnds` | every call ends, those that wait for somebody else's refresh included |

`tabs`: two tabs, three calls (two that can share a refresh, one of the other
tab), two sessions, and seven plans. A plan bounds what may happen (pages
opened, calls, logins, logouts, disturbances, ends of sessions) and is drawn at
the start, so that each pair of hazards meets without all of them at once. Plans
bound, they do not order: whatever a plan holds may happen at any time or not at
all. Deadlock checking is off because a plan runs out.

Fairness: weak fairness of the callbacks of a tab, which its event loop runs,
and of the server's steps, where an answer or a broken connection always comes.
None on what the user does.

### Proofs (`SessionsProofs`)

For every number of tabs, calls and sessions and every plan: `Invariance`,
`TypeCorrect`, `StorageSafe`, `OneExchange` and `LossesExplained` (`TypeOK`,
`StorageOfCurrentLogin`, `RotatedOnce`, `LossExplained`).

The argument. None of the three properties is inductive: what a late answer may
do depends on what its refresh presented and on what has happened to the storage
since.

    IInv == TypeOK /\ FlightSound /\ LeadsOnce /\ Waiting /\ LoginSound
            /\ StorageSound /\ Lineage /\ RotatedOnce

`FlightSound` says what a refresh knows: the pair it presented is not ahead of
the one in storage, its answer is the next pair, and once it is over the storage
has moved on, unless the answer was lost or its tab changed its agency.
`Lineage` says every pair of the past was replaced by a refresh; `LeadsOnce`,
that a call leads one at most, so that nothing forgets it; `LoginSound`, that a
session being opened is nobody else's yet. The proof separates what a step does
to everybody (`Onward`: generations, tokens and sessions only move forward) from
what it does to its own refresh. `EveryCallEnds` is liveness and only
model-checked.

## 7. Sales

### State and actions

| Module | Code |
|---|---|
| `vehicle` | `vehicles.status` |
| `sales` | `sales` with the contract of `vehicle_warranty_contracts` |
| `invoices` | `invoices` of a sale, with the sums of `payments`, `payment_refunds` and `credit_notes` |
| `authorizations` | `delivery_financial_authorizations` and the debt each was given for |
| `deliveries` | `deliveries`, their checklist, documents and signature |
| `returns` | `post_delivery_vehicle_returns` and what is retained |
| `request` | what each clerk read and is about to write |

`CreateSale`, `AdvanceSale`, `CancelSale` are `sale.service.ts`;
`CreateInvoice`, `IssueInvoice`, `CancelInvoice`, `Refund`, `Pay`, `Credit`,
`EditInvoice` are billing; `Authorize`, `Revoke`, `PlanDelivery`,
`StepDelivery`, `CheckItem`, `CancelDelivery`, `AddService`, `Sign` the
deliveries; `RequestReturn`, `StepReturn`, `Deduct`, `Resolve`, `StockDecision`
the returns. `GateOpen` is the financial gate, evaluated at each stage. Four
handlers decide on a row read before their transaction and are a read and a
write: the status of a vehicle, the rescheduling of a delivery, its documents,
the warranty of a sale. A fifth reads too early inside its transaction: for a user
with the scope `CONCESSION` the settlement of a return finds the concession by a
sub-select of the statement that locks the return
(`vehicle-return.routes.ts:21-23`, `:46`), so the invoices, payments, refunds and
credit notes it settles, and the balances it recomputes (`billing.routes.ts:49`),
are those of before the lock on the sale. It is `ReadSettlement`, then
`ResolveScoped` or a rollback (`LeaveSettlement`); with another scope it is
`Resolve`, which reads what it has locked. The other billing handlers lock the
sale before they look for the access of the user, so their sums are fresh.

`Handover` is the promise the five modules make together: a car is promised to
one sale at a time, handed over once, to that sale, and returned at most once.

Simplified: a vehicle ordered, in transit or received counts as in preparation;
payments, refunds and credit notes are kept as sums per invoice; a duplicate
with the same idempotency key changes nothing and is left out; the copies of the
deposit and balance on the sale, archives, notes, salespersons and permissions
are left out; rows read first and read again under lock are read once.

### Properties and run

| Property | What it says |
|---|---|
| `HandedOverOnce` | a sale is delivered by exactly one signature, even with two deliveries |
| `BalanceTrue` | an invoice comes to say, and goes on saying, that what is paid and due is what its payments, refunds and credit notes add up to, in any order; only a settlement whose view showed it otherwise (`Misread`) may break that |
| `CancelledKeepsNothing` | a cancelled sale keeps no payable invoice, no money and no live delivery |
| `WarrantyStands` | a warranty is active only after the handover, as agreed then |
| `HandoverCovered` | at the handover nothing is due, or no more than an authorization that this handover uses up |
| `ReturnSettled` | a settled return leaves nothing due, and the firm keeps what was deducted; an invoice misread is not covered, nor then the sum kept |
| `ImplementsHandover` | refinement of `Handover` |

`orders`: one car sold at most twice for 2, services for 1, payments and credit
notes of 1, 2 or 3 (less, exactly, more than due), three invoices (car, service,
a second car invoice), three deliveries, two clerks, eight plans as in section 6
(another buyer, credit, money given back, cancellation, rescheduling, return, a
return settled on an early view).
Two cars would only meet in a sale, which has one. Deadlock checking is off
because plans run out.

### Proofs (`SalesProofs`, `SumTheorems`)

All eight properties of the table hold for every number of cars, clerks, sales,
invoices and deliveries, every price and every plan; `Vehicle # {}` is the one
assumption the refinement needs beyond the types (a sale that does not exist yet
is given some car). `IInv` adds to the types what each row knows of the others:

- `Money`: an invoice by itself, until the return of its sale is settled.
  `BalanceTrue` needs that the money received never exceeds the total, and that
  a balance updated in place and one computed anew agree. `RowsKept` is its form
  for one step: a step leaves an invoice sound that was, unless it misread it.
- `InvoicesOfSales`, `DeliveriesOfSales`, `ReturnsOfDeliveries`: a sale has only
  cancelled invoices once it is cancelled; it has a delivery only when ready or
  delivered; it is delivered exactly when one of its deliveries is signed.
- `Warranties` and `Requests`: what a clerk is about to write from an old view
  is about a row that still exists, and a contract is active after the handover.

Each handler keeps `IInv` (`CreateSaleStep` to `WriteWarrantyStep`). The action
properties follow with what no other step does: only `Sign` delivers a sale
(`QuietSales`), only `Resolve` settles a return (`SettledByResolve`).

`ReturnSettled` is the hard one. The settlement keeps the deductions from one
invoice after the other and credits the rest; of two invoices in the order of
the rows the later one may be credited while the earlier is kept whole.
`Retained` takes the earliest invoice that is not kept whole: before it
everything is kept, from it on what remains is spent on it, so the sum kept is
at least the deductions.

`HandoverImplemented` follows the stage of every sale: `StagesStay` for steps
that move no sale, `OneStage` for those that move one, `ReturnedStays` and
`OneReturn` because a car is returned by one return only.

Sums over sets are folds, defined by recursion on the set, and induction over
data is out of the prover's reach. `SumTheorems` uses minimal counterexamples
instead: strict inclusion is well founded on the subsets of a finite set, so
among those where a claim fails one is smallest (`Smallest`), and one unfolding
of the recursion contradicts it. That the recursion has a solution is proved the
same way (`Unique`, `Existence`). From there on the lemmas are about sums: a
union of disjoint sets (`SumDisjoint`), one term changed (`SumUpdate`), one more
or one less (`SumOneMore`, `SumOneLess`), terms that are all zero (`SumZero`),
two functions that agree where it matters (`SumSame`, `SumSupport`). The other
proofs cite these and never the recursion.

## 8. Workshop

### State and actions

| Module | Code |
|---|---|
| `order` | `repair_orders`, with their inspection, diagnostic, approval and controls |
| `estimate`, `item` | lines of `repair_order_estimate_items` and `repair_order_items` |
| `job`, `sessions` | `interventions`, `work_sessions` |
| `reservation`, `stock` | `part_reservations`, one row of `part_stocks` (`supplied`: what was ever put in it, history) |
| `warranty`, `share` | `repair_order_warranties`, `warranty_claims`, `repair_order_warranty_allocations` |
| `invoices` | invoices of the orders |
| `request` | what each clerk read and is about to write |

A line has a kind by its set: labour and parts of an estimate (`Labor`, `Part`),
parts reserved without one (`Free`), parts put on an order from the stock
(`Extra`). `Create` to `Handover` are the order's own routes; `Reserve`,
`Consume`, `Release`, `PutLabor`, `PutPart`, `ChangeStock` the lines and the
stock; `PlanJob`, `Assign`, `StepJob`, `Start`, `Pause` the work; the `Read...`
and `Write...` pairs the handlers that check the order before their transaction,
each write under exactly what it checks again.

Simplified: lines put on an order from outside its estimate are parts; a share
covers a line wholly or not at all; time slots of schedules, controls of the
same second, credit notes and refunds of workshop invoices, payments of claims,
the handover of an abandoned car, advisors, mileage, corrections of time entries
and appointments are left out.

### Properties and run

| Property | What it says |
|---|---|
| `PartsOnce` | the reserved stock is what live reservations hold, and is there; a part is in the stock or on one order |
| `StoppedHoldsNothing` | an order cancelled or abandoned holds no part and no open intervention, and nobody worked on it |
| `OneActiveSession` | a technician and a bay are in one session at a time, running or paused, across orders |
| `ConfirmedAllocates` | a confirmed warranty shares out every active line, none beyond its amount |
| `ClaimTrueAtHandover` | a car leaves with its last control passed, an invoice settled, and the claim equal to what its lines share out at that moment |

`workshop`: two orders that share a stock of 3, one technician and one bay;
lines of quantity 1 and 2, so that a reservation is consumed in part; two clerks;
seven plans. Deadlock checking is off because plans run out.

### Proofs (`WorkshopProofs`)

For every number of orders, lines, clerks, technicians and bays and every plan:
`Invariance`, `OneSession`, `ConfirmationHolds`, `GivenUpClean`
(`OneActiveSession`, `ConfirmedAllocates`, `StoppedHoldsNothing`); `BooksKept`,
`TypeCorrect`, `PartsCounted`, `HandoverTrue` (`TypeOK`, `PartsOnce`,
`ClaimTrueAtHandover`). `TypeOK` is not run, as in section 3.

The argument. The first three properties are inductive together with the types of the
rows they speak of and with `Requests`: what a clerk between his read and his
write is sure of whatever happened since. He may ask for a transition of the
table or a cancellation, never for an abandonment, and the session he names
still exists. Two frames carry most steps: `CoverKept` (a warranty is confirmed
after a step only if it was, and its lines and shares did not move) and
`HoldsLess` (an order given up gains no reservation and no intervention). What
is left are the few steps that confirm, start a session, or give an order up
(`Cleaned`).

The other two are about sums over lines and rest on a second invariant, `Books`.
Its part on the stock (`Tallied`) says what the reserved stock is, reservation by
reservation, and that what is on the shelf and what is billed add up to no
more than was ever supplied; it is an inequality because a part consumed after its
line was cancelled is in neither (`LostPart`, section 10). Its part on the claim
(`Account`) follows an order from its estimate to its invoice: no claim before
the invoice; once invoiced, a confirmed claim is the sum of the shares of the
active lines. A clerk may still hold a request about the shares that he read
while the order was in progress; what keeps it from being written is the version
of the warranty, which only grows: past the works, either the warranty is
confirmed or no such request has its version. A step either leaves all this as it
is (`AccountKept`) or turns the warranty back (`AccountTurned`), but for the
confirmation and the invoice. `PartsCounted` and `HandoverTrue` follow. The proof also corrected a bound: a stock of `MaxStock`
is where the model starts, and parts that come back can exceed it, so that
`TypeOK` says natural.

### What the model shows besides

Orders that can no longer end, found while modelling: a warranty shared out
again too late, or an edit written after the control, leaves the shares in DRAFT on a
`ready` order, whose invoice is then refused for ever; a share left on a
cancelled line counts at the handover (`workshop.routes.ts:991`) and not in the
claim; a workshop invoice that is cancelled and made again claims the warranty a
second time and breaks its UNIQUE key; an invoice made by hand on a `ready` order
is returned instead of the workshop's, and the order never becomes `invoiced`.

## 9. Purchasing and payables

### State and actions

| Module | Code |
|---|---|
| `rows`, `stock` | the rows of `part_stocks` there are, and what they hold; a row is an agency and a location, or no location |
| `ledger` | `part_movements`: the sum of the quantities of each row |
| `moved` | how many transfers carry a correlation key |
| `order`, `line`, `receipt` | `purchase_orders`, `purchase_order_items`, `purchase_order_receipts` with their items |
| `invoice` | `supplier_invoices`, their line and whether an expense is linked (`budget_expense_id`) |
| `credit`, `payments` | `supplier_credit_notes`; the disbursements of the linked expense, by either route |
| `request` | what each clerk read and is about to write |

`Locked` is `lockPartStock`: the row of a location, made on demand, or the only
row of the agency. `Change`, `InventoryCount`, `Repair` write one row; `Repair`
is what the workshop does to it, order by order in `Workshop`. A transfer looks
for its key, then locks and writes both rows from what it read of them
(`AskTransfer`, `Transfer`). A receipt looks for its key, by a plain SELECT that
opens its snapshot, then locks the order and the lines it brings; to decide
whether the order is complete it reads the lines it did not lock, as they were
at that first SELECT (`AskReceipt`, `Receive`, `StillPending`). `CreateOrder`,
`SetItem`, `Advance`, `CancelOrder` are the order's own routes.

What the pages of the client never send and the routes accept is among the
requests: a transfer may leave out either location, or both, and finds then the
only row of the agency, so that its two ends can be one row
(`part.routes.ts:132`); a receipt checks nothing before its lock
(`part.routes.ts:143`), so that its snapshot may show the order as a draft.

`Payables` extends it: `CreateInvoice` to `Impute` are the routes of
`supplier-finance.routes.ts`, `Issues` the comparison made at the submission;
`PaySupplier` and `Disburse` the two routes of payment, of which the second
knows the expense only; `AskDecision` and `Decide` the two halves of
`decideCredit`, whose first SELECT fixes the balance the credit is compared with.
A payment asked with the scope `CONCESSION` locks the expense, opens its snapshot
by the sub-select of that statement (`treasury.service.ts:871`) and locks the
invoice after (`:942`): it is `AskPayment`, which sees the credit notes, and
`PayScoped`, which pays; between the two, `Paying`, whoever wants the expense waits
for it, but a credit decided by a request that read the invoice before it was
linked does not want it (`supplier-finance.routes.ts:46`).
The budget and the cash of a payment are `Budgets` and `Treasury`; here they may
refuse it at any time.

Simplified: one part (the rows of two parts share nothing), one supplier and
currency, one line per invoice; due dates, documents, histories, thresholds and
the edition of catalogue data are left out.

### Properties and run

| Property | What it says |
|---|---|
| `StockExplained` | what a row holds beyond its movements changes in one way: a transfer that left out a location and finds one row at both ends makes as many parts as it moves; and the stock covers what the workshop was promised |
| `ReceiptsWithinOrder` | what a line received is what the receipts brought, never more than ordered; an order becomes received when it is complete, or by a receipt that began while it was a draft whose lines changed since (`Reordered`) |
| `EndedForGood` | a received or cancelled order is never written again, by a request that saw it open either |
| `BilledReceived` | an invoice past its draft and without an excuse bills what was delivered, however orders and invoices changed since the comparison |
| `OverrunExplained` | the balance of an invoice falls below zero by a credit decided on an old balance, by a payment of the treasury route, or by a scoped payment of the supplier route when a credit was validated after its view, and in no other way |

`supply`: a store with two shelves, one order of two lines, quantities and
prices of 1 and 2 (less, all, more than what is left), two keys, two clerks (the
races of the code are between two requests), one invoice that can be corrected
(three bills: of a delivery, excused, of a service), two credit notes. Seven
plans, as in section 6: transfers, counts and repairs; three receipts against a
cancellation; a draft completed and sent; an invoice of what is being received;
and three of credits, payments by either route and reversals of one invoice.
Checked up to a permutation of the clerks
and of the credit notes, which nothing tells apart. Deadlock checking is off
because plans run out.

### Proofs (`PayablesProofs`)

For every number of shelves, orders, lines, keys, clerks, invoices and credit
notes, all quantities, bills and plans: `Invariance`, `TypeCorrect`,
`StockMoves` (`StockExplained`), `ReceiptsBounded` (`ReceiptsWithinOrder`),
`OrdersEnd`, `BillsMatched`, `OverrunsExplained`, without further assumptions.
That the exceptions these properties name are real, section 10 shows.

The argument. An order is called received on a sum of which the receipt saw only
a part as it is. `SeenOK` says what a receipt under way is sure of: what a line
received only grows, and no line had received more than was ordered. Unless the
lines were `Reordered`, what it finds left is then at least what is left; a sum of natural numbers that is zero has no
other terms (`NothingLeft`), so nothing is left on any line. The same growth
(`Onward`) keeps a bill matched after its comparison (`BillsKept`): a line that
received something is of an order that was sent, and keeps its price. `DebtOK`
says which invoices can carry credits and payments: only validated ones, which
is why an edit never moves a balance below zero (`InvoiceDue`).
`OverrunsExplained` then looks at the three actions that can: a payment of the
supplier route stays within the balance it sees (`SettleDue`), which only a
credit validated since can have lowered (`PaymentOK`: nobody else pays, reverses
or edits while it holds the expense), a
reversal gives back (`ReverseDue`), and a credit exceeds only a balance that is
not the one it read (`DecideDue`).

## 10. What the code does against what it says

One is a run of `PROJECT.json` that TLC must find violated: in
`late_disbursement` the approval of an expense is checked before the transaction
that pays it (`treasury.service.ts:832`), and by one of the two routes only.

The others have a configuration of their own here, and TLC ends each of them
with the counterexample (`tlc -config X.cfg` on the MC module of the section;
`SupplyClaims` holds six claims, one of them active at a time):

| Configuration | Property | What happens |
|---|---|---|
| `TwoApprovals` | `EngagedWithinCost` | an approval locks the reservation and its account, not the expense (`treasury-coverage.service.ts:341`): two of them over-reserve it |
| `DraftReservation` | `NoReservationOnCancelled` | a DRAFT reservation survives the cancellation of its expense and can be approved |
| `RefundOverdraft` | `Solvent` | a refund opens its snapshot (`billing.routes.ts:112`) before it locks the account |
| `ScopedOverdraft` | `Solvent` | so does a disbursement with the scope `CONCESSION` (the sub-select at `treasury.service.ts:871`, the account at `:880`) |
| `Unexecuted` | `ServesExecuted` | a statement that replaces an index under its name is adopted without being executed, although the comment at `mysql-migration-runner.ts:130` asks for a postcondition entirely satisfied |
| `StaleSettlement` | `AlwaysBalanced` | a return settled with the scope `CONCESSION` writes the balance of an invoice from payments and credit notes of before its lock (`vehicle-return.routes.ts:46`) |
| `Resubmitted` | `NoneSubmittedAfterClosure` | a rejected expense can be submitted after its budget closed (`hr.routes.ts:2125`), while the comment at `hr.routes.ts:1863` says nothing is left stranded |
| `ClosureOrder` | `ConsistentLockOrder` | closing a budget locks it before its expenses (`hr.routes.ts:1866`), decisions on an expense lock the expense first; `Budgets`' `DeadlocksExplained` proves what else can deadlock, and what cannot |
| `Bootstrap` | `NoLogoutDuringRefresh` | the start of a page logs the user out while another call refreshes, which `frontend/test/app-bootstrap-refresh-race.behavior.test.ts:47` rules out |
| `Rescheduled` | `FinalDeliveryStays` | a delivery signed or cancelled meanwhile is planned again, against the message of `delivery.routes.ts:507` |
| `Uninvoiced` | `HandoverInvoiced` | a car leaves without a vehicle invoice when a service has one, against `docs/AUDIT-ERP-03-WORKFLOW.md:11` |
| `FrozenLines` | `LinesFrozen` | a line of a repair order is edited by a request that read the order in progress and writes when it has gone to its control or been invoiced, although `workshop.routes.ts:104` says "modification interdite" |
| `PausedSession` | `SessionsEnded` | a paused session passes the check of `workshop.routes.ts:567` and can then never be stopped |
| `LostPart` | `PartsAccounted` | a part consumed after its line was cancelled leaves the stock and is billed nowhere |
| `StuckAbandonment` | `AbandonmentEnds` | what `workshop.routes.ts:585` sends to the abandonment needs an invoice the workshop no longer makes |
| `SupplyClaims` | `WithinTotal` | a credit is compared with the balance of its first read (`supplier-finance.routes.ts:46`), and the treasury pays without looking at credits, against `docs/FIN-05-REPORT.md:48` |
| | `PaidWithinDue` | a supplier payment with the scope `CONCESSION` misses a credit validated after its view, against the message of `treasury.service.ts:968` |
| | `MovedOnce` | two transfers under one key both look for it before they lock (`part.routes.ts:132`), against `docs/STABILISATION-ERP-10-TRANSFERTS.md:3` |
| | `StockAccounted` | a transfer that leaves out a location can have one row for source and destination, and makes parts |
| | `CompleteIsReceived` | two receipts, each of the last parts of one line, leave an order `partially_received` with nothing left to come: it can be neither received nor cancelled (`part.routes.ts:142-143`) |
| | `ReceivedInFull` | a receipt that looked for its key while the order was a draft, and locked it once it was completed and sent, calls an order received that is not |
| `BilledTwice` | `BilledOnce` | two invoices of one delivery both pass the comparison (`supplier-finance.routes.ts:28`) |

## 11. Proved and checked

| | Proved for all constants | Checked by TLC only |
|---|---|---|
| Treasury | `TypeOK OverspentOnlyLate OnceOnly PaidWithinCost RefundsWithinPayment NeverRevived DeadlocksAgainstOrder ImplementsCashLedger`, `FreshView ReservationShape` | `EveryRequestEnds` |
| Budgets | `TypeOK WithinEnvelope TotalsMatchRows EngagedOnce NothingStranded ClosedOwesNothing PaidWithinAmount DeadlocksAgainstOrder ImplementsEnvelope` | `EveryRequestEnds` |
| Sessions | `TypeOK StorageOfCurrentLogin LossExplained RotatedOnce` | `EveryCallEnds` |
| Workshop | `TypeOK PartsOnce OneActiveSession ConfirmedAllocates StoppedHoldsNothing ClaimTrueAtHandover` | – |
| Migrations | `TypeOK ServesComplete ImplementsUpgrade` | `EventuallyServes` |
| Sales | `TypeOK HandedOverOnce BalanceTrue CancelledKeepsNothing WarrantyStands HandoverCovered ReturnSettled ImplementsHandover` | – |
| Purchasing, Payables | `TypeOK StockExplained ReceiptsWithinOrder EndedForGood BilledReceived OverrunExplained` | – |

Every safety property of the passing runs is proved; what TLC alone checks is
liveness, since fairness and `ENABLED` are out of the prover's reach. So is induction over data,
which `SumTheorems` replaces by minimal counterexamples. The assumptions of the proofs are the named ASSUMEs of
the modules, which TLC evaluates in every run.

## 12. Not modelled

What is left out of the modules of sections 3 to 9:

One concession and one currency, the concession holding the accounts and the
expenses. The sub-select that the scope `CONCESSION` adds to a locking read is
modelled where it comes before a lock that matters: disbursements (`Treasury`),
supplier payments (`Payables`), the settlement of a return (`Sales`). It is taken
to open the snapshot when that statement has its lock; InnoDB may do it while the
statement waits, which makes the snapshot older still and adds no kind of reader.
Of the shared locks of foreign keys, the one on the concession is modelled, since
collections, disbursements and new reservations lock that row exclusively. Locks
on movement, transfer and agency rows (an agency may hold accounts and expenses
in the place of the concession) and gap locks are left out: that only adds
interleavings, except for the deadlocks, which are those among the modelled rows.
Categories, attachments, dates and permissions do not change the cash. The
limits of a credit note and the balance of an invoice belong to billing.
In `Treasury` an expense starts approved: how it gets there is `Budgets`, where
in turn a reservation is one state and cash is not kept. The two modules are
checked and proved apart: what they share is the expense row, which both lock.
Also left out of `Budgets`: categories and the lock on their row, the period and
the territory of a budget, gap locks and the locks on agency rows that the joins
take. Ids are inserted once, as AUTO_INCREMENT does, so a repeated creation is a
creation under another id. Responses are not kept, only rows.

Components without a module, and why:

- *Bank reconciliation*: matches posted movements with imported bank lines and
  never moves cash; a match is one transaction on locked rows.
- *Document numbers and archives*: a number comes from a locked row in the
  transaction of its document; files are written after the commit and can be
  written again.
- *The connection pool*: handlers that ask for a second connection inside a
  transaction (`billing.routes.ts:90`) can starve each other when the pool is
  smaller than the number of requests; no module yet.
- *Two-factor challenges, trusted devices, password resets*: single rows with
  conditional updates; left for later.
- *HR records* (contracts, leave, bonuses, salaries, the preparation and the
  validation of remunerations): every write locks the employee's row, alone or
  after its own row, so they take turns on one employee, and the unique keys of
  `074_hr_remunerations_financial_integration.sql` allow one remuneration per
  employee and month and one per bonus. What a model of them would have to look
  at first: a preparation of several employees
  (`hr-remuneration.routes.ts`, `/hr/remunerations/prepare`) reads salaries and
  contracts by sub-selects that lock nothing, so those of the employees it locks
  last may be older than the lock; a bonus can be cancelled after a remuneration
  took it in, or approved after its month was prepared; and the employee
  concerned is not among those `remuneration-separation.ts` keeps from
  validating, although `docs/FIN-04-REPORT.md:15` says so. Here only the
  engagement of a remuneration is modelled (`Budgets`).
- *Quotations, customers, CRM, showroom, users and scopes, settings,
  document marks*: edits and status changes of single rows; what of them meets
  another component (the conversion of a quotation, the status of a vehicle, the
  engagement of a remuneration) is in the module of that component.
- *Notifications, realtime, reports, dashboard, activity log*: best effort after
  the commit, or read only.
- *The user interface*: forms, tables and navigation of `src/frontend` hold no
  state the server trusts; what the client does hold is in `Sessions`.
  `src/livrables` is an older copy of the same program and is not modelled twice.

Most of the repository's lines are of these last kinds (pages of the client,
single-row edits, the copy), which is why the definitions map to a small part of
them. Of the server's own code, what has several steps or several actors comes
first.
