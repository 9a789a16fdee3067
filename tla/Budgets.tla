------------------------------ MODULE Budgets ------------------------------
(***************************************************************************)
(* Budgets, the extra funds asked for them, and the expenses committed on  *)
(* them, from draft to closure: src/backend-node/src/modules/hr            *)
(* (hr.routes.ts), with the documents that become expenses (remunerations, *)
(* supplier invoices) and what the treasury does to an approved expense    *)
(* (disbursement, its reversal, reservation of cash).                      *)
(*                                                                         *)
(* Every operation is one transaction of InnoDB at REPEATABLE READ, as in  *)
(* Treasury.  Here a statement may lock many rows: the plan of a call is   *)
(* the sequence of its reads, each the set of rows it locks or View, the   *)
(* place of the first plain SELECT.  SELECT ... JOIN ... FOR UPDATE locks  *)
(* the row of each table, which the plan gives one after the other.        *)
(*                                                                         *)
(* SUM(amount) over extra funds, over approved expenses and over standing  *)
(* disbursements are kept as totals beside the rows; TotalsMatchRows ties  *)
(* the first two to them.                                                  *)
(***************************************************************************)
EXTENDS Integers, Sequences, FiniteSets, Functions

CONSTANTS
    Worker,         \* requests in progress, each on a connection of the pool
    User,           \* who creates and decides
    Budget,         \* budget ids: those of Founded, and those left to create
    Expense,        \* expense ids left to create
    FundRequest,    \* ids left for requests of extra funds
    Document,       \* validated remunerations and supplier invoices
    Due,            \* [Document -> Nat \ {0}]: what each is worth
    Founded,        \* active budgets at the start: id -> row, no expense yet
    Reversible,     \* expenses that may see one disbursement reversed: a bound
    Call,           \* the calls clients may send, and send again
    None            \* null

BudgetOps  == {"submit", "correct", "approve", "reject", "reopen", "cancel", "close"}
RequestOps == {"approve funds", "reject funds"}
ExpenseOps == {"submit expense", "correct expense", "approve expense",
               "reject expense", "cancel expense", "disburse"}
DocumentOps == {"engage", "link"}
Creations  == {"create budget", "request funds", "create expense"} \cup DocumentOps
Op == BudgetOps \cup RequestOps \cup ExpenseOps \cup Creations

(* What validation at the edge of the API leaves of a request.  A creation *)
(* names the id its row will get.                                          *)
WellFormed(c) ==
    /\ c.op \in Op
    /\ c.user \in User
    /\ c.op \in BudgetOps \cup Creations => c.budget \in Budget
    /\ c.op \in {"create budget", "correct", "request funds", "create expense",
                 "disburse"} => c.amount \in Nat \ {0}
    /\ c.op \in RequestOps \cup {"request funds"} => c.request \in FundRequest
    /\ c.op \in ExpenseOps \cup DocumentOps \cup {"create expense"} => c.expense \in Expense
    /\ c.op \in DocumentOps => c.document \in Document

BudgetStatus  == {"draft", "submitted", "active", "rejected", "closed", "cancelled"}
ExpenseStatus == {"draft", "submitted", "approved", "rejected", "cancelled"}
ReservationStatus == {"none", "DRAFT", "SUBMITTED", "ACTIVE"}
BudgetRecord  == [creator : User, initial : Nat, status : BudgetStatus]
RequestRecord == [budget : Budget, amount : Nat, requester : User,
                  status : {"SUBMITTED", "APPROVED", "REJECTED"}]
ExpenseRecord == [budget : Budget, amount : Nat, creator : User,
                  document : Document \cup {None}, status : ExpenseStatus]

ASSUME BudgetsAssumption ==
    /\ \A c \in Call : WellFormed(c)
    /\ Due \in [Document -> Nat \ {0}]
    /\ DOMAIN Founded \subseteq Budget
    /\ \A b \in DOMAIN Founded : Founded[b] \in BudgetRecord /\ Founded[b].status = "active"
    /\ None \notin Worker /\ None \notin Call /\ None \notin Expense

VARIABLES
    budget,         \* budgets: id -> row, for inserted ids
    request,        \* budget_fund_requests: id -> row
    expense,        \* budget_expenses: id -> row
    engagement,     \* budget_expense_id of each document, or None
    funds,          \* SUM of budget_fund_movements, per budget
    committed,      \* SUM of approved expenses, per budget
    paid,           \* SUM of standing disbursements, per expense
    reversed,       \* expenses with a reversed disbursement
    reservation,    \* treasury reservation for each expense
    lock,           \* row -> the worker whose transaction holds it
    work            \* worker -> the call it runs, and how far it is

treasury == <<paid, reversed, reservation>>
tables   == <<budget, request, expense, engagement, funds, committed,
              paid, reversed, reservation>>
vars     == <<budget, request, expense, engagement, funds, committed,
              paid, reversed, reservation, lock, work>>

-----------------------------------------------------------------------------
(***************************************************************************)
(* Rows, and the statements that lock them.                                *)
(***************************************************************************)
BudgetRow(b)      == <<"budget", b>>
RequestRow(r)     == <<"request", r>>
ExpenseRow(e)     == <<"expense", e>>
DocumentRow(d)    == <<"document", d>>
ReservationRow(e) == <<"reservation", e>>
View              == {<<"view", "first plain SELECT">>}

Row == {BudgetRow(b) : b \in Budget} \cup {RequestRow(r) : r \in FundRequest}
       \cup {ExpenseRow(e) : e \in Expense} \cup {DocumentRow(d) : d \in Document}
       \cup {ReservationRow(e) : e \in Expense}

Insert(table, id, row) ==
    [x \in DOMAIN table \cup {id} |-> IF x = id THEN row ELSE table[x]]

(* The budget whose row a call locks.                                      *)
BudgetOf(c) ==
    IF c.op \in ExpenseOps THEN expense[c.expense].budget
    ELSE IF c.op \in RequestOps THEN request[c.request].budget
    ELSE c.budget

ExpensesOf(b) == {e \in DOMAIN expense : expense[e].budget = b}
RequestsOf(b) == {r \in DOMAIN request : request[r].budget = b}
ApprovedOf(b) == {e \in ExpensesOf(b) : expense[e].status = "approved"}

(* Mutant: an approval locks its expense and not the budget.               *)
ApprovePlanUnlocked(c) ==
    <<{ExpenseRow(c.expense)}, View,
      {ExpenseRow(e) : e \in ApprovedOf(BudgetOf(c))}>>

ApprovePlan(c) ==
    <<{ExpenseRow(c.expense)}, {BudgetRow(BudgetOf(c))}, View,
      {ExpenseRow(e) : e \in ApprovedOf(BudgetOf(c))}>>

(* Mutant: the budget is checked without being held.                       *)
CreatePlanUnlocked(c) == << >>

CreatePlan(c) == <<{BudgetRow(c.budget)}>>

EngagePlan(c) ==
    <<{DocumentRow(c.document)}, {BudgetRow(c.budget)}, View,
      {ExpenseRow(e) : e \in ApprovedOf(c.budget)}>>

ClosePlan(c) ==
    <<{BudgetRow(c.budget)},
      {ExpenseRow(e) : e \in ExpensesOf(c.budget)},
      {RequestRow(r) : r \in RequestsOf(c.budget)},
      {ReservationRow(e) : e \in {x \in ExpensesOf(c.budget) : reservation[x] # "none"}},
      View>>

(* Mutant: a cancellation locks the budget, then the expense.              *)
CancelExpensePlanBudgetFirst(c) ==
    <<{BudgetRow(BudgetOf(c))}, {ExpenseRow(c.expense)}, View,
      IF reservation[c.expense] \in {"SUBMITTED", "ACTIVE"}
      THEN {ReservationRow(c.expense)} ELSE {}>>

CancelExpensePlan(c) ==
    <<{ExpenseRow(c.expense)}, {BudgetRow(BudgetOf(c))}, View,
      IF reservation[c.expense] \in {"SUBMITTED", "ACTIVE"}
      THEN {ReservationRow(c.expense)} ELSE {}>>

DisbursePlan(c) ==
    <<{ExpenseRow(c.expense)}, {BudgetRow(BudgetOf(c))}, View>>

Plan(c) ==
    CASE c.op = "create budget" -> << >>
      [] c.op = "cancel" -> <<{BudgetRow(c.budget)}, View>>
      [] c.op = "close" -> ClosePlan(c)
      [] c.op \in {"request funds", "create expense"} -> CreatePlan(c)
      [] c.op \in RequestOps -> <<{RequestRow(c.request)}, {BudgetRow(BudgetOf(c))}>>
      [] c.op = "approve expense" -> ApprovePlan(c)
      [] c.op = "cancel expense" -> CancelExpensePlan(c)
      [] c.op = "disburse" -> DisbursePlan(c)
      [] c.op \in ExpenseOps \ {"approve expense", "cancel expense", "disburse"} ->
            <<{ExpenseRow(c.expense)}, {BudgetRow(BudgetOf(c))}>>
      [] c.op = "engage" -> EngagePlan(c)
      [] c.op = "link" -> <<{DocumentRow(c.document)}, {BudgetRow(c.budget)}, View>>
      [] OTHER -> <<{BudgetRow(c.budget)}>>

-----------------------------------------------------------------------------
(***************************************************************************)
(* A worker and the transaction it runs.  "spent" is the total of approved *)
(* expenses its latest statement returned, "seen" its snapshot.            *)
(***************************************************************************)
NotSeen == [funds |-> [b \in Budget |-> 0], paid |-> [e \in Expense |-> 0]]
Idle == [call |-> None, step |-> 0, viewed |-> FALSE, seen |-> NotSeen, spent |-> 0]

Busy(w)       == work[w].call # None
Viewed(w)     == work[w].viewed
Holds(w, row) == lock[row] = w
InPlan(w)     == Busy(w) /\ work[w].step <= Len(Plan(work[w].call))
Ready(w)      == Busy(w) /\ work[w].step > Len(Plan(work[w].call))
Statement(w)  == Plan(work[w].call)[work[w].step]

(* The rows a worker's statement still waits for.                          *)
Wants(w) ==
    IF InPlan(w) /\ Statement(w) # View
    THEN {r \in Statement(w) : ~Holds(w, r)} ELSE {}

HasBudget(w, c) == Holds(w, BudgetRow(BudgetOf(c)))
StatusOf(c)     == budget[BudgetOf(c)].status

-----------------------------------------------------------------------------
(***************************************************************************)
(* Guards, evaluated as soon as the rows they read are held.               *)
(***************************************************************************)
BudgetGuard(w, c) ==
    /\ HasBudget(w, c) =>
        /\ c.op \in {"submit", "correct"} => StatusOf(c) \in {"draft", "rejected"}
        /\ c.op \in {"approve", "reject"} =>
             StatusOf(c) = "submitted" /\ budget[c.budget].creator # c.user
        /\ c.op = "reopen" => StatusOf(c) = "rejected"
        /\ c.op = "cancel" => StatusOf(c) = "draft"
    /\ c.op = "cancel" /\ Viewed(w) => work[w].spent = 0

(* Mutant: closing a budget forgets what is still to be paid.              *)
CloseGuardUnpaid(w, c) ==
    /\ HasBudget(w, c) => StatusOf(c) = "active"
    /\ Viewed(w) =>
        /\ \A e \in ExpensesOf(c.budget) :
            expense[e].status \notin {"draft", "submitted"} /\ reservation[e] # "ACTIVE"
        /\ \A r \in RequestsOf(c.budget) : request[r].status # "SUBMITTED"

(* Nothing is left to decide, to pay or to release on the budget.          *)
CloseGuard(w, c) ==
    /\ HasBudget(w, c) => StatusOf(c) = "active"
    /\ Viewed(w) =>
        /\ \A e \in ExpensesOf(c.budget) :
            /\ expense[e].status \notin {"draft", "submitted"}
            /\ reservation[e] # "ACTIVE"
            /\ expense[e].status = "approved" => expense[e].amount <= work[w].seen.paid[e]
        /\ \A r \in RequestsOf(c.budget) : request[r].status # "SUBMITTED"

(* Mutant: a request that was decided can be decided again.                *)
RequestGuardAnyState(w, c) ==
    HasBudget(w, c) =>
        /\ request[c.request].requester # c.user
        /\ c.op = "approve funds" => StatusOf(c) = "active"

RequestGuard(w, c) ==
    HasBudget(w, c) =>
        /\ request[c.request].status = "SUBMITTED"
        /\ request[c.request].requester # c.user
        /\ c.op = "approve funds" => StatusOf(c) = "active"

(* What is left of the envelope, as the call's statements returned it.     *)
Remaining(w, c) ==
    budget[BudgetOf(c)].initial + work[w].seen.funds[BudgetOf(c)] - work[w].spent

ExpenseGuard(w, c) ==
    LET x == expense[c.expense]
    IN  /\ HasBudget(w, c) =>
            /\ c.op \in {"submit expense", "correct expense"} =>
                 x.status \in {"draft", "rejected"}
            /\ c.op \in {"approve expense", "reject expense"} =>
                 x.status = "submitted" /\ x.creator # c.user
            /\ c.op = "approve expense" => StatusOf(c) = "active"
            /\ c.op = "cancel expense" => x.status # "cancelled"
        /\ c.op = "approve expense" /\ Ready(w) => x.amount <= Remaining(w, c)
        /\ Viewed(w) /\ c.op = "cancel expense" => work[w].seen.paid[c.expense] = 0
        /\ Ready(w) /\ c.op = "cancel expense" =>
             reservation[c.expense] \notin {"SUBMITTED", "ACTIVE"}
        /\ Viewed(w) /\ c.op = "disburse" =>
             c.amount <= x.amount - work[w].seen.paid[c.expense]

(* Mutant: a document already engaged is engaged again.                    *)
DocumentGuardRepeatable(w, c) ==
    /\ HasBudget(w, c) => StatusOf(c) = "active"
    /\ Ready(w) => Due[c.document] <= Remaining(w, c)

DocumentGuard(w, c) ==
    /\ Holds(w, DocumentRow(c.document)) => engagement[c.document] = None
    /\ HasBudget(w, c) => StatusOf(c) = "active"
    /\ Ready(w) => Due[c.document] <= Remaining(w, c)

Allowed(w) ==
    LET c == work[w].call
    IN  /\ c.op \in BudgetOps \ {"close"} => BudgetGuard(w, c)
        /\ c.op = "close" => CloseGuard(w, c)
        /\ c.op \in RequestOps => RequestGuard(w, c)
        /\ c.op \in {"request funds", "create expense"} /\ HasBudget(w, c) =>
             StatusOf(c) = "active"
        /\ c.op \in ExpenseOps => ExpenseGuard(w, c)
        /\ c.op \in DocumentOps => DocumentGuard(w, c)

(* A linked invoice answers with the expense it has.                       *)
Replayed(w) ==
    LET c == work[w].call
    IN  /\ c.op = "link"
        /\ Holds(w, DocumentRow(c.document))
        /\ engagement[c.document] # None

Proceeds(w) == Busy(w) /\ Allowed(w)

-----------------------------------------------------------------------------
(***************************************************************************)
(* The transaction: begin, read, end.                                      *)
(***************************************************************************)
Init ==
    /\ budget = Founded
    /\ request = [r \in {} |-> None]
    /\ expense = [e \in {} |-> None]
    /\ engagement = [d \in Document |-> None]
    /\ funds = [b \in Budget |-> 0]
    /\ committed = [b \in Budget |-> 0]
    /\ paid = [e \in Expense |-> 0]
    /\ reversed = {}
    /\ reservation = [e \in Expense |-> "none"]
    /\ lock = [r \in Row |-> None]
    /\ work = [w \in Worker |-> Idle]

(* The row a creation inserts.                                             *)
Inserted(c) ==
    IF c.op = "create budget" THEN BudgetRow(c.budget)
    ELSE IF c.op = "request funds" THEN RequestRow(c.request)
    ELSE ExpenseRow(c.expense)

(* Every row a call names exists (404 otherwise), and the one it inserts   *)
(* does not.                                                               *)
Named(c) ==
    /\ c.op \in RequestOps => c.request \in DOMAIN request
    /\ c.op \in ExpenseOps => c.expense \in DOMAIN expense
    /\ c.op \in (BudgetOps \cup Creations) \ {"create budget"} => c.budget \in DOMAIN budget
    /\ c.op = "create budget" => c.budget \notin DOMAIN budget
    /\ c.op = "request funds" => c.request \notin DOMAIN request
    /\ c.op \in DocumentOps \cup {"create expense"} => c.expense \notin DOMAIN expense

(* AUTO_INCREMENT: no two transactions insert the same id.                 *)
Unshared(c) ==
    c.op \in Creations =>
        \A w \in Worker : Busy(w) /\ work[w].call.op \in Creations =>
            Inserted(work[w].call) # Inserted(c)

(* assertBudgetExpenseApproved, a query before the transaction.            *)
Prechecked(c) == c.op = "disburse" => expense[c.expense].status = "approved"

Begin(w, c) ==
    /\ ~Busy(w)
    /\ Named(c)
    /\ Unshared(c)
    /\ Prechecked(c)
    /\ work' = [work EXCEPT ![w] = [Idle EXCEPT !.call = c, !.step = 1]]
    /\ UNCHANGED <<tables, lock>>

(* A locking statement gets a row it waits for.                            *)
LockRow(w) ==
    /\ Proceeds(w) /\ ~Replayed(w)
    /\ \E r \in Wants(w) :
        /\ lock[r] = None
        /\ lock' = [lock EXCEPT ![r] = w]
    /\ UNCHANGED <<tables, work>>

(* It has them all, and returns; or it is the first plain SELECT.          *)
Return(w) ==
    /\ Proceeds(w) /\ ~Replayed(w)
    /\ InPlan(w)
    /\ Wants(w) = {}
    /\ work' = [work EXCEPT ![w] =
                 [call   |-> @.call,
                  step   |-> @.step + 1,
                  viewed |-> @.viewed \/ Statement(w) = View,
                  seen   |-> IF Statement(w) = View
                             THEN [funds |-> funds, paid |-> paid] ELSE @.seen,
                  spent  |-> committed[BudgetOf(@.call)]]]
    /\ UNCHANGED <<tables, lock>>

(* Mutant: the rollback is forgotten, the rows stay locked.                *)
EndKeepingLocks(w) ==
    /\ work' = [work EXCEPT ![w] = Idle]
    /\ UNCHANGED lock

(* COMMIT or ROLLBACK: the locks go, the connection returns to the pool.   *)
End(w) ==
    /\ lock' = [x \in Row |-> IF lock[x] = w THEN None ELSE lock[x]]
    /\ work' = [work EXCEPT ![w] = Idle]

(* An HttpError: rollback.                                                 *)
Refuse(w) ==
    /\ Busy(w) /\ ~Allowed(w) /\ ~Replayed(w)
    /\ End(w)
    /\ UNCHANGED tables

Replay(w) ==
    /\ Busy(w) /\ Replayed(w)
    /\ End(w)
    /\ UNCHANGED tables

(* InnoDB breaks a cycle of waiting transactions by rolling one back; none *)
(* of these operations retries: HTTP 500.                                  *)
WaitsFor(w, x) ==
    /\ \A r \in Wants(w) : lock[r] # None
    /\ \E r \in Wants(w) : lock[r] = x
Deadlocked(S) ==
    \A w \in S : (\E x \in S : WaitsFor(w, x)) /\ (\E x \in S : WaitsFor(x, w))
DeadlockVictim(w) ==
    /\ \E S \in SUBSET Worker : w \in S /\ Deadlocked(S)
    /\ End(w)
    /\ UNCHANGED tables

(* The process or the connection is lost before COMMIT.                    *)
Crash(w) ==
    /\ Busy(w)
    /\ End(w)
    /\ UNCHANGED tables

-----------------------------------------------------------------------------
(***************************************************************************)
(* The decisions: one action per operation, its writes and its COMMIT.     *)
(***************************************************************************)
Decides(w, op) == Ready(w) /\ work[w].call.op = op /\ Proceeds(w) /\ ~Replayed(w)

CreateBudget(w) ==
    LET c == work[w].call
    IN  /\ Decides(w, "create budget")
        /\ budget' = Insert(budget, c.budget,
               [creator |-> c.user, initial |-> c.amount, status |-> "draft"])
        /\ End(w)
        /\ UNCHANGED <<request, expense, engagement, funds, committed, treasury>>

ChangeBudget(w, op, status, initial) ==
    LET b == work[w].call.budget
    IN  /\ Decides(w, op)
        /\ budget' = [budget EXCEPT ![b] = [creator |-> @.creator,
                                            initial |-> initial, status |-> status]]
        /\ End(w)
        /\ UNCHANGED <<request, expense, engagement, funds, committed, treasury>>

Initial(w) == budget[work[w].call.budget].initial

SubmitBudget(w)  == ChangeBudget(w, "submit", "submitted", Initial(w))
CorrectBudget(w) == ChangeBudget(w, "correct", budget[work[w].call.budget].status,
                                 work[w].call.amount)
ApproveBudget(w) == ChangeBudget(w, "approve", "active", Initial(w))
RejectBudget(w)  == ChangeBudget(w, "reject", "rejected", Initial(w))
ReopenBudget(w)  == ChangeBudget(w, "reopen", "draft", Initial(w))
CancelBudget(w)  == ChangeBudget(w, "cancel", "cancelled", Initial(w))
CloseBudget(w)   == ChangeBudget(w, "close", "closed", Initial(w))

RequestFunds(w) ==
    LET c == work[w].call
    IN  /\ Decides(w, "request funds")
        /\ request' = Insert(request, c.request,
               [budget |-> c.budget, amount |-> c.amount, requester |-> c.user,
                status |-> "SUBMITTED"])
        /\ End(w)
        /\ UNCHANGED <<budget, expense, engagement, funds, committed, treasury>>

ApproveFunds(w) ==
    LET r == work[w].call.request
    IN  /\ Decides(w, "approve funds")
        /\ request' = [request EXCEPT ![r].status = "APPROVED"]
        /\ funds' = [funds EXCEPT ![request[r].budget] = @ + request[r].amount]
        /\ End(w)
        /\ UNCHANGED <<budget, expense, engagement, committed, treasury>>

RejectFunds(w) ==
    /\ Decides(w, "reject funds")
    /\ request' = [request EXCEPT ![work[w].call.request].status = "REJECTED"]
    /\ End(w)
    /\ UNCHANGED <<budget, expense, engagement, funds, committed, treasury>>

NewExpense(c, n, d) ==
    expense' = Insert(expense, c.expense,
        [budget |-> c.budget, amount |-> n, creator |-> c.user,
         document |-> d, status |-> "draft"])

CreateExpense(w) ==
    /\ Decides(w, "create expense")
    /\ NewExpense(work[w].call, work[w].call.amount, None)
    /\ End(w)
    /\ UNCHANGED <<budget, request, engagement, funds, committed, treasury>>

EngageDocument(w, op) ==
    LET c == work[w].call
    IN  /\ Decides(w, op)
        /\ NewExpense(c, Due[c.document], c.document)
        /\ engagement' = [engagement EXCEPT ![c.document] = c.expense]
        /\ End(w)
        /\ UNCHANGED <<budget, request, funds, committed, treasury>>
Engage(w) == EngageDocument(w, "engage")
Link(w)   == EngageDocument(w, "link")

(* A decision on an expense, and what it does to the commitments.          *)
ChangeExpense(w, op, status, delta) ==
    LET e == work[w].call.expense
    IN  /\ Decides(w, op)
        /\ expense' = [expense EXCEPT ![e] =
               [budget |-> @.budget, amount |-> @.amount, creator |-> @.creator,
                document |-> @.document, status |-> status]]
        /\ committed' = [committed EXCEPT ![expense[e].budget] = @ + delta]
        /\ End(w)
        /\ UNCHANGED <<budget, request, engagement, funds, treasury>>

Target(w) == expense[work[w].call.expense]

SubmitExpense(w)  == ChangeExpense(w, "submit expense", "submitted", 0)
CorrectExpense(w) == ChangeExpense(w, "correct expense", Target(w).status, 0)
ApproveExpense(w) == ChangeExpense(w, "approve expense", "approved", Target(w).amount)
RejectExpense(w)  == ChangeExpense(w, "reject expense", "rejected", 0)
CancelExpense(w)  ==
    ChangeExpense(w, "cancel expense", "cancelled",
                  IF Target(w).status = "approved" THEN -Target(w).amount ELSE 0)

(* budgetExpenseDisburse, as far as budgets see it (Treasury has the rest).*)
Disburse(w) ==
    LET c == work[w].call
    IN  /\ Decides(w, "disburse")
        /\ paid' = [paid EXCEPT ![c.expense] = @ + c.amount]
        /\ End(w)
        /\ UNCHANGED <<budget, request, expense, engagement, funds, committed,
                       reversed, reservation>>

Decide(w) ==
    \/ CreateBudget(w) \/ SubmitBudget(w) \/ CorrectBudget(w) \/ ApproveBudget(w)
    \/ RejectBudget(w) \/ ReopenBudget(w) \/ CancelBudget(w) \/ CloseBudget(w)
    \/ RequestFunds(w) \/ ApproveFunds(w) \/ RejectFunds(w)
    \/ CreateExpense(w) \/ Engage(w) \/ Link(w)
    \/ SubmitExpense(w) \/ CorrectExpense(w) \/ ApproveExpense(w)
    \/ RejectExpense(w) \/ CancelExpense(w) \/ Disburse(w)

(***************************************************************************)
(* What the treasury does to an expense on its own: the reversal of a      *)
(* disbursement, which locks the account only (how much it gives back is   *)
(* left open, disbursements being kept as a total), and the life of a      *)
(* reservation.  Its account and amount, and the states nothing here tells *)
(* apart, are those of Treasury: a rejected reservation counts as a draft, *)
(* since both can be submitted, and one that has ended as none.            *)
(***************************************************************************)
ReverseDisbursement(e) ==
    /\ e \in Reversible \ reversed
    /\ \E n \in 1..paid[e] : paid' = [paid EXCEPT ![e] = @ - n]
    /\ reversed' = reversed \cup {e}
    /\ UNCHANGED <<budget, request, expense, engagement, funds, committed,
                   reservation, lock, work>>

SetReservation(e, from, to) ==
    /\ reservation[e] = from
    /\ lock[ReservationRow(e)] = None
    /\ reservation' = [reservation EXCEPT ![e] = to]
    /\ UNCHANGED <<budget, request, expense, engagement, funds, committed,
                   paid, reversed, lock, work>>

CreateReservation(e) ==
    /\ expense[e].status = "approved"
    /\ lock[ExpenseRow(e)] = None /\ lock[BudgetRow(expense[e].budget)] = None
    /\ paid[e] < expense[e].amount
    /\ SetReservation(e, "none", "DRAFT")
SubmitReservation(e) == SetReservation(e, "DRAFT", "SUBMITTED")
ApproveReservation(e) ==
    /\ paid[e] < expense[e].amount
    /\ SetReservation(e, "SUBMITTED", "ACTIVE")
RejectReservation(e) == SetReservation(e, "SUBMITTED", "DRAFT")
EndReservation(e) ==
    \E s \in {"DRAFT", "SUBMITTED", "ACTIVE"} : SetReservation(e, s, "none")

TreasuryActs(e) ==
    \/ ReverseDisbursement(e)
    \/ CreateReservation(e) \/ SubmitReservation(e) \/ ApproveReservation(e)
    \/ RejectReservation(e) \/ EndReservation(e)

Advance(w) == LockRow(w) \/ Return(w) \/ Refuse(w) \/ Replay(w) \/ Decide(w)

Next ==
    \/ \E w \in Worker :
        \/ \E c \in Call : Begin(w, c)
        \/ Advance(w)
        \/ DeadlockVictim(w)
        \/ Crash(w)
    \/ \E e \in DOMAIN expense : TreasuryActs(e)

Spec == Init /\ [][Next]_vars

(* As in Treasury: InnoDB grants a lock to its waiters in turn and rolls a *)
(* deadlock back; a request never waits for its client.                    *)
Fairness == \A w \in Worker : SF_vars(Advance(w)) /\ WF_vars(DeadlockVictim(w))
FairSpec == Spec /\ Fairness

-----------------------------------------------------------------------------
(***************************************************************************)
(* Properties.                                                             *)
(***************************************************************************)
WorkRecord ==
    [call : Call \cup {None}, step : Nat, viewed : BOOLEAN,
     seen : [funds : [Budget -> Int], paid : [Expense -> Int]], spent : Int]

(* Types of the tables, the totals, the locks and the workers.             *)
TypeOK ==
    /\ DOMAIN budget \subseteq Budget
    /\ \A b \in DOMAIN budget : budget[b] \in BudgetRecord
    /\ DOMAIN request \subseteq FundRequest
    /\ \A r \in DOMAIN request : request[r] \in RequestRecord
    /\ DOMAIN expense \subseteq Expense
    /\ \A e \in DOMAIN expense : expense[e] \in ExpenseRecord
    /\ engagement \in [Document -> Expense \cup {None}]
    /\ funds \in [Budget -> Nat]
    /\ committed \in [Budget -> Int]
    /\ paid \in [Expense -> Int]
    /\ reversed \subseteq Expense
    /\ reservation \in [Expense -> ReservationStatus]
    /\ lock \in [Row -> Worker \cup {None}]
    /\ work \in [Worker -> WorkRecord]

Limit == [b \in Budget |-> IF b \in DOMAIN budget THEN budget[b].initial + funds[b] ELSE 0]

(* The expenses approved on a budget never exceed its initial amount and   *)
(* the extra funds approved for it, whichever approvals, cancellations,    *)
(* corrections and extra funds race (POST /hr/expenses/:id/approve).       *)
WithinEnvelope == \A b \in Budget : committed[b] <= Limit[b]

AmountOf(S, table) == SumFunctionOnSet([x \in S |-> table[x].amount], S)

(* The envelope and the commitments are those of the rows: each request of *)
(* extra funds and each approval counts once, however often it is decided, *)
(* retried or crashed.                                                     *)
TotalsMatchRows ==
    \A b \in DOMAIN budget :
        /\ funds[b] = AmountOf({r \in RequestsOf(b) : request[r].status = "APPROVED"}, request)
        /\ committed[b] = AmountOf(ApprovedOf(b), expense)

(* A budget that has not been approved has nobody spending on it, and one  *)
(* that is closed or cancelled has nothing left to decide: no draft        *)
(* expense, no pending request of extra funds (POST /hr/budgets/:id/close).*)
NothingStranded ==
    \A b \in DOMAIN budget :
        /\ budget[b].status \notin {"active", "closed"} => ExpensesOf(b) = {}
        /\ budget[b].status # "active" =>
            /\ \A e \in ExpensesOf(b) : expense[e].status # "draft"
            /\ \A r \in RequestsOf(b) : request[r].status # "SUBMITTED"

(* A closed budget owes nothing on the expenses it committed, except where *)
(* a disbursement was reversed: neither an approval nor a payment slips    *)
(* past the checks of POST /hr/budgets/:id/close.                          *)
ClosedOwesNothing ==
    \A b \in DOMAIN budget : budget[b].status = "closed" =>
        \A e \in ApprovedOf(b) \ reversed : paid[e] = expense[e].amount

(* Disbursements of an expense never exceed it.                            *)
PaidWithinAmount == \A e \in DOMAIN expense : paid[e] <= expense[e].amount

(* A remuneration or an invoice becomes one expense at most, however many  *)
(* requests engage it, on however many budgets.                            *)
EngagedOnce ==
    \A e \in DOMAIN expense : expense[e].document # None =>
        engagement[expense[e].document] = e

(* What concurrent decisions do to an envelope is what deciding one by one *)
(* would do: see Envelope.                                                 *)
Env == INSTANCE Envelope WITH limit <- Limit, spent <- committed
ImplementsEnvelope == Env!Spec

(* A transaction that holds a budget and asks for its expenses, requests   *)
(* or reservations, where the others ask for the budget last.              *)
AgainstOrder(w) ==
    LET c == work[w].call
    IN  c.op \in {"close", "approve expense", "engage"} /\ HasBudget(w, c)

(* Every cycle of waiting transactions has one of those in it, and stays   *)
(* within one budget: submissions, corrections, cancellations, payments    *)
(* and decisions on funds never deadlock among themselves, and a closure   *)
(* only with requests about what it closes.                                *)
DeadlocksAgainstOrder ==
    \A S \in SUBSET Worker :
        S # {} /\ Deadlocked(S) =>
            /\ \E w \in S : AgainstOrder(w)
            /\ \A w, x \in S : WaitsFor(w, x) =>
                  BudgetOf(work[w].call) = BudgetOf(work[x].call)

(* Every request ends, in spite of lock waits and deadlocks.               *)
EveryRequestEnds == \A w \in Worker : Busy(w) ~> ~Busy(w)

(* What the comment of the closing route promises: a request is not        *)
(* stranded afterwards, so no expense waits for a decision on a budget     *)
(* that is closed.                                                         *)
NoneSubmittedAfterClosure ==
    \A b \in DOMAIN budget : budget[b].status = "closed" =>
        \A e \in ExpensesOf(b) : expense[e].status # "submitted"

(* What the same comment and the correction report say of the order of     *)
(* locks: closing a budget and deciding one of its expenses never wait for *)
(* each other.                                                             *)
ConsistentLockOrder == \A S \in SUBSET Worker : S # {} => ~Deadlocked(S)
=============================================================================
