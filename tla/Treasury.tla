------------------------------ MODULE Treasury ------------------------------
(***************************************************************************)
(* Treasury accounts, the movements posted on them, and the reservations   *)
(* that set part of their cash aside for approved budget expenses:         *)
(* src/backend-node/src/modules/treasury.                                  *)
(*                                                                         *)
(* Every operation is one HTTP request that runs one database transaction  *)
(* (config/database.ts, transaction).  What makes it hard is the database  *)
(* it runs on: InnoDB at REPEATABLE READ.  SELECT ... FOR UPDATE waits for  *)
(* a row lock and reads the last committed row; a plain SELECT reads the   *)
(* snapshot the transaction took at its FIRST plain SELECT, however long   *)
(* ago that was; a sub-select in a locking statement counts as one, and is *)
(* evaluated as soon as the rows it is compared with are locked.  INSERT   *)
(* takes a shared lock on the rows its foreign keys name.  So an operation *)
(* is written here as its plan: the rows it locks, in the order of its     *)
(* statements, and the place of its first plain SELECT ("view").  Its      *)
(* guards are evaluated as soon as what they read is known, and a last     *)
(* step writes everything and commits.                                     *)
(*                                                                         *)
(* One concession and one currency; every account is an eligible cash or   *)
(* bank account attached to it, every budget a budget of it.  A sum the    *)
(* code computes with SUM(...) over rows is kept as a running total beside *)
(* the rows; OnceOnly ties the two.  Locks are locks on rows: gap locks    *)
(* are left out.                                                           *)
(***************************************************************************)
EXTENDS Integers, Sequences, FiniteSets, FiniteSetsExt

CONSTANTS
    Worker,         \* requests in progress, each on a connection of the pool
    User,           \* who creates and decides reservations
    Account,        \* account ids: numbers, since transfers lock in id order
    Expense,        \* budget expenses, approved when the model starts
    Reservation,    \* reservations, each named by its (creator, request id)
    TransferId,     \* ids left for new transfers: bounds the transfers
    Call,           \* the calls clients may send, and send again
    Opening,        \* [Account -> Nat]: opening balance movements
    Cost,           \* [Expense -> Nat]: amount of each expense
    None            \* null

(* The operations, each a route of the API or a call of another module.    *)
ReservationOps ==
    {"submit", "approve", "reject", "withdraw", "expire", "adjust", "release"}
Op == ReservationOps \cup {"manual", "collect", "refund", "disburse", "transfer",
                          "reverse", "status", "reserve", "cancel expense"}

(* What validation at the edge of the API (amount, id, requestId...)        *)
(* leaves of a request body.                                               *)
WellFormed(c) ==
    /\ c.op \in Op
    /\ c.op \in {"manual", "collect", "refund", "disburse", "transfer", "status",
                 "reserve"} => c.account \in Account
    /\ c.op \in {"manual", "collect", "refund", "disburse", "transfer", "reserve",
                 "adjust"} => c.amount \in Nat \ {0}
    /\ c.op = "manual" => c.direction \in {"IN", "OUT"}
    /\ c.op = "transfer" => c.to \in Account
    /\ c.op \in {"disburse", "reserve", "cancel expense"} => c.expense \in Expense
    /\ c.op = "disburse" => c.scope \in {"GLOBAL", "CONCESSION", "AGENCY"}
    /\ c.op = "reserve" => c.reservation \in Reservation /\ c.user \in User
    /\ c.op = "status" => c.active \in BOOLEAN

(* Every sum of money the calls can move, whole or in part.                *)
Amounts == UNION {0..c.amount : c \in {d \in Call : d.op \in
               {"manual", "collect", "refund", "disburse", "transfer", "reserve"}}}

ASSUME TreasuryAssumption ==
    /\ \A c \in Call : WellFormed(c)
    /\ Account \subseteq Nat
    /\ Opening \in [Account -> Nat]
    /\ Cost \in [Expense -> Nat]
    /\ None \notin Worker /\ None \notin Account /\ None \notin Call
    /\ None \notin [Account -> Int]

VARIABLES
    isActive,       \* treasury_accounts.is_active
    approval,       \* budget_expenses.approval_status
    ledger,         \* treasury_movements: append-only set of rows
    reservation,    \* treasury_reservations: id -> row, for inserted ids
    balance,        \* SUM of posted movements, per account
    reserved,       \* SUM of ACTIVE reservations, per account
    engaged,        \* SUM of ACTIVE reservations, per expense
    paid,           \* SUM of disbursements not reversed, per expense
    lock,           \* row -> the worker whose transaction holds it
    sharing,        \* the workers with a shared lock on the concession
    work            \* worker -> the call it runs, and how far it is

totals == <<balance, reserved, engaged, paid>>
rows   == <<isActive, approval, ledger, reservation>>
tables == <<isActive, approval, ledger, reservation, balance, reserved, engaged, paid>>
vars   == <<isActive, approval, ledger, reservation,
            balance, reserved, engaged, paid, lock, sharing, work>>

-----------------------------------------------------------------------------
(***************************************************************************)
(* Rows that transactions lock.  One "invoice" row stands for the sale,    *)
(* invoice, payment and credit note rows billing locks before a refund.    *)
(***************************************************************************)
AccountRow(a)     == <<"account", a>>
ExpenseRow(e)     == <<"expense", e>>
ReservationRow(r) == <<"reservation", r>>
InvoiceRow(p)     == <<"invoice", p>>
ConcessionRow     == <<"concession", "row">>
View              == <<"view", "first plain SELECT">>

Payment == {c.payment : c \in {d \in Call : d.op \in {"collect", "refund"}}}

Row == {AccountRow(a) : a \in Account} \cup {ExpenseRow(e) : e \in Expense}
       \cup {ReservationRow(r) : r \in Reservation}
       \cup {InvoiceRow(p) : p \in Payment} \cup {ConcessionRow}

Status == {"DRAFT", "SUBMITTED", "REJECTED", "ACTIVE",
           "CANCELLED", "EXPIRED", "RELEASED", "CONSUMED"}
Terminal == {"CANCELLED", "EXPIRED", "RELEASED", "CONSUMED"}

(***************************************************************************)
(* Movements.  The ledger maps a movement's id to its row, and the id is   *)
(* the unique key the schema gives it: the client request of a manual      *)
(* operation or disbursement, the payment or refund it books, the leg of a *)
(* transfer, or the movement it reverses (unique reversal_of_id).  "about" *)
(* is the expense a disbursement pays or the payment a refund returns.     *)
(***************************************************************************)
Movement(a, dir, n, about) ==
    [account |-> a, direction |-> dir, amount |-> n, about |-> about]

Posted(id)   == id \in DOMAIN ledger
Reversal(id) == <<"reversal", id>>
Debit(t)     == <<"debit", t>>
Credit(t)    == <<"credit", t>>
IsLeg(id)    == id[1] \in {"debit", "credit"}
Opposite(d)  == IF d = "IN" THEN "OUT" ELSE "IN"
Signed(m)    == IF m.direction = "IN" THEN m.amount ELSE -m.amount

Insert(table, id, row) ==
    [x \in DOMAIN table \cup {id} |-> IF x = id THEN row ELSE table[x]]

(* SELECT SUM(...) over the rows whose ids are in S.                       *)
AmountOf(S) == SumFunctionOnSet([id \in S |-> ledger[id].amount], S)

Refunded(p) == AmountOf({id \in DOMAIN ledger : id[1] = "refund" /\ ledger[id].about = p})

-----------------------------------------------------------------------------
(***************************************************************************)
(* A worker and the transaction it runs.                                   *)
(***************************************************************************)
NoView == [balance  |-> [a \in Account |-> 0], reserved |-> [a \in Account |-> 0],
           engaged  |-> [e \in Expense |-> 0], paid     |-> [e \in Expense |-> 0]]
Idle == [call |-> None, step |-> 0, viewed |-> FALSE, view |-> NoView]

Busy(w)       == work[w].call # None
Viewed(w)     == work[w].viewed
Holds(w, row) == lock[row] = w
Snapshot == [balance |-> balance, reserved |-> reserved,
             engaged |-> engaged, paid |-> paid]

(* The account a call debits, or None.                                     *)
Debited(c) ==
    CASE c.op = "manual" -> IF c.direction = "OUT" THEN c.account ELSE None
      [] c.op \in {"disburse", "refund", "transfer"} -> c.account
      [] c.op = "reverse" ->
            IF IsLeg(c.movement) THEN ledger[Credit(c.movement[2])].account
            ELSE IF ledger[c.movement].direction = "IN"
                 THEN ledger[c.movement].account ELSE None
      [] OTHER -> None

Lower(a, b)  == IF a < b THEN a ELSE b
Higher(a, b) == IF a < b THEN b ELSE a

ReverseTransferPlan(clicked, from, to) ==
    <<AccountRow(clicked), View,
      AccountRow(Lower(from, to)), AccountRow(Higher(from, to))>>

(* A disbursement asked with the scope CONCESSION: its first statement     *)
(* finds the concession of the user in a sub-select, which is compared     *)
(* with the budget of the expense.                                         *)
ReadsScopeFirst(c) == c.op = "disburse" /\ c.scope = "CONCESSION"

(* Mutant: the sums are read before the account is held.                   *)
ExpensePlanReadingFirst(c) ==
    <<View, ExpenseRow(c.expense), ConcessionRow, AccountRow(c.account)>>

(* Mutant: the account first, as postMovement alone would lock it.         *)
ExpensePlanAccountFirst(c) ==
    <<AccountRow(c.account), ExpenseRow(c.expense), ConcessionRow, View>>

(* What both the disbursement of an expense and a reservation for it do:   *)
(* the expense and its concession first, then the account.  The snapshot   *)
(* is taken once the account is held, but by the statement of the expense  *)
(* when the scope is read there.  Whether that is before or after the      *)
(* statement has locked the concession too is left to MySQL: before allows *)
(* all that after does.                                                    *)
ExpensePlan(c) ==
    IF ReadsScopeFirst(c)
    THEN <<ExpenseRow(c.expense), View, ConcessionRow, AccountRow(c.account)>>
    ELSE <<ExpenseRow(c.expense), ConcessionRow, AccountRow(c.account), View>>

(* The statements of each operation: locking reads, and the first plain    *)
(* one.  A refund, the reversal of a transfer and a disbursement with the  *)
(* scope CONCESSION read plainly before they lock every account they need. *)
Plan(c) ==
    CASE c.op = "manual" ->
            IF c.direction = "IN" THEN <<AccountRow(c.account)>>
            ELSE <<AccountRow(c.account), View>>
      [] c.op = "collect" ->
            <<InvoiceRow(c.payment), ConcessionRow, AccountRow(c.account)>>
      [] c.op = "refund" ->
            <<InvoiceRow(c.payment), View, AccountRow(c.account)>>
      [] c.op \in {"disburse", "reserve"} -> ExpensePlan(c)
      [] c.op = "transfer" ->
            <<AccountRow(Lower(c.account, c.to)), AccountRow(Higher(c.account, c.to)), View>>
      [] c.op = "reverse" ->
            IF IsLeg(c.movement)
            THEN ReverseTransferPlan(ledger[c.movement].account,
                                     ledger[Debit(c.movement[2])].account,
                                     ledger[Credit(c.movement[2])].account)
            ELSE IF ledger[c.movement].direction = "IN"
                 THEN <<AccountRow(ledger[c.movement].account), View>>
                 ELSE <<AccountRow(ledger[c.movement].account)>>
      [] c.op = "status" -> <<AccountRow(c.account)>>
      [] c.op = "cancel expense" -> <<ExpenseRow(c.expense), View>>
      [] c.op \in {"approve", "adjust"} ->
            <<ReservationRow(c.reservation),
              AccountRow(reservation[c.reservation].account), View>>
      [] OTHER ->
            <<ReservationRow(c.reservation),
              AccountRow(reservation[c.reservation].account)>>

(* The reservations an operation locks once its plan is done: postMovement *)
(* those ACTIVE on the account it debits, the cancellation of an expense   *)
(* those SUBMITTED or ACTIVE for it, a repeated reservation its own row,   *)
(* and a disbursement the reservation it consumes.                         *)
Scanned(c) ==
    {r \in DOMAIN reservation :
        \/ /\ Debited(c) # None
           /\ reservation[r].account = Debited(c)
           /\ reservation[r].status = "ACTIVE"
        \/ /\ c.op = "cancel expense"
           /\ reservation[r].expense = c.expense
           /\ reservation[r].status \in {"SUBMITTED", "ACTIVE"}
        \/ c.op \in {"reserve", "disburse"} /\ r = c.reservation}

InPlan(w)  == Busy(w) /\ work[w].step <= Len(Plan(work[w].call))
Planned(w) == Busy(w) /\ work[w].step > Len(Plan(work[w].call))
Current(w) == Plan(work[w].call)[work[w].step]

(* The operations that insert a row naming the concession without having   *)
(* locked it: a manual operation the operation itself, before postMovement *)
(* looks for reservations; the others the line of the audit log, last.     *)
InsertsFirst(c) == c.op = "manual"
InsertsLast(c)  == c.op \in {"refund", "transfer", "reverse", "status"}

(* The rows a worker's next statement asks for.                            *)
Wants(w) ==
    IF InPlan(w) THEN {Current(w)} \ {View}
    ELSE IF Busy(w) /\ (InsertsFirst(work[w].call) => w \in sharing)
         THEN {ReservationRow(r) : r \in
                  {x \in Scanned(work[w].call) : ~Holds(w, ReservationRow(x))}}
         ELSE {}

(* Every statement that reads has returned: all is known that decides.     *)
Ready(w) ==
    /\ Planned(w)
    /\ Wants(w) = {}
    /\ InsertsFirst(work[w].call) => w \in sharing

(* A worker's next statement inserts a row naming the concession.          *)
WantsShare(w) ==
    /\ Planned(w)
    /\ w \notin sharing
    /\ \/ InsertsFirst(work[w].call)
       \/ InsertsLast(work[w].call) /\ Wants(w) = {}

-----------------------------------------------------------------------------
(***************************************************************************)
(* Guards.  Each reads what its operation has locked or seen so far, so an *)
(* operation is refused at the statement that finds it impossible.         *)
(***************************************************************************)
Amount(c) == IF c.op = "reverse" THEN ledger[c.movement].amount ELSE c.amount

(* The movement a call with a client request or a payment id would insert. *)
DraftId(c) == <<c.op, IF c.op = "collect" THEN c.payment ELSE c.request>>
Draft(c) ==
    CASE c.op = "manual"   -> Movement(c.account, c.direction, c.amount, None)
      [] c.op = "collect"  -> Movement(c.account, "IN", c.amount, None)
      [] c.op = "disburse" -> Movement(c.account, "OUT", c.amount, c.expense)
      [] c.op = "refund"   -> Movement(c.account, "OUT", c.amount, c.payment)
Served(c) == Posted(DraftId(c)) /\ ledger[DraftId(c)] = Draft(c)

(* Request id already used with a different content: refused.  With the    *)
(* same content: answered from the rows, nothing is written.               *)
SameOrNew(c) == Posted(DraftId(c)) => Served(c)

(* The plain SELECT of the balance that precedes postMovement.             *)
Sufficient(w, c) ==
    Viewed(w) /\ Holds(w, AccountRow(c.account)) =>
        work[w].view.balance[Debited(c)] >= Amount(c)

(* Mutant: an outflow looks at the balance only.                           *)
LiquidIgnoringReservations(w, c, own) ==
    Ready(w) => work[w].view.balance[Debited(c)] >= Amount(c)

(* postMovement, OUT: the balance of the view, less the ACTIVE reservations *)
(* it has just locked, the one being consumed excepted.                    *)
Liquid(w, c, own) ==
    Ready(w) => work[w].view.balance[Debited(c)]
                  - (reserved[Debited(c)] - own) >= Amount(c)

(* The reservation a disbursement consumes, if it names one.               *)
Consumes(c) == c.op = "disburse" /\ c.reservation # None
Consumable(c) ==
    /\ c.reservation \in DOMAIN reservation
    /\ LET r == reservation[c.reservation]
       IN  /\ r.account = c.account
           /\ r.expense = c.expense
           /\ r.status = "ACTIVE"
           /\ c.amount <= r.active
Own(c) ==
    IF /\ Consumes(c)
       /\ c.reservation \in DOMAIN reservation
       /\ reservation[c.reservation].account = c.account
       /\ reservation[c.reservation].status = "ACTIVE"
    THEN reservation[c.reservation].active ELSE 0

(* expenseAvailable and accountAvailable, on the view v.                   *)
ExpenseAvailable(v, e, own) ==
    (IF Cost[e] > v.paid[e] THEN Cost[e] - v.paid[e] ELSE 0) - (v.engaged[e] - own)
AccountAvailable(v, a, own) == v.balance[a] - (v.reserved[a] - own)

Covered(w, a, e, n, own) ==
    Viewed(w) => /\ n <= ExpenseAvailable(work[w].view, e, own)
                 /\ n <= AccountAvailable(work[w].view, a, own)

ManualGuard(w, c) ==
    /\ Holds(w, AccountRow(c.account)) => isActive[c.account] /\ SameOrNew(c)
    /\ c.direction = "OUT" => Sufficient(w, c) /\ Liquid(w, c, 0)

CollectGuard(w, c) ==
    Holds(w, AccountRow(c.account)) => isActive[c.account]

(* Mutant: what was already refunded is forgotten.                         *)
RefundGuardUncapped(w, c) ==
    /\ Holds(w, InvoiceRow(c.payment)) =>
        SameOrNew(c) /\ Posted(<<"collect", c.payment>>)
    /\ Holds(w, AccountRow(c.account)) => isActive[c.account]
    /\ Sufficient(w, c)
    /\ Liquid(w, c, 0)

(* A refund is paid from the account the payment was collected on.         *)
RefundGuard(w, c) ==
    /\ Holds(w, InvoiceRow(c.payment)) =>
        /\ SameOrNew(c)
        /\ Posted(<<"collect", c.payment>>)
        /\ c.account = ledger[<<"collect", c.payment>>].account
        /\ ~Served(c) =>
            c.amount <= ledger[<<"collect", c.payment>>].amount - Refunded(c.payment)
    /\ Holds(w, AccountRow(c.account)) => isActive[c.account]
    /\ Sufficient(w, c)
    /\ Liquid(w, c, 0)

(* Mutant: what the expense has already been paid is forgotten.            *)
DisburseGuardUncapped(w, c) ==
    /\ Holds(w, AccountRow(c.account)) => isActive[c.account] /\ SameOrNew(c)
    /\ Sufficient(w, c)
    /\ Liquid(w, c, Own(c))
    /\ Ready(w) /\ Consumes(c) => Consumable(c)

DisburseGuard(w, c) ==
    /\ Holds(w, AccountRow(c.account)) => isActive[c.account] /\ SameOrNew(c)
    /\ Viewed(w) => c.amount <= Cost[c.expense] - work[w].view.paid[c.expense]
    /\ Sufficient(w, c)
    /\ Liquid(w, c, Own(c))
    /\ Ready(w) /\ Consumes(c) => Consumable(c)

TransferGuard(w, c) ==
    /\ c.account # c.to
    /\ Viewed(w) => /\ isActive[c.account] /\ isActive[c.to]
                    /\ c.amount <= AccountAvailable(work[w].view, c.account, 0)
    /\ Liquid(w, c, 0)

(* Mutant: an entry that was reversed can be reversed again.               *)
ReverseGuardRepeatable(w, c) ==
    /\ c.movement[1] # "reversal"
    /\ Debited(c) # None => Liquid(w, c, 0)

ReverseGuard(w, c) ==
    /\ c.movement[1] # "reversal"
    /\ Debited(c) # None =>
        /\ ~IsLeg(c.movement) /\ Viewed(w) =>
              work[w].view.balance[Debited(c)] >= Amount(c)
        /\ Liquid(w, c, 0)
    /\ Ready(w) => ~Posted(Reversal(c.movement))

ReserveGuard(w, c) ==
    /\ Holds(w, ExpenseRow(c.expense)) => approval[c.expense] = "approved"
    /\ Holds(w, AccountRow(c.account)) => isActive[c.account]
    /\ Covered(w, c.account, c.expense, c.amount, 0)
    /\ Ready(w) /\ c.reservation \in DOMAIN reservation =>
         LET r == reservation[c.reservation]
         IN  r.account = c.account /\ r.expense = c.expense /\ r.initial = c.amount

(* Mutant: only an approval looks at the state of the reservation.         *)
ReservationGuardAnyState(w, c) ==
    LET r == reservation[c.reservation]
    IN  Holds(w, AccountRow(r.account)) /\ c.op = "approve" =>
        /\ r.status = "SUBMITTED" /\ r.creator # c.user
        /\ Covered(w, r.account, r.expense, r.initial, 0)

(* The state and the actor each later operation on a reservation demands.  *)
ReservationGuard(w, c) ==
    LET r == reservation[c.reservation]
    IN  Holds(w, AccountRow(r.account)) =>
        /\ c.op = "submit" => r.status \in {"DRAFT", "REJECTED"}
        /\ c.op \in {"approve", "reject"} => r.status = "SUBMITTED" /\ r.creator # c.user
        /\ c.op = "approve" => Covered(w, r.account, r.expense, r.initial, 0)
        /\ c.op = "withdraw" => r.status \in {"DRAFT", "SUBMITTED", "REJECTED"}
        /\ c.op = "adjust" => /\ r.status = "ACTIVE" /\ c.amount <= r.active
                             /\ Covered(w, r.account, r.expense, c.amount, r.active)
        /\ c.op \in {"expire", "release"} => r.status = "ACTIVE" /\ r.active > 0

CancelExpenseGuard(w, c) ==
    /\ Holds(w, ExpenseRow(c.expense)) => approval[c.expense] # "cancelled"
    /\ Viewed(w) => work[w].view.paid[c.expense] = 0
    /\ Ready(w) => Scanned(c) = {}

Allowed(w) ==
    LET c == work[w].call
    IN  /\ c.op = "manual" => ManualGuard(w, c)
        /\ c.op = "collect" => CollectGuard(w, c)
        /\ c.op = "refund" => RefundGuard(w, c)
        /\ c.op = "disburse" => DisburseGuard(w, c)
        /\ c.op = "transfer" => TransferGuard(w, c)
        /\ c.op = "reverse" => ReverseGuard(w, c)
        /\ c.op = "reserve" => ReserveGuard(w, c)
        /\ c.op \in ReservationOps => ReservationGuard(w, c)
        /\ c.op = "cancel expense" => CancelExpenseGuard(w, c)

(* The call was already served: the answer is read back.                   *)
Replayed(w) ==
    LET c == work[w].call
    IN  \/ /\ c.op \in {"manual", "disburse"}
           /\ Holds(w, AccountRow(c.account))
           /\ Served(c)
        \/ /\ c.op = "refund"
           /\ Holds(w, InvoiceRow(c.payment))
           /\ Served(c)
        \/ /\ c.op = "collect"
           /\ Holds(w, InvoiceRow(c.payment))
           /\ Posted(DraftId(c))
        \/ /\ c.op = "reserve"
           /\ Ready(w)
           /\ c.reservation \in DOMAIN reservation

Proceeds(w) == Busy(w) /\ Allowed(w) /\ ~Replayed(w)

-----------------------------------------------------------------------------
(***************************************************************************)
(* The transaction: begin, lock, snapshot, end.                            *)
(***************************************************************************)
Init ==
    /\ isActive = [a \in Account |-> TRUE]
    /\ approval = [e \in Expense |-> "approved"]
    /\ ledger = [id \in {} |-> None]
    /\ reservation = [r \in {} |-> None]
    /\ balance = Opening
    /\ reserved = [a \in Account |-> 0]
    /\ engaged = [e \in Expense |-> 0]
    /\ paid = [e \in Expense |-> 0]
    /\ lock = [r \in Row |-> None]
    /\ sharing = {}
    /\ work = [w \in Worker |-> Idle]

(* A row the call names exists: otherwise 404, nothing happens.            *)
Found(c) ==
    /\ c.op = "reverse" => Posted(c.movement)
    /\ c.op \in ReservationOps => c.reservation \in DOMAIN reservation
    /\ c.op = "transfer" =>
        Cardinality({t \in TransferId : ~Posted(Debit(t))})
          > Cardinality({w \in Worker : Busy(w) /\ work[w].call.op = "transfer"})

(* assertBudgetExpenseApproved: the budget route's check, a query of its   *)
(* own before the transaction.  Supplier payments do not make it.          *)
Prechecked(c) ==
    c.op = "disburse" /\ c.route = "budget" => approval[c.expense] = "approved"

Begin(w, c) ==
    /\ ~Busy(w)
    /\ Found(c)
    /\ Prechecked(c)
    /\ work' = [work EXCEPT ![w] = [Idle EXCEPT !.call = c, !.step = 1]]
    /\ UNCHANGED <<tables, lock, sharing>>

(* SELECT ... FOR UPDATE returns: the row is free, or already ours.        *)
LockRow(w) ==
    /\ Proceeds(w)
    /\ \E r \in Wants(w) :
        /\ lock[r] \in {None, w}
        /\ r = ConcessionRow => sharing \subseteq {w}
        /\ lock' = [lock EXCEPT ![r] = w]
    /\ work' = IF InPlan(w) THEN [work EXCEPT ![w].step = @ + 1] ELSE work
    /\ UNCHANGED <<tables, sharing>>

(* INSERT: the foreign key takes a shared lock, unless another transaction *)
(* has locked the concession for itself.                                   *)
ShareConcession(w) ==
    /\ Proceeds(w)
    /\ WantsShare(w)
    /\ lock[ConcessionRow] \in {None, w}
    /\ sharing' = sharing \cup {w}
    /\ UNCHANGED <<tables, lock, work>>

(* The first plain SELECT: the transaction's snapshot is taken.            *)
OpenView(w) ==
    /\ Proceeds(w)
    /\ InPlan(w)
    /\ Current(w) = View
    /\ work' = [work EXCEPT ![w] =
                    [call |-> @.call, step |-> @.step + 1,
                                 viewed |-> TRUE, view |-> Snapshot]]
    /\ UNCHANGED <<tables, lock, sharing>>

(* Mutant: the rollback is forgotten, the rows stay locked.                *)
EndKeepingLocks(w) ==
    /\ work' = [work EXCEPT ![w] = Idle]
    /\ UNCHANGED <<lock, sharing>>

(* COMMIT or ROLLBACK: the locks go, the connection returns to the pool.   *)
End(w) ==
    /\ lock' = [x \in Row |-> IF lock[x] = w THEN None ELSE lock[x]]
    /\ sharing' = sharing \ {w}
    /\ work' = [work EXCEPT ![w] = Idle]

(* An HttpError: rollback.                                                 *)
Refuse(w) ==
    /\ Busy(w)
    /\ ~Allowed(w)
    /\ End(w)
    /\ UNCHANGED tables

(* duplicate: true.                                                        *)
Replay(w) ==
    /\ Busy(w)
    /\ Allowed(w)
    /\ Replayed(w)
    /\ End(w)
    /\ UNCHANGED tables

(* InnoDB breaks a cycle of waiting transactions by rolling one back; the  *)
(* treasury does not retry it: HTTP 500.                                   *)
Against(w, r) ==
    {x \in Worker : x # w /\ (lock[r] = x \/ (r = ConcessionRow /\ x \in sharing))}
WaitsFor(w, x) ==
    \/ /\ \A r \in Wants(w) : Against(w, r) # {}
       /\ \E r \in Wants(w) : x \in Against(w, r)
    \/ WantsShare(w) /\ x # w /\ lock[ConcessionRow] = x
Deadlocked(S) ==
    \A w \in S : (\E x \in S : WaitsFor(w, x)) /\ (\E x \in S : WaitsFor(x, w))
DeadlockVictim(w) ==
    /\ \E S \in SUBSET Worker : w \in S /\ Deadlocked(S)
    /\ End(w)
    /\ UNCHANGED tables

(* The process or the connection is lost before COMMIT.                    *)
Crash(w) ==
    /\ Busy(w)
    /\ End(w)
    /\ UNCHANGED tables

-----------------------------------------------------------------------------
(***************************************************************************)
(* The decisions: one action per operation, its writes and its COMMIT.     *)
(***************************************************************************)
Decides(w, op) ==
    Ready(w) /\ ~WantsShare(w) /\ work[w].call.op = op /\ Proceeds(w)

Post(id, m) ==
    /\ ledger' = Insert(ledger, id, m)
    /\ balance' = [balance EXCEPT ![m.account] = @ + Signed(m)]

PostTwo(i, m, j, n) ==
    /\ ledger' = Insert(Insert(ledger, i, m), j, n)
    /\ balance' = [balance EXCEPT ![m.account] = @ + Signed(m),
                                  ![n.account] = @ + Signed(n)]

(* UPDATE treasury_reservations: the row, and so the sums that read it.    *)
ActiveAmount(r) == IF r.status = "ACTIVE" THEN r.active ELSE 0
UpdateReservation(id, new) ==
    LET old   == reservation[id]
        delta == ActiveAmount(new) - ActiveAmount(old)
    IN  /\ reservation' = [reservation EXCEPT ![id] = new]
        /\ reserved' = [reserved EXCEPT ![old.account] = @ + delta]
        /\ engaged' = [engaged EXCEPT ![old.expense] = @ + delta]

ManualOperation(w) ==
    /\ Decides(w, "manual")
    /\ Post(DraftId(work[w].call), Draft(work[w].call))
    /\ End(w)
    /\ UNCHANGED <<isActive, approval, reservation, reserved, engaged, paid>>

PostAutomaticMovement(w) ==
    /\ Decides(w, "collect")
    /\ Post(DraftId(work[w].call), Draft(work[w].call))
    /\ End(w)
    /\ UNCHANGED <<isActive, approval, reservation, reserved, engaged, paid>>

PostPaymentRefundMovement(w) ==
    /\ Decides(w, "refund")
    /\ Post(DraftId(work[w].call), Draft(work[w].call))
    /\ End(w)
    /\ UNCHANGED <<isActive, approval, reservation, reserved, engaged, paid>>

Consumed(r, n) ==
    [r EXCEPT !.active = @ - n,
              !.status = IF r.active = n THEN "CONSUMED" ELSE "ACTIVE"]

BudgetExpenseDisburse(w) ==
    LET c == work[w].call
    IN  /\ Decides(w, "disburse")
        /\ Post(DraftId(c), Draft(c))
        /\ paid' = [paid EXCEPT ![c.expense] = @ + c.amount]
        /\ IF Consumes(c)
           THEN UpdateReservation(c.reservation,
                                  Consumed(reservation[c.reservation], c.amount))
           ELSE UNCHANGED <<reservation, reserved, engaged>>
        /\ End(w)
        /\ UNCHANGED <<isActive, approval>>

MakeTransfer(w) ==
    LET c == work[w].call
    IN  /\ Decides(w, "transfer")
        /\ \E t \in {u \in TransferId : ~Posted(Debit(u))} :
              PostTwo(Debit(t), Movement(c.account, "OUT", c.amount, None),
                      Credit(t), Movement(c.to, "IN", c.amount, None))
        /\ End(w)
        /\ UNCHANGED <<isActive, approval, reservation, reserved, engaged, paid>>

Reversed(m) == Movement(m.account, Opposite(m.direction), m.amount, None)

Reverse(w) ==
    LET id == work[w].call.movement
        m  == ledger[id]
    IN  /\ Decides(w, "reverse")
        /\ ~IsLeg(id)
        /\ Post(Reversal(id), Reversed(m))
        /\ paid' = IF id[1] = "disburse"
                   THEN [paid EXCEPT ![m.about] = @ - m.amount] ELSE paid
        /\ End(w)
        /\ UNCHANGED <<isActive, approval, reservation, reserved, engaged>>

ReverseTransfer(w) ==
    LET t == work[w].call.movement[2]
    IN  /\ Decides(w, "reverse")
        /\ IsLeg(work[w].call.movement)
        /\ PostTwo(Reversal(Debit(t)), Reversed(ledger[Debit(t)]),
                   Reversal(Credit(t)), Reversed(ledger[Credit(t)]))
        /\ End(w)
        /\ UNCHANGED <<isActive, approval, reservation, reserved, engaged, paid>>

AccountStatus(w) ==
    LET c == work[w].call
    IN  /\ Decides(w, "status")
        /\ isActive' = [isActive EXCEPT ![c.account] = c.active]
        /\ End(w)
        /\ UNCHANGED <<approval, ledger, reservation, totals>>

CreateReservation(w) ==
    LET c == work[w].call
        new == [account |-> c.account, expense |-> c.expense, creator |-> c.user,
                initial |-> c.amount, active |-> 0, status |-> "DRAFT"]
    IN  /\ Decides(w, "reserve")
        /\ reservation' = Insert(reservation, c.reservation, new)
        /\ End(w)
        /\ UNCHANGED <<isActive, approval, ledger, totals>>

ChangeReservation(w, op, status, active) ==
    LET id == work[w].call.reservation
    IN  /\ Decides(w, op)
        /\ UpdateReservation(id, [reservation[id] EXCEPT !.status = status,
                                                         !.active = active])
        /\ End(w)
        /\ UNCHANGED <<isActive, approval, ledger, balance, paid>>

Target(w) == reservation[work[w].call.reservation]

SubmitReservation(w)  == ChangeReservation(w, "submit", "SUBMITTED", Target(w).active)
ApproveReservation(w) == ChangeReservation(w, "approve", "ACTIVE", Target(w).initial)
RejectReservation(w)  == ChangeReservation(w, "reject", "REJECTED", Target(w).active)
CancelReservation(w)  == ChangeReservation(w, "withdraw", "CANCELLED", 0)
ExpireReservation(w)  == ChangeReservation(w, "expire", "EXPIRED", 0)
AdjustReservation(w)  == ChangeReservation(w, "adjust", "ACTIVE", work[w].call.amount)
ReleaseReservation(w) == ChangeReservation(w, "release", "RELEASED", 0)

CancelExpense(w) ==
    /\ Decides(w, "cancel expense")
    /\ approval' = [approval EXCEPT ![work[w].call.expense] = "cancelled"]
    /\ End(w)
    /\ UNCHANGED <<isActive, ledger, reservation, totals>>

Decide(w) ==
    \/ ManualOperation(w)
    \/ PostAutomaticMovement(w)
    \/ PostPaymentRefundMovement(w)
    \/ BudgetExpenseDisburse(w)
    \/ MakeTransfer(w)
    \/ Reverse(w)
    \/ ReverseTransfer(w)
    \/ AccountStatus(w)
    \/ CreateReservation(w)
    \/ SubmitReservation(w)
    \/ ApproveReservation(w)
    \/ RejectReservation(w)
    \/ CancelReservation(w)
    \/ ExpireReservation(w)
    \/ AdjustReservation(w)
    \/ ReleaseReservation(w)
    \/ CancelExpense(w)

Advance(w) ==
    LockRow(w) \/ ShareConcession(w) \/ OpenView(w) \/ Refuse(w) \/ Replay(w) \/ Decide(w)

Next ==
    \E w \in Worker :
        \/ \E c \in Call : Begin(w, c)
        \/ Advance(w)
        \/ DeadlockVictim(w)
        \/ Crash(w)

Spec == Init /\ [][Next]_vars

(* InnoDB grants a lock to its waiters in turn and rolls a deadlock back;  *)
(* a request never waits for its client.                                   *)
Fairness == \A w \in Worker : SF_vars(Advance(w)) /\ WF_vars(DeadlockVictim(w))
FairSpec == Spec /\ Fairness

-----------------------------------------------------------------------------
(***************************************************************************)
(* Properties.                                                             *)
(***************************************************************************)
ReservationRecord ==
    [account : Account, expense : Expense, creator : User,
     initial : Amounts \ {0}, active : Nat, status : Status]

MovementRecord(m) ==
    m.account \in Account /\ m.direction \in {"IN", "OUT"} /\ m.amount \in Amounts
ViewRecord ==
    [balance : [Account -> Int], reserved : [Account -> Int],
     engaged : [Expense -> Int], paid : [Expense -> Int]]
WorkRecord ==
    [call : Call \cup {None}, step : Nat, viewed : BOOLEAN, view : ViewRecord]

(* Types of the tables, the totals, the locks and the workers.             *)
TypeOK ==
    /\ isActive \in [Account -> BOOLEAN]
    /\ approval \in [Expense -> {"approved", "cancelled"}]
    /\ \A id \in DOMAIN ledger : MovementRecord(ledger[id])
    /\ DOMAIN reservation \subseteq Reservation
    /\ \A r \in DOMAIN reservation : reservation[r] \in ReservationRecord
    /\ balance \in [Account -> Int]
    /\ reserved \in [Account -> Int]
    /\ engaged \in [Expense -> Int]
    /\ paid \in [Expense -> Int]
    /\ lock \in [Row -> Worker \cup {None}]
    /\ sharing \subseteq Worker
    /\ work \in [Worker -> WorkRecord]

(* Operations that take their snapshot before they hold the account whose  *)
(* sums they decide on: a refund, a disbursement with the scope CONCESSION *)
(* and the reversal of a transfer asked on its debit leg.                  *)
StaleReader(c) ==
    \/ c.op = "refund"
    \/ ReadsScopeFirst(c)
    \/ c.op = "reverse" /\ c.movement[1] = "debit"

(* The account on whose sums a call decides, or None.                      *)
Focus(c) ==
    CASE c.op = "reserve" -> c.account
      [] c.op \in {"approve", "adjust"} -> reservation[c.reservation].account
      [] OTHER -> Debited(c)

(* What an operation decides from is still true when it decides: from its  *)
(* first plain SELECT to its COMMIT, the balance and the reservations of   *)
(* the account it debits or reserves on are those its snapshot shows,      *)
(* however many others commit meanwhile (the lock-then-read discipline of  *)
(* treasury.service.ts).  The stale readers break it.                      *)
SeesFresh(w) ==
    LET c == work[w].call
    IN  Busy(w) /\ Viewed(w) /\ ~StaleReader(c) /\ Focus(c) # None =>
          /\ Holds(w, AccountRow(Focus(c)))
          /\ work[w].view.balance[Focus(c)] = balance[Focus(c)]
          /\ work[w].view.reserved[Focus(c)] = reserved[Focus(c)]
FreshView == \A w \in Worker : SeesFresh(w)

(* A disbursement in progress never underestimates what is already paid of *)
(* its expense: reversals may lower it meanwhile, nobody may raise it.     *)
SeesPaid(w) ==
    LET c == work[w].call
    IN  Busy(w) /\ Viewed(w) /\ c.op = "disburse" =>
          /\ Holds(w, ExpenseRow(c.expense))
          /\ paid[c.expense] <= work[w].view.paid[c.expense]
FreshPaid == \A w \in Worker : SeesPaid(w)

(* A transaction holds every row of the statements behind it, and has its  *)
(* snapshot once it is past the first plain SELECT.                        *)
FollowsPlan(w) ==
    LET c == work[w].call
    IN  Busy(w) =>
          /\ work[w].step >= 1
          /\ c.op = "reverse" => Posted(c.movement)
          /\ c.op \in ReservationOps => c.reservation \in DOMAIN reservation
          /\ \A j \in 1..Len(Plan(c)) :
                j < work[w].step /\ Plan(c)[j] # View => Holds(w, Plan(c)[j])
          /\ Viewed(w) <=> \E j \in 1..Len(Plan(c)) :
                             j < work[w].step /\ Plan(c)[j] = View
PlanFollowed == \A w \in Worker : FollowsPlan(w)

(* Transfers and their reversals post both legs, in opposite directions,   *)
(* on two different accounts.                                              *)
LedgerShape ==
    \A id \in DOMAIN ledger :
        /\ IsLeg(id) =>
            /\ id \in {Debit(id[2]), Credit(id[2])}
            /\ Posted(Debit(id[2])) /\ Posted(Credit(id[2]))
            /\ ledger[Debit(id[2])].direction = "OUT"
            /\ ledger[Credit(id[2])].direction = "IN"
            /\ ledger[Debit(id[2])].amount = ledger[Credit(id[2])].amount
            /\ ledger[Debit(id[2])].account # ledger[Credit(id[2])].account
            /\ Posted(Reversal(Debit(id[2]))) <=> Posted(Reversal(Credit(id[2])))
        /\ id[1] = "reversal" => Posted(id[2])

(* The cash of an account always covers the reservations ACTIVE on it.     *)
(* The stale readers break it.                                             *)
Solvent == \A a \in Account : balance[a] >= reserved[a]

(* Free cash is never overspent, in any interleaving of outflows,          *)
(* reservations, refunds and disbursements, but by a stale reader: when    *)
(* the cash of an account less its ACTIVE reservations falls below zero,   *)
(* or further below, the step is the decision of one of them, taken on     *)
(* that account (postMovement, createReservation, approveReservation).     *)
Free(a) == balance[a] - reserved[a]
LateOutflow(w, a) ==
    Busy(w) /\ ~Busy(w)' /\ StaleReader(work[w].call) /\ Debited(work[w].call) = a
OverspentOnlyLate ==
    [][\A a \in Account :
         Free(a)' < Free(a) /\ Free(a)' < 0 => \E w \in Worker : LateOutflow(w, a)]_vars

(* SUM(CASE direction ...) over the movements of S, and SUM(active_amount) *)
(* over the ACTIVE ones of the reservations of S.                          *)
FlowOf(S)  == SumFunctionOnSet([id \in S |-> Signed(ledger[id])], S)
WorthOf(S) == SumFunctionOnSet([r \in S |-> ActiveAmount(reservation[r])], S)

(* Each client request, payment, refund, transfer leg and reversal counts  *)
(* once: the sums the code reads are those of the rows, whatever is        *)
(* retried, crashed or raced.                                              *)
OnceOnly ==
    /\ \A a \in Account :
        /\ balance[a] = Opening[a] + FlowOf({id \in DOMAIN ledger : ledger[id].account = a})
        /\ reserved[a] = WorthOf({r \in DOMAIN reservation : reservation[r].account = a})
    /\ \A e \in Expense :
        /\ paid[e] = AmountOf({id \in DOMAIN ledger : /\ id[1] = "disburse"
                                                     /\ ledger[id].about = e
                                                     /\ ~Posted(Reversal(id))})
        /\ engaged[e] = WorthOf({r \in DOMAIN reservation : reservation[r].expense = e})

(* The disbursements of an expense that stand never exceed its amount,     *)
(* through whichever route they were asked and whatever was reversed.      *)
PaidWithinCost == \A e \in Expense : paid[e] <= Cost[e]

(* Refunds never return more than the payment brought in, whichever keys   *)
(* they are asked with.                                                    *)
RefundsWithinPayment ==
    \A id \in DOMAIN ledger :
        id[1] = "collect" => Refunded(id[2]) <= ledger[id].amount

(* A reservation is never worth more than was approved, and is worth       *)
(* something exactly while it is ACTIVE.                                   *)
ReservationShape ==
    \A r \in DOMAIN reservation :
        LET x == reservation[r]
        IN  x.active <= x.initial /\ (x.active > 0 <=> x.status = "ACTIVE")

(* A reservation that has ended stays ended, and cash once set aside is    *)
(* only ever given back or spent.                                          *)
NeverRevived ==
    [][\A r \in DOMAIN reservation :
         /\ r \in DOMAIN reservation'
         /\ reservation[r].status \in Terminal => reservation'[r] = reservation[r]
         /\ reservation[r].status = "ACTIVE" =>
              reservation'[r].active <= reservation[r].active]_vars

(* Reservations never promise more than what is left to pay of an expense. *)
EngagedWithinCost == \A e \in Expense : paid[e] + engaged[e] <= Cost[e]

(* No cash stays set aside for a cancelled expense.                        *)
NoReservationOnCancelled ==
    \A e \in Expense : approval[e] = "cancelled" => engaged[e] = 0

(* Only an approved expense is paid.                                       *)
OnlyApprovedPaid ==
    [][\A e \in Expense : paid'[e] > paid[e] => approval[e] = "approved"]_vars

(* The balances a stale reader decides from, once it has seen them.        *)
Seen(w) == IF Busy(w) /\ Viewed(w) /\ StaleReader(work[w].call)
           THEN work[w].view.balance ELSE None
SeenEarly == [w \in Worker |-> Seen(w)]

(* What concurrent requests do to the cash is what a ledger that handles   *)
(* them one by one would do, on the sums as they are; a stale reader's     *)
(* outflow is checked against the balances of one earlier moment, less     *)
(* what is reserved now: see CashLedger.                                   *)
Cash == INSTANCE CashLedger WITH Client <- Worker, seen <- SeenEarly
ImplementsCashLedger == Cash!Spec

(* The calls that do not take their rows in the order of the others, which *)
(* is invoice and expense, concession, accounts by id, and then only       *)
(* reservations of the account they hold.  The steps of a reservation lock *)
(* it before its account; an expense is cancelled from its reservations,   *)
(* no account held; a disbursement may name a reservation of another       *)
(* account; a transfer is reversed from the leg that was clicked.          *)
AgainstOrder(c) ==
    \/ c.op \in ReservationOps \cup {"cancel expense"}
    \/ /\ c.op = "disburse"
       /\ c.reservation \in DOMAIN reservation
       /\ reservation[c.reservation].account # c.account
    \/ /\ c.op = "reverse" /\ IsLeg(c.movement)
       /\ \E leg \in {Debit(c.movement[2]), Credit(c.movement[2])} :
             ledger[leg].account < ledger[c.movement].account

(* The calls that lock the concession on the way to their account, and     *)
(* those that share it when they hold theirs: with one of each, a cycle.   *)
ConcessionFirst(c) == c.op \in {"collect", "disburse", "reserve"}
ConcessionLast(c)  == InsertsFirst(c) \/ InsertsLast(c)

(* Every cycle of transactions waiting for rows has a call in it that goes *)
(* against the order, or one that locks the concession first with one that *)
(* shares it last.  So refunds, manual operations, transfers and changes   *)
(* of status never deadlock among themselves, nor do collections,          *)
(* disbursements and new reservations (the lock order of                   *)
(* docs/FIN-03-REPORT.md); across the two groups they may.                 *)
DeadlocksAgainstOrder ==
    \A S \in SUBSET Worker :
        IsFiniteSet(S) /\ S # {} /\ Deadlocked(S) =>
            \/ \E w \in S : AgainstOrder(work[w].call)
            \/ \E w, x \in S : /\ ConcessionFirst(work[w].call)
                               /\ ConcessionLast(work[x].call)

(* Every request ends, in spite of lock waits and deadlocks.               *)
EveryRequestEnds == \A w \in Worker : Busy(w) ~> ~Busy(w)
=============================================================================
