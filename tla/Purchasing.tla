------------------------------ MODULE Purchasing ------------------------------
(***************************************************************************)
(* The parts a store holds and how they come in: modules/parts, that is    *)
(* part-stock.ts (which row of part_stocks a request means), parts-policy  *)
(* and part.routes.ts (counts, adjustments, returns, transfers, purchase   *)
(* orders and receipts). The workshop promises and takes parts of the same *)
(* rows. One part: the rows of two parts share nothing.                    *)
(*                                                                         *)
(* A handler that locks the rows it decides on is one action. A transfer   *)
(* and a receipt look for their key first, by a plain SELECT, and lock     *)
(* afterwards: they are two actions, and the receipt goes on reading the   *)
(* lines it does not lock as they were then (the snapshot of MySQL).       *)
(***************************************************************************)
EXTENDS Integers, Sequences, FiniteSets, Functions

CONSTANTS
    Agency, Location, Site,     \* Site: the agency of a location
    Order, Line, Of, Buyer,     \* Of: the order of a line; Buyer: the agency of an order
    Amount,                     \* quantities, prices and sums a request may carry
    Key,                        \* idempotency keys
    Clerk,                      \* the users, each with at most one request under way
    Plans,                      \* bounds of what happens, one of which is drawn at the start
    None

Errand == {"stock", "repair", "transfer", "order", "item", "receipt", "cancel",
           "invoice", "edit", "payment", "direct", "reversal", "credit"}

Place == {p \in Agency \X (Location \cup {None}) : p[2] # None => Site[p[2]] = p[1]}
Plan == [place : SUBSET Place, line : SUBSET Line, left : [Errand -> Nat]]

ASSUME PurchasingAssumption ==
    /\ Site \in [Location -> Agency] /\ None \notin Location
    /\ Of \in [Line -> Order] /\ Buyer \in [Order -> Agency]
    /\ Amount \subseteq Nat \ {0}
    /\ IsFiniteSet(Line) /\ IsFiniteSet(Key)
    /\ Plans \subseteq Plan

Status == {"none", "draft", "sent", "confirmed", "partially_received", "received", "cancelled"}
Receivable == {"sent", "confirmed", "partially_received"}
Ended == {"received", "cancelled"}
StockRow == [current : Nat, reserved : Nat]
LineRow == [ordered : Nat, received : Nat, price : Nat]
NoItems == [l \in Line |-> 0]

VARIABLES
    rows,           \* the rows of part_stocks there are
    stock,          \* part_stocks
    ledger,         \* part_movements: the sum of the quantities that entered or left a row
    moved,          \* part_movements: how many transfers carry a correlation key
    order,          \* purchase_orders
    line,           \* purchase_order_items; ordered = 0: no such line yet
    receipt,        \* purchase_order_receipts and their items
    request,        \* what each clerk has read and is about to write
    plan            \* what may still happen

store == <<rows, stock, ledger, moved>>
supply == <<order, line, receipt>>

\* POST /parts: the part starts with one row and, if asked, an initial stock.
PurchasingInit ==
    /\ plan \in Plans
    /\ \E p \in plan.place, n \in Amount \cup {0} :
          /\ rows = {p}
          /\ stock = [r \in Place |-> [current |-> IF r = p THEN n ELSE 0, reserved |-> 0]]
          /\ ledger = [r \in Place |-> IF r = p THEN n ELSE 0]
    /\ moved = [k \in Key |-> 0]
    /\ order = [o \in Order |-> "none"]
    /\ line = [l \in Line |-> [ordered |-> 0, received |-> 0, price |-> 0]]
    /\ receipt = [t \in Order \X Key |-> NoItems]
    /\ request = [c \in Clerk |-> None]

Does(errand) == plan.left[errand] > 0 /\ plan' = [plan EXCEPT !.left[errand] = @ - 1]
Holds(c, what) == request' = [request EXCEPT ![c] = what]

(***************************************************************************)
(* The stock rows.                                                         *)
(***************************************************************************)
RowsOf(a) == {r \in rows : r[1] = a}

\* lockPartStock: the row of a location, made on demand; without a location,
\* the only row of the agency
Locked(p, create) ==
    IF p[2] # None THEN {r \in {p} : r \in Place /\ (create \/ r \in rows)}
    ELSE IF RowsOf(p[1]) = {} /\ create THEN {p}
    ELSE {r \in RowsOf(p[1]) : Cardinality(RowsOf(p[1])) = 1}

\* the row changes by n, and a movement says so
Put(r, n) ==
    /\ rows' = rows \cup {r}
    /\ stock' = [stock EXCEPT ![r].current = @ + n]
    /\ ledger' = [ledger EXCEPT ![r] = @ + n]

\* adjustments and returns
Change(p, n) ==
    /\ Does("stock")
    /\ \E r \in Locked(p, n > 0) : stock[r].current + n >= stock[r].reserved /\ Put(r, n)
    /\ UNCHANGED <<moved, supply, request>>

InventoryCount(p, n) ==
    /\ Does("stock")
    /\ \E r \in Locked(p, FALSE) : n >= stock[r].reserved /\ Put(r, n - stock[r].current)
    /\ UNCHANGED <<moved, supply, request>>

\* the workshop promises parts, gives up the promise, uses them, or takes others
Repair(r, promised, used) ==
    /\ Does("repair")
    /\ r \in rows
    /\ LET s == stock[r] IN
          /\ s.reserved + promised >= 0 /\ s.current - used >= s.reserved + promised
          /\ stock' = [stock EXCEPT ![r] = [current |-> s.current - used,
                                            reserved |-> s.reserved + promised]]
    /\ ledger' = [ledger EXCEPT ![r] = @ - used]
    /\ UNCHANGED <<rows, moved, supply, request>>

\* the two places are told apart as they were asked: with a location left out,
\* they may turn out to be one row
AskTransfer(c, from, to, n, k) ==
    /\ Does("transfer")
    /\ request[c] = None
    /\ from # to
    /\ moved[k] = 0         \* else it is answered as a duplicate
    /\ Holds(c, [op |-> "transfer", from |-> from, to |-> to, amount |-> n, key |-> k])
    /\ UNCHANGED <<store, supply>>

\* Mutant: what the workshop was promised is given away.
TransferPromised(c) ==
    /\ request[c] # None /\ request[c].op = "transfer"
    /\ \E s \in Locked(request[c].from, FALSE), d \in Locked(request[c].to, TRUE) :
          LET n == request[c].amount IN
          /\ stock[s].current - n >= 0
          /\ rows' = rows \cup {d}
          /\ stock' = [stock EXCEPT ![s].current = @ - n, ![d].current = stock[d].current + n]
          /\ ledger' = [ledger EXCEPT ![s] = @ - n, ![d] = @ + n]
    /\ moved' = [moved EXCEPT ![request[c].key] = @ + 1]
    /\ Holds(c, None)
    /\ UNCHANGED <<supply, plan>>

Transfer(c) ==
    /\ request[c] # None /\ request[c].op = "transfer"
    /\ \E s \in Locked(request[c].from, FALSE), d \in Locked(request[c].to, TRUE) :
          LET n == request[c].amount IN
          /\ stock[s].current - n >= stock[s].reserved
          /\ rows' = rows \cup {d}
          \* both rows are written from what was read of them
          /\ stock' = [stock EXCEPT ![s].current = @ - n, ![d].current = stock[d].current + n]
          /\ ledger' = [ledger EXCEPT ![s] = @ - n, ![d] = @ + n]
    /\ moved' = [moved EXCEPT ![request[c].key] = @ + 1]
    /\ Holds(c, None)
    /\ UNCHANGED <<supply, plan>>

(***************************************************************************)
(* The orders.                                                             *)
(***************************************************************************)
LinesOf(o) == {l \in Line : Of[l] = o}
Left(l) == line[l].ordered - line[l].received

CreateOrder(o, wanted, price) ==
    /\ Does("order")
    /\ order[o] = "none"
    /\ order' = [order EXCEPT ![o] = "draft"]
    /\ line' = [l \in Line |-> IF l \in DOMAIN wanted
                   THEN [ordered |-> wanted[l], received |-> 0, price |-> price] ELSE line[l]]
    /\ UNCHANGED <<store, receipt, request>>

\* a line is added to a draft, or one of its lines is changed
SetItem(l, n, price) ==
    /\ Does("item")
    /\ order[Of[l]] = "draft"
    /\ line' = [line EXCEPT ![l].ordered = n, ![l].price = price]
    /\ UNCHANGED <<store, order, receipt, request>>

Advance(o) ==
    /\ \/ order[o] = "draft" /\ order' = [order EXCEPT ![o] = "sent"]
       \/ order[o] = "sent" /\ order' = [order EXCEPT ![o] = "confirmed"]
    /\ UNCHANGED <<store, line, receipt, request, plan>>

CancelOrder(o) ==
    /\ Does("cancel")
    /\ order[o] \in Status \ (Ended \cup {"none"})
    /\ \E l \in LinesOf(o) : Left(l) > 0
    /\ order' = [order EXCEPT ![o] = "cancelled"]
    /\ UNCHANGED <<store, line, receipt, request>>

AskReceipt(c, o, k, items, place) ==
    /\ Does("receipt")
    /\ request[c] = None
    /\ order[o] # "none"                \* it names an order there is, whatever its status
    /\ receipt[<<o, k>>] = NoItems      \* else it is answered as a duplicate
    /\ Holds(c, [op |-> "receipt", order |-> o, key |-> k, items |-> items, place |-> place,
                 seen |-> line])
    /\ UNCHANGED <<store, supply>>

\* Mutant: only the lines it brings.
PendingOfDelivery(q) ==
    SumFunctionOnSet([l \in Line |-> IF q.items[l] > 0 THEN Left(l) - q.items[l] ELSE 0],
                     LinesOf(q.order))

\* what the receipt q finds left to receive: its own lines as it left them,
\* the others as it first saw them, maybe before the order was sent
StillPending(q) ==
    SumFunctionOnSet([l \in Line |-> IF q.items[l] > 0 THEN Left(l) - q.items[l]
                                     ELSE q.seen[l].ordered - q.seen[l].received], LinesOf(q.order))

\* Mutant: the status read before the lock is good enough.
ReceiveEnded(c) ==
    /\ request[c] # None /\ request[c].op = "receipt"
    /\ LET q == request[c] IN
          /\ receipt[<<q.order, q.key>>] = NoItems
          /\ \A l \in Line : q.items[l] <= Left(l)
          /\ \E r \in Locked(<<Buyer[q.order], q.place>>, TRUE) :
                Put(r, SumFunctionOnSet(q.items, LinesOf(q.order)))
          /\ line' = [l \in Line |-> [line[l] EXCEPT !.received = @ + q.items[l]]]
          /\ receipt' = [receipt EXCEPT ![<<q.order, q.key>>] = q.items]
          /\ order' = [order EXCEPT ![q.order] =
                          IF StillPending(q) <= 0 THEN "received" ELSE "partially_received"]
    /\ Holds(c, None)
    /\ UNCHANGED <<moved, plan>>

Receive(c) ==
    /\ request[c] # None /\ request[c].op = "receipt"
    /\ LET q == request[c] IN
          /\ order[q.order] \in Receivable
          /\ receipt[<<q.order, q.key>>] = NoItems      \* a unique index
          /\ \A l \in Line : q.items[l] <= Left(l)
          /\ \E r \in Locked(<<Buyer[q.order], q.place>>, TRUE) :
                Put(r, SumFunctionOnSet(q.items, LinesOf(q.order)))
          /\ line' = [l \in Line |-> [line[l] EXCEPT !.received = @ + q.items[l]]]
          /\ receipt' = [receipt EXCEPT ![<<q.order, q.key>>] = q.items]
          /\ order' = [order EXCEPT ![q.order] =
                          IF StillPending(q) <= 0 THEN "received" ELSE "partially_received"]
    /\ Holds(c, None)
    /\ UNCHANGED <<moved, plan>>

\* a request refused after its first read, or rolled back, leaves no trace
Refused(c) ==
    /\ request[c] # None
    /\ Holds(c, None)
    /\ UNCHANGED <<store, supply, plan>>

\* what a receipt may bring: some lines of one order
Delivery(o) == {items \in [Line -> Amount \cup {0}] :
                   items # NoItems /\ \A l \in Line : items[l] > 0 => Of[l] = o}

PurchasingNext ==
    \/ \E p \in plan.place, n \in Amount : Change(p, n) \/ Change(p, -n) \/ InventoryCount(p, n - 1)
    \/ \E r \in plan.place, n \in Amount : \/ Repair(r, n, 0) \/ Repair(r, -n, 0)
                                           \/ Repair(r, -n, n) \/ Repair(r, 0, n)
    \/ \E c \in Clerk, from, to \in plan.place, n \in Amount, k \in Key :
          AskTransfer(c, from, to, n, k)
    \/ \E o \in Order, n \in Amount : \E lines \in SUBSET (LinesOf(o) \cap plan.line) \ {{}} :
          \E wanted \in [lines -> Amount] : CreateOrder(o, wanted, n)
    \/ \E l \in plan.line, n, price \in Amount : SetItem(l, n, price)
    \/ \E o \in Order : Advance(o) \/ CancelOrder(o)
    \/ \E c \in Clerk, o \in Order, k \in Key, p \in plan.place :
          \E items \in Delivery(o) : AskReceipt(c, o, k, items, p[2])
    \/ \E c \in Clerk : Transfer(c) \/ Receive(c) \/ Refused(c)
===============================================================================
