------------------------------- MODULE Payables -------------------------------
(***************************************************************************)
(* What the store owes for the parts it received: the invoices of a        *)
(* supplier, its credit notes and the payments of both kinds of routes,    *)
(* over the orders and receipts of Purchasing                              *)
(* (modules/parts/supplier-finance.routes.ts, and budgetExpenseDisburse of *)
(* modules/treasury/treasury.service.ts).                                  *)
(*                                                                         *)
(* One supplier and one currency, and one line per invoice: an invoice is  *)
(* compared with the orders and the receipts line by line. The budget an   *)
(* expense is charged to and the cash of an account may refuse a payment   *)
(* at any time: they are modelled in Budgets and Treasury.                 *)
(*                                                                         *)
(* A payment holds its expense from its first statement on, and is one     *)
(* action, but for a user with the scope CONCESSION: that statement also   *)
(* opens the view the sums are read from, and what does not need the       *)
(* expense goes on changing before the payment is written.                 *)
(***************************************************************************)
EXTENDS Purchasing

CONSTANTS
    Invoice, Credit,
    Bills           \* what may be typed in for an invoice

NoBill == [kind |-> "GOODS", item |-> None, delivery |-> None,
           quantity |-> 0, price |-> 0, excused |-> FALSE]
\* item: the order line billed, delivery: the receipt line, <<key, line>>
Bill == [kind : {"GOODS", "SERVICE"}, item : Line \cup {None},
         delivery : (Key \X Line) \cup {None}, quantity : Amount, price : Amount,
         excused : BOOLEAN]
InvoiceRow == [status : {"none", "DRAFT", "SUBMITTED", "VALIDATED", "REJECTED", "CANCELLED"},
               by : Clerk \cup {None}, bill : Bill \cup {NoBill}, linked : BOOLEAN]
CreditRow == [status : {"none", "DRAFT", "SUBMITTED", "VALIDATED", "REJECTED"},
              by : Clerk \cup {None}, invoice : Invoice \cup {None}, amount : Amount \cup {0}]
PaymentRow == [invoice : Invoice, amount : Amount, route : {"supplier", "treasury"},
               reversed : BOOLEAN]

ASSUME PayablesAssumption ==
    /\ Bills \subseteq Bill
    /\ None \notin Line /\ None \notin (Key \X Line)
    /\ IsFiniteSet(Credit)

VARIABLES
    invoice,        \* supplier_invoices, their line and their budget expense
    credit,         \* supplier_credit_notes
    payments        \* budget_expense_disbursements of the linked expenses

debts == <<invoice, credit, payments>>
vars == <<store, supply, request, plan, debts>>

Init ==
    /\ PurchasingInit
    /\ invoice = [i \in Invoice |-> [status |-> "none", by |-> None, bill |-> NoBill,
                                     linked |-> FALSE]]
    /\ credit = [n \in Credit |-> [status |-> "none", by |-> None, invoice |-> None,
                                   amount |-> 0]]
    /\ payments = <<>>

Total(i) == invoice[i].bill.quantity * invoice[i].bill.price
\* creditSql and paymentSql
Credited(i) ==
    SumFunctionOnSet([n \in Credit |-> credit[n].amount],
                     {n \in Credit : credit[n].invoice = i /\ credit[n].status = "VALIDATED"})
PaidBy(i) == {p \in DOMAIN payments : payments[p].invoice = i /\ ~payments[p].reversed}
Paid(i) == SumFunctionOnSet([p \in DOMAIN payments |-> payments[p].amount], PaidBy(i))
Due(i) == Total(i) - Credited(i) - Paid(i)

(***************************************************************************)
(* The invoices.                                                           *)
(***************************************************************************)
Delivered(d) == receipt[<<Of[d[2]], d[1]>>][d[2]] > 0

\* validateLinks
LinksExist(b) ==
    /\ b.item # None => line[b.item].ordered > 0
    /\ b.delivery # None => Delivered(b.delivery)
    /\ b.item # None /\ b.delivery # None => Of[b.delivery[2]] = Of[b.item]

\* reconciliation
Issues(b) ==
    \/ b.item # None /\ (b.quantity > line[b.item].received \/ b.price # line[b.item].price)
    \/ b.delivery = None

Editable == {"DRAFT", "REJECTED"}

CreateInvoice(c, i, b) ==
    /\ Does("invoice")
    /\ invoice[i].status = "none" /\ LinksExist(b)
    /\ invoice' = [invoice EXCEPT ![i] = [status |-> "DRAFT", by |-> c, bill |-> b,
                                          linked |-> FALSE]]
    /\ UNCHANGED <<store, supply, request, credit, payments>>

\* Mutant: an invoice is corrected after it was compared.
EditSubmitted(i, b) ==
    /\ Does("edit")
    /\ invoice[i].status \in Editable \cup {"SUBMITTED"} /\ LinksExist(b)
    /\ invoice' = [invoice EXCEPT ![i].bill = b]
    /\ UNCHANGED <<store, supply, request, credit, payments>>

EditInvoice(i, b) ==
    /\ Does("edit")
    /\ invoice[i].status \in Editable /\ LinksExist(b)
    /\ invoice' = [invoice EXCEPT ![i].bill = b, ![i].status = "DRAFT"]
    /\ UNCHANGED <<store, supply, request, credit, payments>>

Becomes(i, status) ==
    /\ invoice' = [invoice EXCEPT ![i].status = status]
    /\ UNCHANGED <<store, supply, request, plan, credit, payments>>

Submit(i) ==
    /\ invoice[i].status \in Editable
    /\ LET b == invoice[i].bill IN Issues(b) => b.excused \/ b.kind = "SERVICE"
    /\ Becomes(i, "SUBMITTED")
Validate(c, i) ==
    invoice[i].status = "SUBMITTED" /\ invoice[i].by # c /\ Becomes(i, "VALIDATED")
Reject(i) == invoice[i].status = "SUBMITTED" /\ Becomes(i, "REJECTED")
CancelInvoice(i) == invoice[i].status \in Editable /\ Becomes(i, "CANCELLED")

\* budget-link: an expense of the amount of the invoice
Impute(i) ==
    /\ invoice[i].status = "VALIDATED" /\ ~invoice[i].linked
    /\ invoice' = [invoice EXCEPT ![i].linked = TRUE]
    /\ UNCHANGED <<store, supply, request, plan, credit, payments>>

(***************************************************************************)
(* Payments. Both routes lock the expense and see what is left to pay on   *)
(* it; only the route of the suppliers looks at the invoice.               *)
(***************************************************************************)
\* a payment under way holds the expense of its invoice
Paying(i) == \E c \in Clerk :
    request[c] # None /\ request[c].op = "payment" /\ request[c].invoice = i

Settle(i, n, route) ==
    /\ payments' = Append(payments, [invoice |-> i, amount |-> n, route |-> route,
                                     reversed |-> FALSE])
    /\ UNCHANGED <<store, supply, invoice, credit>>

Disburse(i, n) ==
    /\ Does("direct")
    /\ invoice[i].linked /\ ~Paying(i)
    /\ n <= Total(i) - Paid(i)
    /\ Settle(i, n, "treasury")
    /\ UNCHANGED request

\* Mutant: credit notes are forgotten.
PayUncredited(i, n) ==
    /\ Does("payment")
    /\ invoice[i].linked /\ ~Paying(i) /\ invoice[i].status = "VALIDATED"
    /\ n <= Total(i) - Paid(i)
    /\ Settle(i, n, "supplier")
    /\ UNCHANGED request

\* for the scopes that find the expense without a sub-select, the sums are read
\* once the invoice is held
PaySupplier(i, n) ==
    /\ Does("payment")
    /\ invoice[i].linked /\ ~Paying(i) /\ invoice[i].status = "VALIDATED"
    /\ n <= Due(i)      \* and so no more than is left on the expense
    /\ Settle(i, n, "supplier")
    /\ UNCHANGED request

\* with the scope CONCESSION: the first statement, then all the others
AskPayment(c, i, n) ==
    /\ Does("payment")
    /\ request[c] = None
    /\ invoice[i].linked /\ ~Paying(i)
    /\ Holds(c, [op |-> "payment", invoice |-> i, amount |-> n,
                 credited |-> Credited(i), paid |-> Paid(i)])
    /\ UNCHANGED <<store, supply, debts>>

PayScoped(c) ==
    /\ request[c] # None /\ request[c].op = "payment"
    /\ LET q == request[c] IN
          /\ invoice[q.invoice].status = "VALIDATED"
          /\ q.amount <= Total(q.invoice) - q.credited - q.paid
          /\ Settle(q.invoice, q.amount, "supplier")
    /\ Holds(c, None)
    /\ UNCHANGED plan

\* it locks the movement and its account, not the expense
ReversePayment(p) ==
    /\ Does("reversal")
    /\ p \in DOMAIN payments /\ ~payments[p].reversed
    /\ payments' = [payments EXCEPT ![p].reversed = TRUE]
    /\ UNCHANGED <<store, supply, request, invoice, credit>>

(***************************************************************************)
(* Credit notes. The first read of a decision, before any lock, fixes the  *)
(* balance it will compare the credit with, and the expense it will lock.  *)
(***************************************************************************)
CreateCredit(c, n, i, amount) ==
    /\ Does("credit")
    /\ credit[n].status = "none" /\ invoice[i].status = "VALIDATED"
    /\ credit' = [credit EXCEPT ![n] = [status |-> "DRAFT", by |-> c, invoice |-> i,
                                        amount |-> amount]]
    /\ UNCHANGED <<store, supply, request, invoice, payments>>

SubmitCredit(n) ==
    /\ credit[n].status = "DRAFT"
    /\ credit' = [credit EXCEPT ![n].status = "SUBMITTED"]
    /\ UNCHANGED <<store, supply, request, plan, invoice, payments>>

AskDecision(c, n) ==
    /\ request[c] = None
    /\ credit[n].status \in {"DRAFT", "SUBMITTED"}      \* read, and compared after the locks
    /\ Holds(c, [op |-> "credit", credit |-> n, due |-> Due(credit[n].invoice),
                 linked |-> invoice[credit[n].invoice].linked])
    /\ UNCHANGED <<store, supply, plan, debts>>

\* decideCredit, after its locks
Decide(c, verdict) ==
    /\ request[c] # None /\ request[c].op = "credit"
    /\ LET q == request[c] IN
          /\ q.linked => ~Paying(credit[q.credit].invoice)
          /\ credit[q.credit].status = "SUBMITTED"
          /\ verdict = "VALIDATED" => /\ credit[q.credit].by # c
                                      /\ credit[q.credit].amount <= q.due
          /\ credit' = [credit EXCEPT ![q.credit].status = verdict]
    /\ Holds(c, None)
    /\ UNCHANGED <<store, supply, plan, invoice, payments>>

DebtNext ==
    \/ \E i \in Invoice, b \in Bills : EditInvoice(i, b) \/ \E c \in Clerk : CreateInvoice(c, i, b)
    \/ \E i \in Invoice : Submit(i) \/ Reject(i) \/ CancelInvoice(i) \/ Impute(i)
    \/ \E c \in Clerk, i \in Invoice : Validate(c, i)
    \/ \E i \in Invoice, n \in Amount : PaySupplier(i, n) \/ Disburse(i, n)
    \/ \E p \in DOMAIN payments : ReversePayment(p)
    \/ \E c \in Clerk, n \in Credit, i \in Invoice, amount \in Amount : CreateCredit(c, n, i, amount)
    \/ \E n \in Credit : SubmitCredit(n)
    \/ \E c \in Clerk : \/ \E n \in Credit : AskDecision(c, n)
                        \/ \E verdict \in {"VALIDATED", "REJECTED"} : Decide(c, verdict)
                        \/ \E i \in Invoice, n \in Amount : AskPayment(c, i, n)
                        \/ PayScoped(c)

Next == (PurchasingNext /\ UNCHANGED debts) \/ DebtNext

Spec == Init /\ [][Next]_vars

(***************************************************************************)
(* Properties.                                                             *)
(***************************************************************************)
\* The variables keep the shape of their tables.
TypeOK ==
    /\ rows \subseteq Place
    /\ stock \in [Place -> StockRow]
    /\ ledger \in [Place -> Int]
    /\ moved \in [Key -> Nat]
    /\ order \in [Order -> Status]
    /\ line \in [Line -> LineRow]
    /\ receipt \in [Order \X Key -> [Line -> Nat]]
    /\ invoice \in [Invoice -> InvoiceRow]
    /\ credit \in [Credit -> CreditRow]
    /\ payments \in Seq(PaymentRow)

\* The parts in stock that no movement accounts for change in one way only: a
\* transfer that left out a location, and both ends of which are found to be one
\* row, makes as many parts as it moves. Counts, adjustments, repairs, receipts
\* and the other transfers, which decide to start before they lock the rows,
\* never do; and none takes what the workshop was promised (part-stock.ts:15,
\* part.routes.ts:129-132).
Unexplained(r) == stock[r].current - ledger[r]
StockExplained ==
    [][\A r \in Place :
          /\ stock'[r].reserved <= stock'[r].current
          /\ Unexplained(r)' # Unexplained(r) =>
                \E c \in Clerk : LET q == request[c] IN
                    /\ q # None /\ request'[c] = None /\ q.op = "transfer"
                    /\ Locked(q.from, FALSE) = {r} /\ Locked(q.to, TRUE) = {r}
                    /\ Unexplained(r)' = Unexplained(r) + q.amount]_vars

\* What a line received is what the receipts of its order brought, and never more
\* than was ordered; an order becomes received only when nothing is left to come
\* on any of its lines, unless the receipt began while it was a draft whose lines
\* changed since. Receipts of one order race each other, each with its own view of
\* the lines it does not touch (part.routes.ts:143).
ReceivedOf(l) == SumFunctionOnSet([k \in Key |-> receipt[<<Of[l], k>>][l]], Key)
Reordered(q) == \E l \in LinesOf(q.order) : q.seen[l].ordered # line[l].ordered
ReceiptsWithinOrder ==
    [][/\ \A l \in Line : line'[l].received = ReceivedOf(l)' /\ line'[l].received <= line'[l].ordered
       /\ \A o \in Order : order[o] # "received" /\ order'[o] = "received" =>
             \/ \A l \in LinesOf(o) : line'[l].received = line'[l].ordered
             \/ \E c \in Clerk : LET q == request[c] IN
                    /\ q # None /\ request'[c] = None /\ q.op = "receipt" /\ q.order = o
                    /\ Reordered(q)]_vars

\* A received or cancelled order stays what it is, lines and receipts included,
\* whatever a request that saw it open still has to write.
EndedForGood ==
    [][\A o \in Order : order[o] \in Ended =>
          /\ order'[o] = order[o]
          /\ \A l \in LinesOf(o) : line'[l] = line[l]
          /\ \A k \in Key : receipt'[<<o, k>>] = receipt[<<o, k>>]]_vars

\* An invoice of goods that went past its draft without an excuse bills what was
\* delivered: no more than its order line received, at the price ordered. The
\* comparison is made once, at the submission; the order, the receipts and the
\* invoice itself go on changing (supplier-finance.routes.ts:28, 38).
BilledReceived ==
    \A i \in Invoice :
        LET b == invoice[i].bill IN
        (invoice[i].status \in {"SUBMITTED", "VALIDATED"} /\ b.kind = "GOODS" /\ ~b.excused) =>
            /\ b.delivery # None /\ Delivered(b.delivery)
            /\ b.item # None => b.quantity <= line[b.item].received /\ b.price = line[b.item].price

\* The balance of an invoice falls below zero in three ways only: a credit note
\* validated against a balance that has changed since it was read; a payment by
\* the treasury route, which does not know of credit notes; and a payment of the
\* supplier route with the scope CONCESSION, when a credit note was validated
\* after its view. Other payments of that route, credits decided one after the
\* other, edits and reversals in any order never do it
\* (supplier-finance.routes.ts:42, 46; treasury.service.ts:957).
OverrunExplained ==
    [][\A i \in Invoice : Due(i) >= 0 /\ Due(i)' < 0 =>
          \/ Len(payments') > Len(payments) /\ payments'[Len(payments')].route = "treasury"
          \/ \E c \in Clerk : LET q == request[c] IN
                /\ q # None /\ request'[c] = None
                /\ \/ q.op = "credit" /\ credit[q.credit].invoice = i /\ q.due # Due(i)
                   \/ q.op = "payment" /\ q.invoice = i /\ q.credited < Credited(i)]_vars

\* What the code does not keep, each shown violated by a configuration of its own.

\* Credits and payments of the supplier route never add up to more than the
\* invoice ("refuse tout dépassement du solde imputable", docs/FIN-05-REPORT.md).
WithinTotal == \A i \in Invoice : invoice[i].status = "VALIDATED" => Due(i) >= 0

\* A payment of the supplier route is no more than the balance of its invoice
\* ("Montant supérieur au solde fournisseur restant", treasury.service.ts:968).
PaidWithinDue ==
    [][\A p \in DOMAIN payments' \ DOMAIN payments :
          payments'[p].route = "supplier" => payments'[p].amount <= Due(payments'[p].invoice)]_vars

\* Every part in stock is accounted for by the movements of its row.
StockAccounted == \A r \in Place : Unexplained(r) = 0

\* An order called received has nothing left to come.
ReceivedInFull == \A l \in Line : order[Of[l]] = "received" => Left(l) = 0

\* A transfer sent twice under one key moves the parts once (docs/STABILISATION-
\* ERP-10-TRANSFERTS.md: "Rejeu idempotent: 200 sans mouvement supplémentaire").
MovedOnce == \A k \in Key : moved[k] <= 1

\* An order with nothing left to receive, once its receipts are written, is
\* called received.
CompleteIsReceived ==
    \A o \in Order :
        (order[o] = "partially_received" /\ \A c \in Clerk : request[c] = None) =>
            \E l \in LinesOf(o) : Left(l) > 0

\* Validated invoices do not bill a delivery twice.
BilledOnce ==
    \A l \in Line :
        SumFunctionOnSet([i \in Invoice |-> invoice[i].bill.quantity],
            {i \in Invoice : /\ invoice[i].status = "VALIDATED" /\ ~invoice[i].bill.excused
                             /\ invoice[i].bill.kind = "GOODS" /\ invoice[i].bill.item = l})
        <= line[l].received
===============================================================================
