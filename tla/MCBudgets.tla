----------------------------- MODULE MCBudgets -----------------------------
(***************************************************************************)
(* Instances of Budgets for TLC: the budget active at the start and the    *)
(* calls that may be sent in each run.                                     *)
(***************************************************************************)
EXTENDS Budgets, TLC

CONSTANTS w1, w2, u1, u2, b1, e1, e2, f1, d1

\* Nothing tells one server connection from another: safety may be checked up
\* to a permutation of them.
Workers == Permutations(Worker)

MCDue     == [d \in Document |-> 2]
MCFounded == [b \in {b1} |-> [creator |-> u1, initial |-> 2, status |-> "active"]]
MCNone    == [b \in {} |-> None]

OnBudget(op, b, u)        == [op |-> op, budget |-> b, user |-> u]
Grant(op, b, u, n)        == [op |-> op, budget |-> b, user |-> u, amount |-> n]
AskFunds(f, b, u, n)      == [op |-> "request funds", request |-> f, budget |-> b,
                              user |-> u, amount |-> n]
OnFunds(op, f, u)         == [op |-> op, request |-> f, user |-> u]
Spend(e, b, u, n)         == [op |-> "create expense", expense |-> e, budget |-> b,
                              user |-> u, amount |-> n]
OnExpense(op, e, u)       == [op |-> op, expense |-> e, user |-> u]
Pay(e, u, n)              == [op |-> "disburse", expense |-> e, user |-> u, amount |-> n]
OnDocument(op, d, b, e, u) == [op |-> op, document |-> d, budget |-> b,
                               expense |-> e, user |-> u]

(* A budget from its creation to its end, corrected and refused on the     *)
(* way.  One document is engaged on it and linked to it, and becomes its   *)
(* one expense.  The calls lock the same rows in opposite orders: document,*)
(* budget, expenses; expense, budget; budget, expenses.                    *)
LifeCalls ==
    {Grant("create budget", b1, u1, 2), Grant("correct", b1, u1, 1),
     OnBudget("submit", b1, u1), OnBudget("approve", b1, u2), OnBudget("approve", b1, u1),
     OnBudget("reject", b1, u2), OnBudget("reopen", b1, u1), OnBudget("cancel", b1, u1),
     OnDocument("engage", d1, b1, e1, u1), OnDocument("link", d1, b1, e2, u1),
     OnExpense("correct expense", e1, u1), OnExpense("submit expense", e1, u1),
     OnExpense("approve expense", e1, u2), OnExpense("cancel expense", e1, u1),
     OnBudget("close", b1, u1)}

(* Two expenses that do not fit together, extra funds that make room.      *)
EnvelopeCalls ==
    {Spend(e1, b1, u1, 2), Spend(e2, b1, u1, 1), AskFunds(f1, b1, u1, 1),
     OnExpense("submit expense", e1, u1), OnExpense("submit expense", e2, u1),
     OnExpense("approve expense", e1, u2), OnExpense("approve expense", e2, u2),
     OnExpense("reject expense", e2, u2), OnExpense("cancel expense", e1, u1),
     OnFunds("approve funds", f1, u2), OnFunds("reject funds", f1, u2)}

(* An expense decided, paid, unpaid and reserved for while its budget is   *)
(* being closed, and extra funds asked for at the last moment.             *)
ClosureCalls ==
    {Spend(e1, b1, u1, 2), OnExpense("submit expense", e1, u1),
     OnExpense("approve expense", e1, u2), OnExpense("cancel expense", e1, u1),
     Pay(e1, u1, 2), Pay(e1, u1, 1),
     AskFunds(f1, b1, u1, 1), OnFunds("reject funds", f1, u2), OnFunds("approve funds", f1, u2),
     OnBudget("close", b1, u1)}

(* A refused expense, submitted again; a decision meeting the closure.     *)
ResubmitCalls ==
    {Spend(e1, b1, u1, 1), OnExpense("submit expense", e1, u1),
     OnExpense("reject expense", e1, u2), OnBudget("close", b1, u1)}
OrderCalls ==
    {Spend(e1, b1, u1, 1), OnExpense("submit expense", e1, u1),
     OnExpense("approve expense", e1, u2), OnBudget("close", b1, u1)}
=============================================================================
