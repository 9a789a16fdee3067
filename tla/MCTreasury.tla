----------------------------- MODULE MCTreasury -----------------------------
(***************************************************************************)
(* Instances of Treasury for TLC: opening balances, expense amounts and    *)
(* the calls that may be sent in each run.                                 *)
(***************************************************************************)
EXTENDS Treasury, TLC

CONSTANTS w1, w2, u1, u2, e1, e2, r1, r2, t1, q1, q2, p1

\* Nothing tells one server connection from another: safety may be checked up
\* to a permutation of them.
Workers == Permutations(Worker)

MCOpening == [a \in {1, 2} |-> IF a = 1 THEN 2 ELSE 1]
MCCost    == [e \in Expense |-> 2]

Manual(q, a, dir, n)  == [op |-> "manual", request |-> q, account |-> a,
                          direction |-> dir, amount |-> n]
Disburse(q, e, a, n, r, route, scope) ==
    [op |-> "disburse", request |-> q, expense |-> e, account |-> a, amount |-> n,
     reservation |-> r, route |-> route, scope |-> scope]
Reserve(r, e, a, n, u) == [op |-> "reserve", reservation |-> r, expense |-> e,
                           account |-> a, amount |-> n, user |-> u]
On(op, r, u)           == [op |-> op, reservation |-> r, user |-> u]
AdjustTo(r, u, n)      == [op |-> "adjust", reservation |-> r, user |-> u, amount |-> n]
Move(a, b, n)          == [op |-> "transfer", account |-> a, to |-> b, amount |-> n]
Undo(id)               == [op |-> "reverse", movement |-> id]
SetStatus(a, b)        == [op |-> "status", account |-> a, active |-> b]
Collect(p, a, n)       == [op |-> "collect", payment |-> p, account |-> a, amount |-> n]
Refund(p, q, a, n)     == [op |-> "refund", payment |-> p, request |-> q,
                           account |-> a, amount |-> n]
CancelExp(e)           == [op |-> "cancel expense", expense |-> e]

(* A reservation, its steps and its consumption, racing an outflow, a      *)
(* payment, its refund and the cancellation of the expense: deadlocks of   *)
(* every kind the reservations bring, and those between a call that locks  *)
(* the concession first and one that shares it last.  The consumption asks *)
(* with the scope CONCESSION, and so reads early, as the refund does.      *)
ReservationCalls ==
    {Reserve(r1, e1, 1, 2, u1), On("submit", r1, u1), On("approve", r1, u2),
     On("reject", r1, u2), On("withdraw", r1, u1), On("expire", r1, u2),
     AdjustTo(r1, u1, 1), On("release", r1, u1),
     Disburse(q1, e1, 1, 1, r1, "budget", "CONCESSION"), Manual(q2, 1, "OUT", 2),
     Collect(p1, 1, 1), Refund(p1, q1, 1, 1), CancelExp(e1)}

(* Outflows of every kind racing for the cash of two accounts; one of the  *)
(* disbursements and the reversal on the debit leg read early.             *)
OutflowCalls ==
    {Manual(q1, 1, "OUT", 2), Manual(q1, 2, "OUT", 1), Manual(q2, 2, "IN", 1),
     Disburse(q1, e1, 1, 1, None, "supplier", "CONCESSION"),
     Disburse(q2, e1, 2, 2, None, "budget", "GLOBAL"), Move(1, 2, 1),
     Undo(<<"disburse", q1>>), Undo(<<"manual", q2>>),
     Undo(<<"credit", t1>>), Undo(<<"debit", t1>>)}

(* A payment and its refunds, under two keys, racing an outflow and a      *)
(* transfer.  The reversals of the transfer lock its accounts in opposite  *)
(* orders, one per leg; the account may close under all of them.           *)
LockCalls ==
    {Collect(p1, 1, 1), Refund(p1, q1, 1, 1), Refund(p1, q2, 1, 1),
     Manual(q1, 1, "OUT", 2), Move(1, 2, 1), Undo(<<"credit", t1>>),
     Undo(<<"debit", t1>>), SetStatus(1, FALSE), SetStatus(1, TRUE)}

(* The few calls each counterexample needs.                                *)
RefundCalls ==
    {Collect(p1, 1, 1), Refund(p1, q1, 1, 1), Refund(p1, q2, 1, 1), Manual(q1, 1, "OUT", 3)}
ScopedCalls ==
    {Disburse(q1, e1, 1, 2, None, "budget", "CONCESSION"), Manual(q2, 1, "OUT", 2)}
CrossCalls ==
    {Reserve(r1, e1, 1, 2, u1), On("submit", r1, u1), On("approve", r1, u2),
     Reserve(r2, e1, 2, 1, u1), On("submit", r2, u1), On("approve", r2, u2)}
LateCalls ==
    {Disburse(q1, e1, 1, 1, None, "budget", "GLOBAL"), CancelExp(e1)}
DraftCalls ==
    {Reserve(r1, e1, 1, 2, u1), On("submit", r1, u1), On("approve", r1, u2), CancelExp(e1)}
=============================================================================
