-------------------------------- MODULE MCSales --------------------------------
(* One car, sold at most twice, for two units of money. Each plan lets one    *)
(* thing go its own way; the others bound it to the ordinary course of a sale. *)
EXTENDS Sales

CONSTANTS v1, k1, k2

Only(allowed) == [e \in Errand |-> IF e \in DOMAIN allowed THEN allowed[e] ELSE 0]

MCPlans == {
    \* a second sale of the car, while its status is overwritten
    Only([sale |-> 2, late |-> 2, cancellation |-> 1]),
    Only([sale |-> 2, return |-> 1]),
    \* credit: authorizations, a service, an invoice withdrawn
    Only([sale |-> 1, authorization |-> 2, service |-> 1, void |-> 1, credit |-> 1]),
    \* money given back
    Only([sale |-> 1, credit |-> 2, refund |-> 2, edit |-> 1, authorization |-> 1]),
    Only([sale |-> 1, cancellation |-> 1, credit |-> 1, refund |-> 1, void |-> 1]),
    \* a delivery is cancelled and planned again, by those who read it before
    Only([sale |-> 1, cancellation |-> 2, late |-> 2]),
    \* the car comes back
    Only([sale |-> 1, return |-> 2, deduction |-> 2, service |-> 1, credit |-> 1, authorization |-> 1,
          refund |-> 1]),
    \* its settlement is decided on a view taken before
    Only([sale |-> 1, return |-> 1, deduction |-> 1, late |-> 1, credit |-> 1, refund |-> 1])}

\* a delivery rescheduled by someone who read it before it was final
LatePlans == {Only([sale |-> 1, cancellation |-> 1, late |-> 1])}

\* an authorization, a service and the vehicle invoice withdrawn
CreditPlans == {Only([sale |-> 1, authorization |-> 1, service |-> 1, void |-> 1])}

\* a payment, a credit note or a refund between the view of a settlement and the
\* lock on its sale
StalePlans == {Only([sale |-> 1, return |-> 1, late |-> 1, credit |-> 1, refund |-> 1,
                     authorization |-> 1])}

\* Every invoice says what its payments, refunds and credit notes add up to,
\* and gives back no more than it received: recalculateInvoice. A settlement with
\* the scope CONCESSION can break it, hence BalanceTrue.
AlwaysBalanced == \A i \in DOMAIN invoices : Balanced(invoices[i])
===============================================================================
