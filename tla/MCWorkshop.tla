------------------------------ MODULE MCWorkshop ------------------------------
(* Two orders that share the stock, a technician and a bay. Each plan lets one *)
(* thing go its own way on a few lines; the others bound it to the ordinary    *)
(* course of an order.                                                         *)
EXTENDS Workshop, TLC

CONSTANTS o1, o2, l1, l2, p1, f1, x1, k1, k2, t1, b1

MCOf == (l1 :> o1) @@ (p1 :> o1) @@ (f1 :> o1) @@ (x1 :> o1) @@ (l2 :> o2)
MCQuantity == (l1 :> 2) @@ (p1 :> 2) @@ (f1 :> 1) @@ (x1 :> 1) @@ (l2 :> 1)

Only(orders, lines, clerks, allowed) ==
    [order |-> orders, line |-> lines, clerk |-> clerks,
     left |-> [e \in Errand |-> IF e \in DOMAIN allowed THEN allowed[e] ELSE 0]]

MCPlans == {
    \* parts reserved, consumed in part, edited late, released
    Only({o1}, {p1, x1}, {k1, k2}, [edit |-> 2, release |-> 1]),
    \* parts reserved before the customer decides, the stock counted
    Only({o1}, {p1, f1, x1}, {k1}, [cancellation |-> 1, release |-> 1, stock |-> 1, removal |-> 1]),
    \* one technician and one bay for two orders
    Only({o1, o2}, {l1, l2}, {k1}, [pause |-> 1, job |-> 2, session |-> 2]),
    \* an order given up while work starts
    Only({o1}, {l1, p1}, {k1, k2}, [cancellation |-> 1, abandon |-> 1, job |-> 2, session |-> 1]),
    \* the warranty, shared out while lines change
    Only({o1}, {l1, x1}, {k1, k2}, [warranty |-> 3, edit |-> 1]),
    \* bills withdrawn and made again
    Only({o1}, {l1}, {k1}, [warranty |-> 4, void |-> 1]),
    \* bills made by hand, a control that fails, an order given up
    Only({o1}, {l1}, {k1}, [manual |-> 1, failure |-> 1, abandon |-> 1, job |-> 2, session |-> 1])}
===============================================================================
