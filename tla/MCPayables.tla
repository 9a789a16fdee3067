------------------------------ MODULE MCPayables ------------------------------
(* One order of two lines and a store with two shelves. Each plan lets a few   *)
(* things happen, more than once where they race.                              *)
EXTENDS Payables, TLC

CONSTANTS a1, s1, s2, o1, l1, l2, k1, k2, i1, i2, c1, c2, n1, n2

MCSite == (s1 :> a1) @@ (s2 :> a1)
MCOf == (l1 :> o1) @@ (l2 :> o1)
MCBuyer == o1 :> a1

Up(kind, item, delivery, n, price, excused) ==
    [kind |-> kind, item |-> item, delivery |-> delivery, quantity |-> n, price |-> price,
     excused |-> excused]
MCBills == {Up("GOODS", l1, <<k1, l1>>, 2, 1, FALSE), Up("GOODS", None, None, 1, 1, TRUE),
            Up("SERVICE", None, None, 2, 1, FALSE)}

\* Nothing tells one clerk, or one credit note, from another.
Alike == Permutations(Clerk) \cup Permutations(Credit)

Shelf(s) == <<a1, s>>
Only(places, lines, allowed) ==
    [place |-> places, line |-> lines,
     left |-> [e \in Errand |-> IF e \in DOMAIN allowed THEN allowed[e] ELSE 0]]

MCPlans == {
    \* two transfers, a count or an adjustment, and the workshop
    Only({Shelf(s1), Shelf(s2), Shelf(None)}, {}, [transfer |-> 2, stock |-> 1, repair |-> 1]),
    \* receipts of one order race each other and its cancellation
    Only({Shelf(s1)}, {l1, l2}, [order |-> 1, receipt |-> 3, cancel |-> 1]),
    \* a draft is completed before it is sent
    Only({Shelf(s1)}, {l1, l2}, [order |-> 1, item |-> 1, receipt |-> 1, stock |-> 1]),
    \* an invoice of what is being received
    Only({Shelf(s1)}, {l1}, [order |-> 1, receipt |-> 1, item |-> 1, invoice |-> 2, edit |-> 1]),
    \* two credits and a payment of one invoice, of either route
    Only({Shelf(s1)}, {}, [invoice |-> 1, credit |-> 2, payment |-> 1]),
    Only({Shelf(s1)}, {}, [invoice |-> 1, credit |-> 1, direct |-> 1, reversal |-> 1]),
    \* two payments, a credit and a reversal
    Only({Shelf(s1)}, {}, [invoice |-> 1, credit |-> 1, payment |-> 2, reversal |-> 1])}
===============================================================================
