------------------------------ MODULE Envelope ------------------------------
(***************************************************************************)
(* What the budgets promise, whatever their concurrent requests do: the    *)
(* limit of a budget is only set while nothing is spent on it, is only     *)
(* raised afterwards, and expenses are committed one at a time, within it. *)
(* Budgets implements it (Budgets!ImplementsEnvelope).                     *)
(***************************************************************************)
EXTENDS Integers

CONSTANT Budget

VARIABLES
    limit,          \* what may be spent on each budget
    spent           \* what its approved expenses come to

vars == <<limit, spent>>

Init ==
    /\ limit \in [Budget -> Nat]
    /\ spent = [b \in Budget |-> 0]

(* A budget is created, or corrected before it is approved.                *)
Set(b) ==
    /\ spent[b] = 0
    /\ limit'[b] \in Nat
    /\ limit' = [limit EXCEPT ![b] = limit'[b]]
    /\ UNCHANGED spent

Raise(b) ==
    /\ limit'[b] >= limit[b]
    /\ limit' = [limit EXCEPT ![b] = limit'[b]]
    /\ UNCHANGED spent

Commit(b) ==
    /\ spent'[b] \in spent[b]..limit[b]
    /\ spent' = [spent EXCEPT ![b] = spent'[b]]
    /\ UNCHANGED limit

Release(b) ==
    /\ spent'[b] <= spent[b]
    /\ spent' = [spent EXCEPT ![b] = spent'[b]]
    /\ UNCHANGED limit

Next == \E b \in Budget : Set(b) \/ Raise(b) \/ Commit(b) \/ Release(b)

Spec == Init /\ [][Next]_vars
=============================================================================
