------------------------------- MODULE Handover -------------------------------
(***************************************************************************)
(* What the sales, billing and delivery modules promise together about a   *)
(* car: it is promised to one sale at a time, it is handed over once and    *)
(* only to the sale it is promised to, and a sale that was cancelled or     *)
(* handed over stays so, except for one return of the car.                  *)
(***************************************************************************)
EXTENDS Naturals

CONSTANTS Vehicle, SaleId

VARIABLES
    stage,      \* stage[s]: where sale s stands
    car         \* car[s]: its vehicle, once the sale exists

vars == <<stage, car>>

Stage == {"none", "promised", "released", "handed", "returned"}

Init ==
    /\ stage = [s \in SaleId |-> "none"]
    /\ car \in [SaleId -> Vehicle]

Promise(s, v) ==
    /\ stage[s] = "none"
    /\ \A t \in SaleId : ~(stage[t] = "promised" /\ car[t] = v)
    /\ stage' = [stage EXCEPT ![s] = "promised"]
    /\ car' = [car EXCEPT ![s] = v]

Move(s, from, to) ==
    /\ stage[s] = from
    /\ stage' = [stage EXCEPT ![s] = to]
    /\ UNCHANGED car

Next == \E s \in SaleId :
    \/ \E v \in Vehicle : Promise(s, v)
    \/ Move(s, "promised", "released")
    \/ Move(s, "promised", "handed")
    \/ Move(s, "handed", "returned")

Spec == Init /\ [][Next]_vars
===============================================================================
