----------------------------- MODULE CashLedger -----------------------------
(***************************************************************************)
(* What the treasury promises about the cash of its accounts, whatever its *)
(* concurrent requests do: every change is one indivisible step, taken on  *)
(* the sums as they are at that step, and free cash (the balance less the  *)
(* reservations) is all that an outflow or a reservation may take.  Only a *)
(* client that has looked at the balances before may take what they left   *)
(* free then, whatever has been taken since.                               *)
(* Treasury implements it (Treasury!ImplementsCashLedger).                 *)
(***************************************************************************)
EXTENDS Integers

CONSTANTS
    Client,         \* who asks
    Account,        \* the accounts
    Amounts,        \* the amounts one step may move
    Opening,        \* [Account -> Int]: the balances at the start
    None            \* nothing seen

VARIABLES
    balance,        \* cash of each account
    reserved,       \* the part of it that is set aside
    seen            \* client -> the balances it looked at, or None

vars == <<balance, reserved, seen>>

TypeOK ==
    /\ balance \in [Account -> Int]
    /\ reserved \in [Account -> Int]
    /\ seen \in [Client -> [Account -> Int] \cup {None}]

Free(a) == balance[a] - reserved[a]

Init ==
    /\ balance = Opening
    /\ reserved = [a \in Account |-> 0]
    /\ seen = [k \in Client |-> None]

Deposit(a, n) ==
    /\ balance' = [balance EXCEPT ![a] = @ + n]
    /\ UNCHANGED <<reserved, seen>>

Withdraw(a, n) ==
    /\ n <= Free(a)
    /\ balance' = [balance EXCEPT ![a] = @ - n]
    /\ UNCHANGED <<reserved, seen>>

(* A transfer, or the reversal of one: both legs at once.                  *)
Move(from, to, n) ==
    /\ from # to
    /\ n <= Free(from)
    /\ balance' = [balance EXCEPT ![from] = @ - n, ![to] = @ + n]
    /\ UNCHANGED <<reserved, seen>>

SetAside(a, n) ==
    /\ n <= Free(a)
    /\ reserved' = [reserved EXCEPT ![a] = @ + n]
    /\ UNCHANGED <<balance, seen>>

GiveBack(a, n) ==
    /\ reserved' = [reserved EXCEPT ![a] = @ - n]
    /\ UNCHANGED <<balance, seen>>

(* Cash that was set aside pays what it was set aside for.                 *)
Spend(a, n) ==
    /\ n <= balance[a]
    /\ balance' = [balance EXCEPT ![a] = @ - n]
    /\ reserved' = [reserved EXCEPT ![a] = @ - n]
    /\ UNCHANGED seen

(* A client looks at the balances first, and forgets them with its request. *)
Look(k) ==
    /\ seen' = [seen EXCEPT ![k] = balance]
    /\ UNCHANGED <<balance, reserved>>

Forget(k) ==
    /\ seen' = [seen EXCEPT ![k] = None]
    /\ UNCHANGED <<balance, reserved>>

(* What it then takes is measured against what it saw.                     *)
WithdrawLate(k, a, n) ==
    /\ seen[k] # None
    /\ n <= seen[k][a] - reserved[a]
    /\ balance' = [balance EXCEPT ![a] = @ - n]
    /\ seen' = [seen EXCEPT ![k] = None]
    /\ UNCHANGED reserved

MoveLate(k, from, to, n) ==
    /\ from # to
    /\ seen[k] # None
    /\ n <= seen[k][from] - reserved[from]
    /\ balance' = [balance EXCEPT ![from] = @ - n, ![to] = @ + n]
    /\ seen' = [seen EXCEPT ![k] = None]
    /\ UNCHANGED reserved

SpendLate(k, a, n) ==
    /\ seen[k] # None
    /\ n <= seen[k][a]
    /\ balance' = [balance EXCEPT ![a] = @ - n]
    /\ reserved' = [reserved EXCEPT ![a] = @ - n]
    /\ seen' = [seen EXCEPT ![k] = None]

(* The steps that are measured against the sums as they are.               *)
Prompt ==
    \E a \in Account, n \in Amounts :
        \/ Deposit(a, n)
        \/ Withdraw(a, n)
        \/ \E b \in Account : Move(a, b, n)
        \/ SetAside(a, n)
        \/ GiveBack(a, n)
        \/ Spend(a, n)

Late(k, a, n) ==
    \/ WithdrawLate(k, a, n)
    \/ \E b \in Account : MoveLate(k, a, b, n)
    \/ SpendLate(k, a, n)

Next ==
    \/ Prompt
    \/ \E k \in Client :
          Look(k) \/ Forget(k) \/ \E a \in Account, n \in Amounts : Late(k, a, n)

Spec == Init /\ [][Next]_vars
=============================================================================
